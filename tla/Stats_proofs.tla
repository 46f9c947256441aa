----------------------------- MODULE Stats_proofs -----------------------------
(***************************************************************************)
(* Proofs about Stats, for any number of workers, sessions, packets and    *)
(* delays, and any buckets: the numbers of a session are its own, and a    *)
(* percentile finds its rank among the delays it counts.                   *)
(***************************************************************************)
EXTENDS Stats, Series_proofs, SequenceTheorems, FiniteSetTheorems

Buckets == Len(Bounds) + 1

\* The cell of statsReset() that empties total comes after those of all buckets.
TotalCell == Buckets + 3

Resetting(w) == pc[w] \in {"startReset", "stopReset"}

\* The types of what the properties know.
GhostsOK ==
  /\ counted \in [Session -> Nat] /\ recorded \in [Session -> Seq(Delays)]
  /\ late \in [Session -> Nat]
  /\ \A s \in Session : s > session => counted[s] = 0 /\ recorded[s] = <<>>

\* appLock is held from a start's reset until its files are open, and a session is
\* opened in between; latencyLock is held behind the cell that takes it.
LockedBy(w) ==
  /\ pc[w] \in {"startReset", "open", "files"} <=> appLock = w
  /\ pc[w] \in {"startReset", "open"} => ~open
  /\ pc[w] = "files" => open
  /\ ~Resetting(w) => cell[w] = 1
  /\ Resetting(w) /\ cell[w] > 2 => latencyLock = w

Locked ==
  /\ \A w \in Workers : LockedBy(w)
  /\ latencyLock = Reader <=> read.at # 0
  /\ session = 0 => ~open

\* Whether a session's numbers may be disturbed by the reset of an earlier stop.
Disturbed == session # 0 /\ late[session] > 0
Undisturbed ==
  open /\ ~Disturbed => \A w \in Workers : pc[w] # "stopReset"

\* The cells before the k-th are empty.
Cleared(k) ==
  /\ k > 1 => captured = 0
  /\ \A b \in Bucket : k > b + 2 => bucket[b] = 0
  /\ k > TotalCell => total = 0
  /\ k > TotalCell + 1 => minMs = 0
  /\ k > TotalCell + 2 => maxMs = 0
  /\ k > TotalCell + 3 => sumLow = 0
  /\ k > TotalCell + 4 => sumHigh = 0

\* What a reset has emptied stays empty until a session opens.
StaysCleared ==
  \A w \in Workers :
    /\ pc[w] = "startReset" => Cleared(cell[w])
    /\ pc[w] = "stopReset" /\ ~open /\ ~Disturbed => Cleared(cell[w])
    /\ pc[w] = "open" => Cleared(TotalCell + 6)

\* A record is under way in an open session only, and the sum stays below its limit.
RecordOK ==
  /\ rec.at # "none" => open /\ rec.ms \in Delays
  /\ rec.at = "none" => rec = NoRecord
  /\ sumLow < Rollover /\ rec.low < Rollover

\* What the report and the log show while a session is open, and afterwards.
ReportInv ==
  /\ report.active <=> open /\ \A w \in Workers : pc[w] # "files"
  /\ report.active => report.session = session
  /\ report.session <= session
  /\ open /\ ~report.active => report.session # session
  /\ open => captured <= counted[session] /\ (~Disturbed => captured = counted[session])
  /\ report.session # 0 /\ ~report.active =>
       /\ report.final <= counted[report.session]
       /\ late[report.session] = 0 => report.final = counted[report.session]
  /\ report.active /\ ~Disturbed => log.prev <= captured /\ report.sample <= captured

\* How often a delay of bucket b was recorded in r.
Count(r, b) == Cardinality({i \in DOMAIN r : BucketOf(r[i]) = b})

\* The smallest and the largest of S, if there is one.
IsMin(x, S) == S # {} => x \in S /\ \A y \in S : x <= y
IsMax(x, S) == IF S = {} THEN x = 0 ELSE x \in S /\ \A y \in S : x >= y

\* The histogram while a record is under way: the cells it has been to hold its delay.
Tallied(r) ==
  \A b \in Bucket :
    bucket[b] = Count(r, b) + (IF rec.at # "none" /\ BucketOf(rec.ms) = b THEN 1 ELSE 0)
Summed(r) ==
  sumHigh * Rollover + (IF rec.at = "low" THEN rec.low ELSE sumLow)
    = Total(r) + (IF rec.at \in {"low", "total"} THEN rec.ms ELSE 0)
Smallest(r) ==
  IsMin(minMs, ToSet(r) \cup IF rec.at \in {"max", "sum", "low", "total"} THEN {rec.ms} ELSE {})
Largest(r) ==
  IsMax(maxMs, ToSet(r) \cup IF rec.at \in {"sum", "low", "total"} THEN {rec.ms} ELSE {})
Histogram(r) == total = Len(r) /\ Tallied(r) /\ Summed(r) /\ Smallest(r) /\ Largest(r)

HistogramInv == open /\ ~Disturbed => Histogram(recorded[session])

\* All that the buckets hold; the record that may be missing in total; and the one
\* that a late reset may have taken from a bucket.
Held == SumTo(bucket, Buckets)
InHand == IF rec.at = "none" THEN 0 ELSE 1
Missing == IF Disturbed THEN 1 ELSE 0

\* While no reset is among the buckets, total counts no more than they hold.
BucketsStand == \A w \in Workers : Resetting(w) /\ cell[w] > 2 => cell[w] > TotalCell

Covered ==
  /\ BucketsStand => total + InHand <= Held + Missing
  /\ session # 0 /\ ~Disturbed /\ total > 0 => minMs <= maxMs

\* While a percentile is looked for, nobody resets, and what it has not yet seen is
\* still in the buckets.
Reading ==
  read.at # 0 =>
    /\ \A w \in Workers : pc[w] # "open" /\ (Resetting(w) => cell[w] <= 2)
    /\ read.n + SumTo(bucket, read.at - 1) <= read.found + Held + Missing
    /\ session # 0 /\ ~Disturbed => read.lowest <= read.highest

IInv ==
  /\ TypeOK /\ GhostsOK /\ Locked /\ Undisturbed /\ StaysCleared /\ RecordOK
  /\ ReportInv /\ HistogramInv /\ Covered /\ Reading

------------------------------------------------------------------------------
(* The operators.                                                           *)

\* Where the buckets and the cells of a reset lie.
LEMMA CellsAre ==
  /\ Buckets \in Nat \ {0} /\ Bucket = 1..Buckets
  /\ TotalCell \in Nat /\ TotalCell = Buckets + 3 /\ LastCell = TotalCell + 5
  /\ Cells[1] = "captured" /\ Cells[2] = "lock"
  /\ \A k \in 3..TotalCell-1 : Cells[k] = "bucket"
  /\ Cells[TotalCell] = "total" /\ Cells[TotalCell + 1] = "min" /\ Cells[TotalCell + 2] = "max"
  /\ Cells[TotalCell + 3] = "low" /\ Cells[TotalCell + 4] = "high"
  /\ Cells[TotalCell + 5] = "unlock"
  <1>1. Len(Bounds) \in Nat
    BY StatsAssumption, LenProperties
  <1>2. /\ Buckets \in Nat \ {0} /\ Bucket = 1..Buckets
        /\ TotalCell \in Nat /\ TotalCell = Buckets + 3 /\ LastCell = TotalCell + 5
        /\ Len(Bounds) + 4 = TotalCell
    BY <1>1 DEF Buckets, Bucket, TotalCell, LastCell
  <1> DEFINE names == <<"total", "min", "max", "low", "high", "unlock">>
  <1>3. \A k \in 1..LastCell :
          /\ k < 3 => Cells[k] = <<"captured", "lock">>[k]
          /\ k >= 3 /\ k < TotalCell => Cells[k] = "bucket"
          /\ k >= TotalCell => Cells[k] = names[k - Len(Bounds) - 3]
    BY <1>1, <1>2 DEF Cells
  <1>8. names[1] = "total" /\ names[2] = "min" /\ names[3] = "max" /\ names[4] = "low"
        /\ names[5] = "high" /\ names[6] = "unlock"
    OBVIOUS
  <1> HIDE DEF names
  <1>4. Cells[1] = "captured" /\ Cells[2] = "lock" /\ \A k \in 3..TotalCell-1 : Cells[k] = "bucket"
    BY <1>2, <1>3
  <1>5. ASSUME NEW j \in 1..6
        PROVE Cells[TotalCell + j - 1] = names[j]
    <2> DEFINE k == TotalCell + j - 1
    <2>1. k \in 1..LastCell /\ k >= TotalCell /\ k - Len(Bounds) - 3 = j
      BY <1>1, <1>2
    <2> HIDE DEF k
    <2>2. Cells[k] = names[k - Len(Bounds) - 3]
      BY <1>3, <2>1
    <2>3. Cells[k] = names[j]
      BY <2>1, <2>2, Zenon
    <2> QED
      BY <2>3 DEF k
  <1>6. /\ TotalCell + 1 - 1 = TotalCell /\ TotalCell + 2 - 1 = TotalCell + 1
        /\ TotalCell + 3 - 1 = TotalCell + 2 /\ TotalCell + 4 - 1 = TotalCell + 3
        /\ TotalCell + 5 - 1 = TotalCell + 4 /\ TotalCell + 6 - 1 = TotalCell + 5
        /\ 1 \in 1..6 /\ 2 \in 1..6 /\ 3 \in 1..6 /\ 4 \in 1..6 /\ 5 \in 1..6 /\ 6 \in 1..6
    BY <1>2
  <1>7. /\ Cells[TotalCell] = "total" /\ Cells[TotalCell + 1] = "min"
        /\ Cells[TotalCell + 2] = "max" /\ Cells[TotalCell + 3] = "low"
        /\ Cells[TotalCell + 4] = "high" /\ Cells[TotalCell + 5] = "unlock"
    BY <1>5, <1>6, <1>8
  <1> QED
    BY <1>2, <1>4, <1>7

\* A start opens the session after its reset, and its files after that.
LEMMA ProceedIs ==
  ASSUME NEW w, Proceed(w)
  PROVE  /\ pc[w] = "startReset" => pc' = [pc EXCEPT ![w] = "open"]
         /\ pc[w] = "open" => pc' = [pc EXCEPT ![w] = "files"]
         /\ pc[w] = "files" => pc' = [pc EXCEPT ![w] = "idle"]
  <1> DEFINE i == CHOOSE j \in DOMAIN StartOrder : StartOrder[j] = pc[w]
             next == IF i < Len(StartOrder) THEN StartOrder[i + 1] ELSE "idle"
  <1>1. /\ DOMAIN StartOrder = 1..3 /\ Len(StartOrder) = 3
        /\ StartOrder[1] = "startReset" /\ StartOrder[2] = "open" /\ StartOrder[3] = "files"
    BY DEF StartOrder
  <1>2. pc' = [pc EXCEPT ![w] = next]
    BY DEF Proceed
  <1>3. \A j \in DOMAIN StartOrder : StartOrder[j] = pc[w] =>
          i \in DOMAIN StartOrder /\ StartOrder[i] = pc[w]
    OBVIOUS
  <1> HIDE DEF i
  <1>4. /\ pc[w] = "startReset" => i = 1
        /\ pc[w] = "open" => i = 2
        /\ pc[w] = "files" => i = 3
    BY <1>1, <1>3
  <1>5. /\ i = 1 => next = StartOrder[2]
        /\ i = 2 => next = StartOrder[3]
        /\ i = 3 => next = "idle"
    BY <1>1
  <1> HIDE DEF next
  <1> QED
    BY <1>1, <1>2, <1>4, <1>5

\* Every delay has a bucket.
LEMMA BucketOfIn == \A ms \in Nat : BucketOf(ms) \in Bucket
  <1> SUFFICES ASSUME NEW ms \in Nat PROVE BucketOf(ms) \in Bucket
    OBVIOUS
  <1> DEFINE Fits(b) == b \in DOMAIN Bounds => ms <= Bounds[b]
             First(b) == Fits(b) /\ \A c \in 1..b-1 : ms > Bounds[c]
  <1>1. /\ Buckets \in Nat \ {0} /\ Bucket = 1..Buckets
        /\ DOMAIN Bounds = 1..Buckets-1 /\ \A c \in 1..Buckets-1 : Bounds[c] \in Nat
    BY CellsAre, StatsAssumption, LenProperties DEF Buckets
  <1>2. \E b \in Bucket : First(b)
    <2> SUFFICES ASSUME \A b \in Bucket : ~First(b) PROVE FALSE
      OBVIOUS
    <2> DEFINE S == {n \in Nat : n < Buckets => \A c \in 1..n : ms > Bounds[c]}
    <2>1. 0 \in S
      OBVIOUS
    <2>2. ASSUME NEW n \in Nat, n \in S PROVE n + 1 \in S
      <3> SUFFICES ASSUME n + 1 < Buckets PROVE \A c \in 1..n+1 : ms > Bounds[c]
        OBVIOUS
      <3>1. /\ n + 1 \in Bucket /\ n + 1 \in DOMAIN Bounds /\ n < Buckets
            /\ n + 1 \in 1..Buckets-1 /\ n + 1 - 1 = n
        BY <1>1
      <3>2. \A c \in 1..n : ms > Bounds[c]
        BY <2>2, <3>1
      <3>3. ~Fits(n + 1)
        BY <3>1, <3>2
      <3>4. ms > Bounds[n + 1]
        BY <1>1, <3>1, <3>3
      <3> QED
        BY <3>2, <3>4
    <2> HIDE DEF S
    <2>3. Nat \subseteq S
      BY <2>1, <2>2, Induction
    <2>4. Buckets - 1 \in Nat /\ Buckets - 1 < Buckets /\ Buckets \in Bucket
          /\ Buckets \notin DOMAIN Bounds
      BY <1>1
    <2>5. \A c \in 1..Buckets-1 : ms > Bounds[c]
      BY <2>3, <2>4 DEF S
    <2> QED
      BY <2>4, <2>5
  <1>3. BucketOf(ms) = CHOOSE b \in Bucket : First(b)
    BY DEF BucketOf
  <1> HIDE DEF First
  <1> QED
    BY <1>2, <1>3

\* Which cell has which name.
LEMMA CellNames ==
  \A k \in 1..LastCell :
    /\ Cells[k] = "captured" <=> k = 1
    /\ Cells[k] = "lock" <=> k = 2
    /\ Cells[k] = "bucket" <=> k \in 3..TotalCell-1
    /\ Cells[k] = "total" <=> k = TotalCell
    /\ Cells[k] = "min" <=> k = TotalCell + 1
    /\ Cells[k] = "max" <=> k = TotalCell + 2
    /\ Cells[k] = "low" <=> k = TotalCell + 3
    /\ Cells[k] = "high" <=> k = TotalCell + 4
    /\ Cells[k] = "unlock" <=> k = LastCell
  <1> SUFFICES ASSUME NEW k \in 1..LastCell
               PROVE  /\ Cells[k] = "captured" <=> k = 1
                      /\ Cells[k] = "lock" <=> k = 2
                      /\ Cells[k] = "bucket" <=> k \in 3..TotalCell-1
                      /\ Cells[k] = "total" <=> k = TotalCell
                      /\ Cells[k] = "min" <=> k = TotalCell + 1
                      /\ Cells[k] = "max" <=> k = TotalCell + 2
                      /\ Cells[k] = "low" <=> k = TotalCell + 3
                      /\ Cells[k] = "high" <=> k = TotalCell + 4
                      /\ Cells[k] = "unlock" <=> k = LastCell
    OBVIOUS
  <1>1. /\ TotalCell \in Nat /\ TotalCell > 3 /\ LastCell = TotalCell + 5
    BY CellsAre
  <1>2. \/ k = 1 \/ k = 2 \/ k \in 3..TotalCell-1 \/ k = TotalCell \/ k = TotalCell + 1
        \/ k = TotalCell + 2 \/ k = TotalCell + 3 \/ k = TotalCell + 4 \/ k = TotalCell + 5
    BY <1>1
  <1>3. /\ k = 1 => Cells[k] = "captured"
        /\ k = 2 => Cells[k] = "lock"
        /\ k \in 3..TotalCell-1 => Cells[k] = "bucket"
        /\ k = TotalCell => Cells[k] = "total"
        /\ k = TotalCell + 1 => Cells[k] = "min"
        /\ k = TotalCell + 2 => Cells[k] = "max"
        /\ k = TotalCell + 3 => Cells[k] = "low"
        /\ k = TotalCell + 4 => Cells[k] = "high"
        /\ k = TotalCell + 5 => Cells[k] = "unlock"
    BY CellsAre
  <1> QED
    BY <1>1, <1>2, <1>3

\* What the k-th step of w's reset does.
ResetStep(w, k) ==
  /\ k = 2 => latencyLock = "free"
  /\ latencyLock' = IF k = 2 THEN w ELSE IF k = LastCell THEN "free" ELSE latencyLock
  /\ captured' = IF k = 1 THEN 0 ELSE captured
  /\ bucket' = IF k \in 3..TotalCell-1 THEN [bucket EXCEPT ![k - 2] = 0] ELSE bucket
  /\ total' = IF k = TotalCell THEN 0 ELSE total
  /\ minMs' = IF k = TotalCell + 1 THEN 0 ELSE minMs
  /\ maxMs' = IF k = TotalCell + 2 THEN 0 ELSE maxMs
  /\ sumLow' = IF k = TotalCell + 3 THEN 0 ELSE sumLow
  /\ sumHigh' = IF k = TotalCell + 4 THEN 0 ELSE sumHigh

LEMMA ResetIs ==
  ASSUME TypeOK, NEW w \in Workers, ResetCell(w)
  PROVE  /\ cell[w] \in 1..LastCell /\ Resetting(w) /\ ResetStep(w, cell[w])
         /\ cell[w] < LastCell => cell' = [cell EXCEPT ![w] = cell[w] + 1] /\ pc' = pc
         /\ cell[w] = LastCell =>
              /\ cell' = [cell EXCEPT ![w] = 1]
              /\ pc' = [pc EXCEPT ![w] = IF pc[w] = "stopReset" THEN "idle" ELSE "open"]
         /\ UNCHANGED <<appLock, session, open, rec, read, log, report, ghosts>>
  <1> DEFINE k == cell[w]
  <1>1. k \in 1..LastCell /\ LastCell \in Nat
    BY CellsAre DEF TypeOK
  <1>2. /\ Cells[k] = "captured" <=> k = 1
        /\ Cells[k] = "lock" <=> k = 2
        /\ Cells[k] = "bucket" <=> k \in 3..TotalCell-1
        /\ Cells[k] = "total" <=> k = TotalCell
        /\ Cells[k] = "min" <=> k = TotalCell + 1
        /\ Cells[k] = "max" <=> k = TotalCell + 2
        /\ Cells[k] = "low" <=> k = TotalCell + 3
        /\ Cells[k] = "high" <=> k = TotalCell + 4
        /\ Cells[k] = "unlock" <=> k = LastCell
    BY <1>1, CellNames
  <1>3. /\ Resetting(w)
        /\ Cells[k] = "lock" => latencyLock = "free"
        /\ latencyLock' = IF Cells[k] = "lock" THEN w
                          ELSE IF Cells[k] = "unlock" THEN "free" ELSE latencyLock
        /\ captured' = IF Cells[k] = "captured" THEN 0 ELSE captured
        /\ bucket' = IF Cells[k] = "bucket" THEN [bucket EXCEPT ![k - 2] = 0] ELSE bucket
        /\ total' = IF Cells[k] = "total" THEN 0 ELSE total
        /\ minMs' = IF Cells[k] = "min" THEN 0 ELSE minMs
        /\ maxMs' = IF Cells[k] = "max" THEN 0 ELSE maxMs
        /\ sumLow' = IF Cells[k] = "low" THEN 0 ELSE sumLow
        /\ sumHigh' = IF Cells[k] = "high" THEN 0 ELSE sumHigh
        /\ UNCHANGED <<appLock, session, open, rec, read, log, report, ghosts>>
    BY Zenon DEF ResetCell, ResetMayBegin, BucketAt, Resetting
  <1>4. IF k < LastCell THEN cell' = [cell EXCEPT ![w] = k + 1] /\ UNCHANGED pc ELSE ResetDone(w)
    BY Zenon DEF ResetCell
  <1>5. ASSUME k = LastCell
        PROVE /\ cell' = [cell EXCEPT ![w] = 1]
              /\ pc' = [pc EXCEPT ![w] = IF pc[w] = "stopReset" THEN "idle" ELSE "open"]
    <2>1. ResetDone(w)
      BY <1>1, <1>4, <1>5
    <2>2. /\ cell' = [cell EXCEPT ![w] = 1]
          /\ IF pc[w] = "stopReset" THEN pc' = [pc EXCEPT ![w] = "idle"] ELSE Proceed(w)
      BY <2>1 DEF ResetDone
    <2>3. pc[w] # "stopReset" => pc[w] = "startReset"
      BY <1>3 DEF Resetting
    <2>4. pc[w] # "stopReset" => pc' = [pc EXCEPT ![w] = "open"]
      BY <2>2, <2>3, ProceedIs
    <2> QED
      BY <2>2, <2>4
  <1> HIDE DEF k
  <1>6. /\ k < LastCell => cell' = [cell EXCEPT ![w] = k + 1] /\ pc' = pc
        /\ k = LastCell =>
              /\ cell' = [cell EXCEPT ![w] = 1]
              /\ pc' = [pc EXCEPT ![w] = IF pc[w] = "stopReset" THEN "idle" ELSE "open"]
    BY <1>4, <1>5, Zenon
  <1>7. ResetStep(w, k)
    BY <1>2, <1>3 DEF ResetStep
  <1>8. Resetting(w) /\ UNCHANGED <<appLock, session, open, rec, read, log, report, ghosts>>
    BY <1>3
  <1> QED
    BY <1>1, <1>6, <1>7, <1>8 DEF k

\* The remainder of a sum that reaches the rollover once at most.
LEMMA RolledOver ==
  \A n \in Nat :
    /\ n % Rollover \in Nat /\ n % Rollover < Rollover
    /\ n < Rollover => n % Rollover = n
    /\ n >= Rollover /\ n < 2 * Rollover => n % Rollover = n - Rollover
  <1>1. Rollover \in Nat \ {0}
    BY StatsAssumption
  <1>2. ASSUME NEW n \in Nat PROVE n % Rollover \in 0..Rollover-1
    BY <1>1
  <1>3. ASSUME NEW n \in Nat, n < Rollover PROVE n % Rollover = n
    BY <1>1, <1>3
  <1>4. ASSUME NEW n \in Nat, n >= Rollover, n < 2 * Rollover PROVE n % Rollover = n - Rollover
    BY <1>1, <1>4
  <1> QED
    BY <1>1, <1>2, <1>3, <1>4

------------------------------------------------------------------------------
(* Types and ghosts.                                                        *)

LEMMA TypeKept == ASSUME TypeOK, GhostsOK, RecordOK, [Next]_vars PROVE TypeOK'
  <1>0. /\ Rollover \in Nat \ {0} /\ Delays \subseteq Nat /\ MaxSessions \in Nat
        /\ "free" \notin Workers /\ Reader \notin Workers
    BY StatsAssumption
  <1>1. CASE UNCHANGED vars
    BY <1>1 DEF TypeOK, vars, histogram
  <1>2. CASE Capture
    BY <1>2 DEF Capture, TypeOK, histogram
  <1>3. ASSUME NEW ms \in Delays, RecordBucket(ms) PROVE TypeOK'
    <2>1. ms \in Nat /\ BucketOf(ms) \in Bucket
      BY <1>0, BucketOfIn
    <2> DEFINE b == BucketOf(ms)
    <2>4. b \in Bucket /\ bucket' = [bucket EXCEPT ![b] = bucket[b] + 1]
      BY <1>3, <2>1 DEF RecordBucket
    <2> HIDE DEF b
    <2>5. bucket \in [Bucket -> Nat]
      BY DEF TypeOK
    <2>2. bucket' \in [Bucket -> Nat]
      BY <2>4, <2>5
    <2>3. rec' \in [at : {"none", "min", "max", "sum", "low", "total"}, ms : Nat, low : Nat]
      BY <1>3, <2>1 DEF RecordBucket, TypeOK
    <2> QED
      BY <1>3, <2>2, <2>3 DEF RecordBucket, TypeOK
  <1>4. CASE RecordMin
    BY <1>4 DEF RecordMin, TypeOK
  <1>5. CASE RecordMax
    BY <1>5 DEF RecordMax, TypeOK
  <1>6. CASE RecordSum
    <2>0. sumLow \in Nat /\ rec.ms \in Nat
      BY DEF TypeOK
    <2>1. sumLow + rec.ms \in Nat /\ (sumLow + rec.ms) % Rollover \in Nat
      BY <1>0, <2>0, RolledOver
    <2>2. /\ rec' = [rec EXCEPT !.at = "low", !.low = (sumLow + rec.ms) % Rollover]
          /\ sumHigh' = IF sumLow + rec.ms >= Rollover THEN sumHigh + 1 ELSE sumHigh
      BY <1>6 DEF RecordSum
    <2> DEFINE low == (sumLow + rec.ms) % Rollover
    <2>3. low \in Nat /\ rec' = [rec EXCEPT !.at = "low", !.low = low]
      BY <2>1, <2>2
    <2> HIDE DEF low
    <2>4. rec' \in [at : {"none", "min", "max", "sum", "low", "total"}, ms : Nat, low : Nat]
      BY <2>3 DEF TypeOK
    <2>6. sumHigh \in Nat
      BY DEF TypeOK
    <2>5. sumHigh' \in Nat
      BY <2>2, <2>6
    <2> QED
      BY <1>6, <2>4, <2>5 DEF RecordSum, TypeOK
  <1>7. CASE RecordLow
    BY <1>7 DEF RecordLow, TypeOK
  <1>8. CASE RecordTotal
    BY <1>8 DEF RecordTotal, TypeOK, NoRecord
  <1>9. ASSUME NEW w \in Workers, ResetCell(w) PROVE TypeOK'
    <2> DEFINE k == cell[w]
    <2>1. /\ k \in 1..LastCell /\ Resetting(w) /\ ResetStep(w, k)
          /\ k < LastCell => cell' = [cell EXCEPT ![w] = k + 1] /\ pc' = pc
          /\ k = LastCell =>
              /\ cell' = [cell EXCEPT ![w] = 1]
              /\ pc' = [pc EXCEPT ![w] = IF pc[w] = "stopReset" THEN "idle" ELSE "open"]
          /\ UNCHANGED <<appLock, session, open, rec, read, log, report, ghosts>>
      BY <1>9, ResetIs
    <2>2. LastCell \in Nat /\ TotalCell \in Nat /\ Buckets \in Nat /\ TotalCell = Buckets + 3
          /\ Bucket = 1..Buckets /\ LastCell = TotalCell + 5
      BY CellsAre
    <2> HIDE DEF k
    <2>3. latencyLock' \in Workers \cup {Reader, "free"}
      BY <2>1 DEF ResetStep, TypeOK
    <2>4. bucket' \in [Bucket -> Nat]
      BY <2>1, <2>2 DEF ResetStep, TypeOK
    <2>5. /\ captured' \in Nat /\ total' \in Nat /\ minMs' \in Nat /\ maxMs' \in Nat
          /\ sumLow' \in Nat /\ sumHigh' \in Nat
      BY <2>1 DEF ResetStep, TypeOK
    <2>6. cell' \in [Workers -> 1..LastCell]
      <3>1. k < LastCell => k + 1 \in 1..LastCell
        BY <2>1, <2>2
      <3>2. k < LastCell \/ k = LastCell
        BY <2>1, <2>2
      <3>3. 1 \in 1..LastCell
        BY <2>2
      <3>4. cell \in [Workers -> 1..LastCell]
        BY DEF TypeOK
      <3> QED
        BY <2>1, <3>1, <3>2, <3>3, <3>4
    <2>7. pc' \in [Workers -> {"idle", "startReset", "open", "files", "stopReset"}]
      <3> DEFINE p == IF pc[w] = "stopReset" THEN "idle" ELSE "open"
                 P == {"idle", "startReset", "open", "files", "stopReset"}
      <3>1. pc \in [Workers -> P] /\ p \in P
        BY DEF TypeOK
      <3>2. pc' = pc \/ pc' = [pc EXCEPT ![w] = p]
        BY <2>1, <2>2
      <3> HIDE DEF p, P
      <3>3. pc' \in [Workers -> P]
        BY <3>1, <3>2
      <3> QED
        BY <3>3 DEF P
    <2> QED
      BY <2>1, <2>3, <2>4, <2>5, <2>6, <2>7 DEF TypeOK
  <1>10. ASSUME NEW w \in Workers, Start(w) PROVE TypeOK'
    <2>1. pc' = [pc EXCEPT ![w] = "startReset"] /\ appLock' = w
      BY <1>10 DEF Start, StartOrder
    <2> QED
      BY <1>10, <2>1 DEF Start, TypeOK, histogram
  <1>11. ASSUME NEW w \in Workers, DivertStart(w) PROVE TypeOK'
    <2>1. Proceed(w) /\ pc[w] = "open"
      BY <1>11 DEF DivertStart
    <2>2. pc' = [pc EXCEPT ![w] = "files"]
      BY <2>1, ProceedIs
    <2>3. session' \in 0..MaxSessions
      BY <1>0, <1>11 DEF DivertStart, TypeOK
    <2>4. report' \in [session : 0..MaxSessions, active : BOOLEAN, final : Nat, sample : Nat]
      BY <1>11 DEF DivertStart, TypeOK
    <2> QED
      BY <1>11, <2>2, <2>3, <2>4 DEF DivertStart, TypeOK, histogram
  <1>12. ASSUME NEW w \in Workers, DivertStartFails(w) PROVE TypeOK'
    BY <1>12 DEF DivertStartFails, TypeOK, histogram
  <1>13. ASSUME NEW w \in Workers, OpenFiles(w) PROVE TypeOK'
    <2>1. Proceed(w) /\ pc[w] = "files"
      BY <1>13 DEF OpenFiles
    <2>2. pc' = [pc EXCEPT ![w] = "idle"]
      BY <2>1, ProceedIs
    <2>3. report' \in [session : 0..MaxSessions, active : BOOLEAN, final : Nat, sample : Nat]
      BY <1>13 DEF OpenFiles, TypeOK, ReportStarted
    <2>4. log' \in [open : BOOLEAN, prev : Nat]
      BY <1>13 DEF OpenFiles, TypeOK, LogStarted
    <2> QED
      BY <1>13, <2>2, <2>3, <2>4 DEF OpenFiles, TypeOK, histogram
  <1>14. ASSUME NEW w \in Workers, Stop(w) PROVE TypeOK'
    <2>1. report' \in [session : 0..MaxSessions, active : BOOLEAN, final : Nat, sample : Nat]
      BY <1>14 DEF Stop, TypeOK, ReportStopped
    <2>2. log' \in [open : BOOLEAN, prev : Nat]
      BY <1>14 DEF Stop, TypeOK, LogStopped
    <2> QED
      BY <1>14, <2>1, <2>2 DEF Stop, TypeOK, histogram
  <1>15. CASE Tick
    <2>1. report' \in [session : 0..MaxSessions, active : BOOLEAN, final : Nat, sample : Nat]
      BY <1>15 DEF Tick, TypeOK, ReportTicked
    <2>2. log' \in [open : BOOLEAN, prev : Nat]
      BY <1>15 DEF Tick, TypeOK, LogTicked
    <2> QED
      BY <1>15, <2>1, <2>2 DEF Tick, TypeOK, histogram
  <1>16. CASE ReadBegin
    <2>1. Len(Bounds) \in Nat
      BY StatsAssumption, LenProperties
    <2>2. read' \in [at : 0..Len(Bounds) + 2, n : Nat, lowest : Nat, highest : Nat, found : Nat]
      BY <1>16, <2>1 DEF ReadBegin, TypeOK
    <2> QED
      BY <1>16, <2>2 DEF ReadBegin, TypeOK, histogram
  <1>17. CASE ReadBucket
    <2>1. Len(Bounds) \in Nat
      BY StatsAssumption, LenProperties
    <2>4. read.at \in Bucket
      BY <1>17 DEF ReadBucket
    <2>5. read.at \in 1..Len(Bounds)+1
      BY <2>4 DEF Bucket
    <2>6. bucket[read.at] \in Nat
      BY <2>4 DEF TypeOK
    <2> DEFINE n == bucket[read.at]
    <2>7. n \in Nat /\ read' = [read EXCEPT !.at = read.at + 1, !.found = read.found + n]
      BY <1>17, <2>6 DEF ReadBucket
    <2> HIDE DEF n
    <2>8. read \in [at : 0..Len(Bounds) + 2, n : Nat, lowest : Nat, highest : Nat, found : Nat]
      BY DEF TypeOK
    <2>3. read' \in [at : 0..Len(Bounds) + 2, n : Nat, lowest : Nat, highest : Nat, found : Nat]
      <3>1. read.at + 1 \in 0..Len(Bounds)+2
        BY <2>1, <2>5
      <3>2. read.found + n \in Nat
        BY <2>7, <2>8
      <3> DEFINE at == read.at + 1
                 sum == read.found + n
      <3>3. read' = [read EXCEPT !.at = at, !.found = sum] /\ at \in 0..Len(Bounds)+2 /\ sum \in Nat
        BY <2>7, <3>1, <3>2
      <3> HIDE DEF at, sum
      <3> QED
        BY <2>8, <3>3
    <2> QED
      BY <1>17, <2>3 DEF ReadBucket, TypeOK, histogram
  <1>18. CASE ReadEnd
    <2>1. Len(Bounds) \in Nat
      BY StatsAssumption, LenProperties
    <2>2. read' \in [at : 0..Len(Bounds) + 2, n : Nat, lowest : Nat, highest : Nat, found : Nat]
      BY <1>18, <2>1 DEF ReadEnd, TypeOK, NoRead
    <2> QED
      BY <1>18, <2>2 DEF ReadEnd, TypeOK, histogram
  <1> QED
    BY <1>1, <1>2, <1>3, <1>4, <1>5, <1>6, <1>7, <1>8, <1>9, <1>10, <1>11, <1>12, <1>13, <1>14,
       <1>15, <1>16, <1>17, <1>18 DEF Next, LatencyRecord

LEMMA GhostsKept == ASSUME TypeOK, GhostsOK, RecordOK, Locked, [Next]_vars PROVE GhostsOK'
  <1>0. MaxSessions \in Nat /\ session \in 0..MaxSessions
    BY StatsAssumption DEF TypeOK
  <1>1. CASE UNCHANGED <<counted, recorded, late, session>>
    BY <1>1 DEF GhostsOK
  <1>2. ASSUME open PROVE session \in Session
    <2>1. session # 0
      BY <1>2 DEF Locked
    <2> QED
      BY <1>0, <2>1 DEF Session
  <1>3. CASE Capture
    <2>1. session \in Session /\ counted' = [counted EXCEPT ![session] = counted[session] + 1]
          /\ recorded' = recorded /\ late' = late /\ session' = session
      BY <1>2, <1>3 DEF Capture
    <2>2. counted' \in [Session -> Nat]
      BY <2>1 DEF GhostsOK
    <2>3. \A s \in Session : s > session => s # session
      BY <1>0 DEF Session
    <2> QED
      BY <2>1, <2>2, <2>3 DEF GhostsOK
  <1>4. CASE RecordTotal
    <2> DEFINE r == Append(recorded[session], rec.ms)
    <2>0. open /\ rec.ms \in Delays
      BY <1>4 DEF RecordTotal, RecordOK
    <2>1. session \in Session /\ recorded' = [recorded EXCEPT ![session] = r]
          /\ counted' = counted /\ late' = late /\ session' = session
      BY <1>2, <1>4, <2>0 DEF RecordTotal
    <2>2. recorded[session] \in Seq(Delays)
      BY <2>1 DEF GhostsOK
    <2>4. r \in Seq(Delays)
      BY <2>0, <2>2, AppendProperties
    <2> HIDE DEF r
    <2>5. recorded' \in [Session -> Seq(Delays)]
      BY <2>1, <2>4 DEF GhostsOK
    <2>3. \A s \in Session : s > session => s # session
      BY <1>0 DEF Session
    <2> QED
      BY <2>1, <2>5, <2>3 DEF GhostsOK
  <1>5. ASSUME NEW w \in Workers, DivertStart(w) PROVE GhostsOK'
    <2> DEFINE c == Cardinality({v \in Workers : pc[v] = "stopReset"})
    <2>1. /\ session' = session + 1 /\ late' = [late EXCEPT ![session + 1] = c]
          /\ counted' = counted /\ recorded' = recorded
      BY <1>5 DEF DivertStart
    <2>2. c \in Nat
      <3>1. {v \in Workers : pc[v] = "stopReset"} \subseteq Workers /\ IsFiniteSet(Workers)
        BY StatsAssumption
      <3> QED
        BY <3>1, FS_Subset, FS_CardinalityType
    <2> HIDE DEF c
    <2>3. late' \in [Session -> Nat]
      BY <2>1, <2>2 DEF GhostsOK
    <2>4. \A s \in Session : s > session + 1 => s > session
      BY <1>0 DEF Session
    <2> QED
      BY <2>1, <2>3, <2>4 DEF GhostsOK
  <1>6. ASSUME NEW w \in Workers, ResetCell(w) PROVE GhostsOK'
    BY <1>1, <1>6 DEF ResetCell, ghosts
  <1>7. ASSUME NEW ms \in Delays, RecordBucket(ms) PROVE GhostsOK'
    BY <1>1, <1>7 DEF RecordBucket, ghosts
  <1> QED
    BY <1>1, <1>3, <1>4, <1>5, <1>6, <1>7
    DEF Next, LatencyRecord, RecordMin, RecordMax, RecordSum, RecordLow, Start, DivertStartFails,
        OpenFiles, Stop, Tick, ReadBegin, ReadBucket, ReadEnd, ghosts, vars

------------------------------------------------------------------------------
(* The locks.                                                               *)

\* What a step of w means for the other workers.
LEMMA OthersAsBefore ==
  ASSUME TypeOK, NEW w \in Workers, NEW p, pc' = [pc EXCEPT ![w] = p]
  PROVE  pc'[w] = p /\ \A v \in Workers : v # w => pc'[v] = pc[v]
  BY DEF TypeOK

LEMMA LockedKept == ASSUME TypeOK, Locked, [Next]_vars PROVE Locked'
  <1>0. /\ "free" \notin Workers /\ Reader \notin Workers /\ Reader # "free"
        /\ LastCell \in Nat /\ LastCell > 2
    BY StatsAssumption, CellsAre DEF Reader
  <1>1. CASE UNCHANGED <<pc, cell, appLock, latencyLock, session, open, read>>
    BY <1>1 DEF Locked, LockedBy, Resetting
  <1>2. ASSUME NEW w \in Workers, ResetCell(w) PROVE Locked'
    <2> DEFINE k == cell[w]
    <2>1. /\ k \in 1..LastCell /\ Resetting(w) /\ ResetStep(w, k)
          /\ k < LastCell => cell' = [cell EXCEPT ![w] = k + 1] /\ pc' = pc
          /\ k = LastCell =>
              /\ cell' = [cell EXCEPT ![w] = 1]
              /\ pc' = [pc EXCEPT ![w] = IF pc[w] = "stopReset" THEN "idle" ELSE "open"]
          /\ UNCHANGED <<appLock, session, open, rec, read, log, report, ghosts>>
      BY <1>2, ResetIs
    <2>2. /\ k = 2 => latencyLock = "free"
          /\ latencyLock' = IF k = 2 THEN w ELSE IF k = LastCell THEN "free" ELSE latencyLock
      BY <2>1 DEF ResetStep
    <2>3. k > 2 => latencyLock = w
      BY <2>1 DEF Locked, LockedBy
    <2>4. k < LastCell \/ k = LastCell
      BY <1>0, <2>1
    <2> HIDE DEF k
    <2>5. LockedBy(w)'
      <3>1. CASE k < LastCell
        <4>1. cell'[w] = k + 1 /\ pc'[w] = pc[w] /\ appLock' = appLock /\ open' = open
          BY <2>1, <3>1 DEF TypeOK
        <4>2. k + 1 > 2 => latencyLock' = w
          BY <1>0, <2>1, <2>2, <2>3, <3>1
        <4> QED
          BY <2>1, <4>1, <4>2 DEF Locked, LockedBy, Resetting
      <3>2. CASE k = LastCell
        <4>1. cell'[w] = 1 /\ pc'[w] = (IF pc[w] = "stopReset" THEN "idle" ELSE "open")
              /\ appLock' = appLock /\ open' = open
          BY <2>1, <3>2 DEF TypeOK
        <4> QED
          BY <2>1, <4>1 DEF Locked, LockedBy, Resetting
      <3> QED
        BY <2>4, <3>1, <3>2
    <2>6. ASSUME NEW v \in Workers, v # w PROVE LockedBy(v)'
      <3>1. cell'[v] = cell[v] /\ pc'[v] = pc[v] /\ appLock' = appLock /\ open' = open
        BY <2>1, <2>4, <2>6 DEF TypeOK
      <3>2. LockedBy(v)
        BY DEF Locked
      <3>3. latencyLock = v => latencyLock' = v
        BY <1>0, <2>2, <2>3, <2>6
      <3> QED
        BY <3>1, <3>2, <3>3 DEF LockedBy, Resetting
    <2>7. latencyLock' = Reader <=> read'.at # 0
      <3>1. read' = read /\ (latencyLock = Reader <=> read.at # 0)
        BY <2>1 DEF Locked
      <3>2. latencyLock' = Reader <=> latencyLock = Reader
        BY <1>0, <2>2, <2>3
      <3> QED
        BY <3>1, <3>2
    <2>8. session' = session /\ open' = open
      BY <2>1
    <2> QED
      BY <2>5, <2>6, <2>7, <2>8 DEF Locked
  <1>3. ASSUME NEW w \in Workers, Start(w) PROVE Locked'
    <2>1. /\ pc' = [pc EXCEPT ![w] = "startReset"] /\ appLock = "free" /\ appLock' = w /\ ~open
          /\ pc[w] = "idle" /\ UNCHANGED <<cell, latencyLock, session, open, read>>
      BY <1>3 DEF Start, StartOrder
    <2>2. pc'[w] = "startReset" /\ \A v \in Workers : v # w => pc'[v] = pc[v]
      BY <2>1, OthersAsBefore
    <2>3. cell[w] = 1
      BY <2>1 DEF Locked, LockedBy, Resetting
    <2>4. LockedBy(w)'
      BY <2>1, <2>2, <2>3 DEF LockedBy, Resetting
    <2>5. ASSUME NEW v \in Workers, v # w PROVE LockedBy(v)'
      BY <1>0, <2>1, <2>2, <2>5 DEF Locked, LockedBy, Resetting
    <2> QED
      BY <2>1, <2>4, <2>5 DEF Locked
  <1>4. ASSUME NEW w \in Workers, DivertStart(w) PROVE Locked'
    <2>1. /\ Proceed(w) /\ pc[w] = "open" /\ open' = TRUE /\ session' = session + 1
          /\ UNCHANGED <<cell, appLock, latencyLock, read>>
      BY <1>4 DEF DivertStart
    <2>2. pc' = [pc EXCEPT ![w] = "files"]
      BY <2>1, ProceedIs
    <2>3. pc'[w] = "files" /\ \A v \in Workers : v # w => pc'[v] = pc[v]
      BY <2>2, OthersAsBefore
    <2>4. LockedBy(w)'
      BY <2>1, <2>3 DEF Locked, LockedBy, Resetting
    <2>5. ASSUME NEW v \in Workers, v # w PROVE LockedBy(v)'
      <3>1. appLock = w /\ LockedBy(v)
        BY <2>1 DEF Locked, LockedBy
      <3> QED
        BY <2>1, <2>3, <2>5, <3>1 DEF LockedBy, Resetting
    <2>6. session' # 0
      BY <2>1 DEF TypeOK
    <2> QED
      BY <2>1, <2>4, <2>5, <2>6 DEF Locked
  <1>5. ASSUME NEW w \in Workers, DivertStartFails(w) PROVE Locked'
    <2>1. /\ pc' = [pc EXCEPT ![w] = "idle"] /\ pc[w] = "open" /\ appLock' = "free"
          /\ UNCHANGED <<cell, latencyLock, session, open, read>>
      BY <1>5 DEF DivertStartFails
    <2>2. pc'[w] = "idle" /\ \A v \in Workers : v # w => pc'[v] = pc[v]
      BY <2>1, OthersAsBefore
    <2>3. LockedBy(w)'
      BY <1>0, <2>1, <2>2 DEF Locked, LockedBy, Resetting
    <2>4. ASSUME NEW v \in Workers, v # w PROVE LockedBy(v)'
      <3>1. appLock = w /\ LockedBy(v)
        BY <2>1 DEF Locked, LockedBy
      <3> QED
        BY <1>0, <2>1, <2>2, <2>4, <3>1 DEF LockedBy, Resetting
    <2> QED
      BY <2>1, <2>3, <2>4 DEF Locked
  <1>6. ASSUME NEW w \in Workers, OpenFiles(w) PROVE Locked'
    <2>1. /\ Proceed(w) /\ pc[w] = "files" /\ appLock' = "free"
          /\ UNCHANGED <<cell, latencyLock, session, open, read>>
      BY <1>6 DEF OpenFiles
    <2>2. pc' = [pc EXCEPT ![w] = "idle"]
      BY <2>1, ProceedIs
    <2>3. pc'[w] = "idle" /\ \A v \in Workers : v # w => pc'[v] = pc[v]
      BY <2>2, OthersAsBefore
    <2>4. LockedBy(w)'
      BY <1>0, <2>1, <2>3 DEF Locked, LockedBy, Resetting
    <2>5. ASSUME NEW v \in Workers, v # w PROVE LockedBy(v)'
      <3>1. appLock = w /\ LockedBy(v)
        BY <2>1 DEF Locked, LockedBy
      <3> QED
        BY <1>0, <2>1, <2>3, <2>5, <3>1 DEF LockedBy, Resetting
    <2> QED
      BY <2>1, <2>4, <2>5 DEF Locked
  <1>7. ASSUME NEW w \in Workers, Stop(w) PROVE Locked'
    <2>1. /\ pc' = [pc EXCEPT ![w] = "stopReset"] /\ pc[w] = "idle" /\ appLock = "free"
          /\ open' = FALSE /\ UNCHANGED <<appLock, cell, latencyLock, session, read>>
      BY <1>7 DEF Stop
    <2>2. pc'[w] = "stopReset" /\ \A v \in Workers : v # w => pc'[v] = pc[v]
      BY <2>1, OthersAsBefore
    <2>3. LockedBy(w)'
      BY <1>0, <2>1, <2>2 DEF Locked, LockedBy, Resetting
    <2>4. ASSUME NEW v \in Workers, v # w PROVE LockedBy(v)'
      <3>1. LockedBy(v)
        BY DEF Locked
      <3>2. appLock # v
        BY <1>0, <2>1
      <3> QED
        BY <2>1, <2>2, <2>4, <3>1, <3>2 DEF LockedBy, Resetting
    <2> QED
      BY <2>1, <2>3, <2>4 DEF Locked
  <1>8. ASSUME NEW l \in {Reader, "free"}, latencyLock' = l, latencyLock \in {Reader, "free"},
               latencyLock' = Reader <=> read'.at # 0,
               UNCHANGED <<pc, cell, appLock, session, open>>
        PROVE  Locked'
    <2>1. ASSUME NEW v \in Workers PROVE LockedBy(v)'
      BY <1>0, <1>8 DEF Locked, LockedBy, Resetting
    <2> QED
      BY <1>8, <2>1 DEF Locked
  <1>9. CASE ReadBegin
    <2>1. /\ latencyLock = "free" /\ latencyLock' = Reader /\ read'.at = 1
          /\ UNCHANGED <<pc, cell, appLock, session, open>>
      BY <1>9 DEF ReadBegin
    <2> QED
      BY <1>8, <2>1
  <1>10. CASE ReadBucket
    <2>1. read.at \in 1..Buckets
      BY <1>10, CellsAre DEF ReadBucket
    <2>2. read'.at = read.at + 1
      BY <1>10 DEF ReadBucket, TypeOK
    <2>3. Buckets \in Nat
      BY CellsAre
    <2>4. read.at # 0 /\ read'.at # 0
      BY <2>1, <2>2, <2>3
    <2>5. latencyLock = Reader /\ latencyLock' = latencyLock
          /\ UNCHANGED <<pc, cell, appLock, session, open>>
      BY <1>10, <2>4 DEF ReadBucket, Locked
    <2> QED
      BY <1>8, <2>4, <2>5
  <1>11. CASE ReadEnd
    <2>1. Len(Bounds) \in Nat
      BY StatsAssumption, LenProperties
    <2>2. read.at # 0
      BY <1>11, <2>1 DEF ReadEnd, Walked
    <2>3. latencyLock = Reader /\ latencyLock' = "free" /\ read'.at = 0
          /\ UNCHANGED <<pc, cell, appLock, session, open>>
      BY <1>11, <2>2 DEF ReadEnd, Locked, NoRead
    <2> QED
      BY <1>0, <1>8, <2>3
  <1>12. ASSUME NEW ms \in Delays, RecordBucket(ms) PROVE Locked'
    BY <1>1, <1>12 DEF RecordBucket
  <1> QED
    BY <1>1, <1>2, <1>3, <1>4, <1>5, <1>6, <1>7, <1>9, <1>10, <1>11, <1>12
    DEF Next, LatencyRecord, Capture, RecordMin, RecordMax, RecordSum, RecordLow, RecordTotal,
        Tick, vars

LEMMA UndisturbedKept ==
  ASSUME TypeOK, GhostsOK, Locked, Undisturbed, [Next]_vars
  PROVE  Undisturbed'
  <1>1. CASE UNCHANGED <<pc, session, open, late>>
    BY <1>1 DEF Undisturbed, Disturbed
  <1>2. ASSUME NEW w \in Workers, NEW p, pc' = [pc EXCEPT ![w] = p], p # "stopReset",
               UNCHANGED <<session, open, late>>
        PROVE  Undisturbed'
    <2>1. pc'[w] = p /\ \A v \in Workers : v # w => pc'[v] = pc[v]
      BY <1>2, OthersAsBefore
    <2> QED
      BY <1>2, <2>1 DEF Undisturbed, Disturbed
  <1>3. ASSUME NEW w \in Workers, ResetCell(w) PROVE Undisturbed'
    <2>1. /\ cell[w] \in 1..LastCell
          /\ cell[w] < LastCell => pc' = pc
          /\ cell[w] = LastCell =>
               pc' = [pc EXCEPT ![w] = IF pc[w] = "stopReset" THEN "idle" ELSE "open"]
          /\ UNCHANGED <<session, open, late>>
      BY <1>3, ResetIs DEF ghosts
    <2>2. cell[w] < LastCell \/ cell[w] = LastCell
      BY <2>1, CellsAre
    <2> DEFINE p == IF pc[w] = "stopReset" THEN "idle" ELSE "open"
    <2>3. p # "stopReset" /\ (cell[w] = LastCell => pc' = [pc EXCEPT ![w] = p])
      BY <2>1
    <2> HIDE DEF p
    <2> QED
      BY <1>1, <1>2, <2>1, <2>2, <2>3
  <1>4. ASSUME NEW w \in Workers, DivertStart(w) PROVE Undisturbed'
    <2> DEFINE S == {v \in Workers : pc[v] = "stopReset"}
    <2>1. /\ Proceed(w) /\ pc[w] = "open" /\ open' = TRUE /\ session' = session + 1
          /\ session < MaxSessions /\ late' = [late EXCEPT ![session + 1] = Cardinality(S)]
      BY <1>4 DEF DivertStart
    <2>2. pc' = [pc EXCEPT ![w] = "files"]
      BY <2>1, ProceedIs
    <2>3. pc'[w] = "files" /\ \A v \in Workers : v # w => pc'[v] = pc[v]
      BY <2>2, OthersAsBefore
    <2>4. IsFiniteSet(S) /\ Cardinality(S) \in Nat /\ (Cardinality(S) = 0 <=> S = {})
      <3>1. S \subseteq Workers /\ IsFiniteSet(Workers)
        BY StatsAssumption
      <3> QED
        BY <3>1, FS_Subset, FS_CardinalityType, FS_EmptySet
    <2>5. session + 1 \in Session /\ session' # 0
      BY <2>1, StatsAssumption DEF Session, TypeOK
    <2> DEFINE c == Cardinality(S)
    <2>6. late' = [late EXCEPT ![session + 1] = c] /\ c \in Nat
      BY <2>1, <2>4
    <2> HIDE DEF c
    <2>7. late'[session'] = c
      BY <2>1, <2>5, <2>6 DEF GhostsOK
    <2>8. ASSUME ~Disturbed' PROVE S = {}
      <3>1. ~(c > 0)
        BY <2>5, <2>7, <2>8 DEF Disturbed
      <3>2. c = 0
        BY <2>6, <3>1
      <3> QED
        BY <2>4, <3>2 DEF c
    <2>9. ASSUME ~Disturbed', NEW v \in Workers PROVE pc'[v] # "stopReset"
      <3>1. v \notin S
        BY <2>8, <2>9
      <3> QED
        BY <2>3, <3>1
    <2> QED
      BY <2>9 DEF Undisturbed
  <1>5. ASSUME NEW w \in Workers, Start(w) PROVE Undisturbed'
    <2>1. pc' = [pc EXCEPT ![w] = "startReset"] /\ UNCHANGED <<session, open, late>>
      BY <1>5 DEF Start, StartOrder, ghosts
    <2> QED
      BY <1>2, <2>1
  <1>6. ASSUME NEW w \in Workers, DivertStartFails(w) PROVE Undisturbed'
    <2>1. pc' = [pc EXCEPT ![w] = "idle"] /\ UNCHANGED <<session, open, late>>
      BY <1>6 DEF DivertStartFails, ghosts
    <2> QED
      BY <1>2, <2>1
  <1>7. ASSUME NEW w \in Workers, OpenFiles(w) PROVE Undisturbed'
    <2>1. Proceed(w) /\ pc[w] = "files" /\ UNCHANGED <<session, open, late>>
      BY <1>7 DEF OpenFiles, ghosts
    <2>2. pc' = [pc EXCEPT ![w] = "idle"]
      BY <2>1, ProceedIs
    <2> QED
      BY <1>2, <2>1, <2>2
  <1>8. ASSUME NEW w \in Workers, Stop(w) PROVE Undisturbed'
    BY <1>8 DEF Stop, Undisturbed
  <1>9. ASSUME NEW ms \in Delays, RecordBucket(ms) PROVE Undisturbed'
    BY <1>1, <1>9 DEF RecordBucket, ghosts
  <1> QED
    BY <1>1, <1>3, <1>4, <1>5, <1>6, <1>7, <1>8, <1>9
    DEF Next, LatencyRecord, Capture, RecordMin, RecordMax, RecordSum, RecordLow, RecordTotal,
        Tick, ReadBegin, ReadBucket, ReadEnd, vars, ghosts

------------------------------------------------------------------------------
(* What a reset has emptied.                                                *)

\* A step of a reset leaves its own cell empty as well, and nothing less empty.
LEMMA ResetClears ==
  ASSUME TypeOK, NEW w \in Workers, NEW k \in 1..LastCell, ResetStep(w, k), NEW j \in Nat, Cleared(j)
  PROVE  Cleared(j)' /\ (j = k => Cleared(k + 1)')
  <1>1. /\ Buckets \in Nat \ {0} /\ Bucket = 1..Buckets
        /\ TotalCell \in Nat /\ TotalCell = Buckets + 3 /\ LastCell = TotalCell + 5
    BY CellsAre
  <1>2. ASSUME NEW b \in Bucket PROVE bucket'[b] = IF k = b + 2 THEN 0 ELSE bucket[b]
    <2>1. bucket' = IF k \in 3..TotalCell-1 THEN [bucket EXCEPT ![k - 2] = 0] ELSE bucket
      BY DEF ResetStep
    <2>2. k \in 3..TotalCell-1 => k - 2 \in Bucket
      BY <1>1
    <2>3. k = b + 2 => k \in 3..TotalCell-1 /\ k - 2 = b
      BY <1>1, <1>2
    <2>4. k - 2 = b => k = b + 2
      BY <1>1, <1>2
    <2> QED
      BY <2>1, <2>2, <2>3, <2>4 DEF TypeOK
  <1>3. ASSUME NEW i \in Nat, Cleared(i) \/ (i = k + 1 /\ Cleared(k)) PROVE Cleared(i)'
    <2>1. i > 1 => captured' = 0
      BY <1>3 DEF Cleared, ResetStep
    <2>2. ASSUME NEW b \in Bucket, i > b + 2 PROVE bucket'[b] = 0
      BY <1>1, <1>2, <1>3, <2>2 DEF Cleared
    <2>3. i > TotalCell => total' = 0
      BY <1>1, <1>3 DEF Cleared, ResetStep
    <2>4. i > TotalCell + 1 => minMs' = 0
      BY <1>1, <1>3 DEF Cleared, ResetStep
    <2>5. i > TotalCell + 2 => maxMs' = 0
      BY <1>1, <1>3 DEF Cleared, ResetStep
    <2>6. i > TotalCell + 3 => sumLow' = 0
      BY <1>1, <1>3 DEF Cleared, ResetStep
    <2>7. i > TotalCell + 4 => sumHigh' = 0
      BY <1>1, <1>3 DEF Cleared, ResetStep
    <2> QED
      BY <2>1, <2>2, <2>3, <2>4, <2>5, <2>6, <2>7 DEF Cleared
  <1>4. k + 1 \in Nat
    BY <1>1
  <1> QED
    BY <1>3, <1>4

\* Before the first cell nothing has been emptied; behind the last one all has.
LEMMA ClearedAtEnds == Cleared(1) /\ (Cleared(LastCell + 1) => Cleared(TotalCell + 6))
  <1>1. LastCell + 1 = TotalCell + 6 /\ TotalCell \in Nat /\ Bucket \subseteq Nat /\ TotalCell > 3
    BY CellsAre
  <1>2. Cleared(1)
    BY <1>1 DEF Cleared
  <1> QED
    BY <1>1, <1>2

LEMMA StaysClearedKept ==
  ASSUME TypeOK, GhostsOK, RecordOK, Locked, Locked', Undisturbed, StaysCleared, [Next]_vars
  PROVE  StaysCleared'
  <1>1. ASSUME open' PROVE StaysCleared'
    BY <1>1 DEF StaysCleared, Locked, LockedBy
  <1>2. CASE UNCHANGED <<pc, cell, captured, histogram, session, open, late>>
    BY <1>2 DEF StaysCleared, Cleared, Disturbed, histogram
  <1>3. ASSUME NEW w \in Workers, ResetCell(w) PROVE StaysCleared'
    <2>0. PICK k \in 1..LastCell : k = cell[w]
      BY DEF TypeOK
    <2>1. /\ Resetting(w) /\ ResetStep(w, k)
          /\ k < LastCell => cell' = [cell EXCEPT ![w] = k + 1] /\ pc' = pc
          /\ k = LastCell =>
              /\ cell' = [cell EXCEPT ![w] = 1]
              /\ pc' = [pc EXCEPT ![w] = IF pc[w] = "stopReset" THEN "idle" ELSE "open"]
          /\ UNCHANGED <<session, open, late>>
      BY <1>3, <2>0, ResetIs DEF ghosts
    <2>2. LastCell \in Nat /\ TotalCell \in Nat /\ (k < LastCell \/ k = LastCell) /\ k \in Nat
      BY CellsAre
    <2>3. Disturbed' = Disturbed /\ open' = open
      BY <2>1 DEF Disturbed
    <2>4. ASSUME NEW j \in Nat, Cleared(j) PROVE Cleared(j)' /\ (j = k => Cleared(k + 1)')
      BY <2>1, <2>4, ResetClears
    <2>5. ASSUME NEW v \in Workers, v # w
          PROVE  /\ pc'[v] = "startReset" => Cleared(cell[v])'
                 /\ pc'[v] = "stopReset" /\ ~open' /\ ~Disturbed' => Cleared(cell[v])'
                 /\ pc'[v] = "open" => Cleared(TotalCell + 6)'
      <3>a. cell \in [Workers -> 1..LastCell] /\ \A n \in 1..LastCell : n \in Nat
        <4>1. cell \in [Workers -> 1..LastCell]
          BY DEF TypeOK
        <4>2. \A n \in 1..LastCell : n \in Nat
          OBVIOUS
        <4> QED
          BY <4>1, <4>2
      <3>b. pc'[v] = pc[v]
        <4> DEFINE p == IF pc[w] = "stopReset" THEN "idle" ELSE "open"
        <4>1. pc' = pc \/ pc' = [pc EXCEPT ![w] = p]
          BY <2>1, <2>2
        <4>2. DOMAIN pc = Workers
          BY DEF TypeOK
        <4> HIDE DEF p
        <4> QED
          BY <2>5, <4>1, <4>2
      <3>c. cell'[v] = cell[v]
        <4>1. cell' = [cell EXCEPT ![w] = k + 1] \/ cell' = [cell EXCEPT ![w] = 1]
          BY <2>1, <2>2
        <4> QED
          BY <2>5, <3>a, <4>1
      <3>1. pc'[v] = pc[v] /\ cell'[v] = cell[v] /\ cell[v] \in Nat
        BY <3>a, <3>b, <3>c
      <3>2. TotalCell + 6 \in Nat
        BY <2>2
      <3>3. PICK j \in Nat : j = cell[v] /\ j = cell'[v]
        BY <3>1
      <3>4. (Cleared(j) => Cleared(j)') /\ (Cleared(TotalCell + 6) => Cleared(TotalCell + 6)')
        BY <2>4, <3>2
      <3>5. Cleared(cell[v]) => Cleared(cell[v])'
        BY <3>3, <3>4 DEF Cleared
      <3>6. /\ pc[v] = "startReset" => Cleared(cell[v])
            /\ pc[v] = "stopReset" /\ ~open /\ ~Disturbed => Cleared(cell[v])
            /\ pc[v] = "open" => Cleared(TotalCell + 6)
        BY DEF StaysCleared
      <3> QED
        BY <2>3, <3>1, <3>4, <3>5, <3>6
    <2>6. /\ pc'[w] = "startReset" => Cleared(cell[w])'
          /\ pc'[w] = "stopReset" /\ ~open' /\ ~Disturbed' => Cleared(cell[w])'
          /\ pc'[w] = "open" => Cleared(TotalCell + 6)'
      <3>1. /\ pc[w] = "startReset" => Cleared(k)
            /\ pc[w] = "stopReset" /\ ~open /\ ~Disturbed => Cleared(k)
        BY <2>0 DEF StaysCleared
      <3>2. Cleared(k) => Cleared(k + 1)'
        BY <2>2, <2>4
      <3>3. CASE k < LastCell
        <4>1. pc'[w] = pc[w] /\ cell'[w] = k + 1
          BY <2>1, <3>3 DEF TypeOK
        <4>2. Cleared(k + 1)' => Cleared(cell[w])'
          BY <4>1 DEF Cleared
        <4> QED
          BY <2>1, <2>3, <3>1, <3>2, <4>1, <4>2 DEF Resetting
      <3>4. CASE k = LastCell
        <4>1. pc'[w] = (IF pc[w] = "stopReset" THEN "idle" ELSE "open")
          BY <2>1, <3>4 DEF TypeOK
        <4>2. LastCell + 1 = TotalCell + 6
          BY CellsAre
        <4>3. pc'[w] = "open" => pc[w] = "startReset"
          BY <2>1, <4>1 DEF Resetting
        <4>4. pc'[w] # "startReset" /\ pc'[w] # "stopReset"
          BY <4>1
        <4> QED
          BY <3>1, <3>2, <3>4, <4>2, <4>3, <4>4
      <3> QED
        BY <2>2, <3>3, <3>4
    <2> QED
      BY <2>5, <2>6 DEF StaysCleared
  <1>4. ASSUME NEW w \in Workers, Start(w) PROVE StaysCleared'
    <2>1. /\ pc' = [pc EXCEPT ![w] = "startReset"] /\ pc[w] = "idle"
          /\ UNCHANGED <<cell, captured, histogram, session, open, late>>
      BY <1>4 DEF Start, StartOrder, ghosts
    <2>2. pc'[w] = "startReset" /\ \A v \in Workers : v # w => pc'[v] = pc[v]
      BY <2>1, OthersAsBefore
    <2>3. cell'[w] = 1
      BY <2>1 DEF Locked, LockedBy, Resetting
    <2>4. Cleared(cell[w])'
      <3>1. 1 \in Nat /\ Cleared(1)
        BY ClearedAtEnds
      <3> QED
        BY <2>1, <2>3, <3>1 DEF Cleared, histogram
    <2>5. ASSUME NEW v \in Workers, v # w
          PROVE  /\ pc'[v] = "startReset" => Cleared(cell[v])'
                 /\ pc'[v] = "stopReset" /\ ~open' /\ ~Disturbed' => Cleared(cell[v])'
                 /\ pc'[v] = "open" => Cleared(TotalCell + 6)'
      BY <2>1, <2>2, <2>5 DEF StaysCleared, Cleared, Disturbed, histogram
    <2> QED
      BY <2>2, <2>4, <2>5 DEF StaysCleared
  <1>5. ASSUME NEW w \in Workers, DivertStartFails(w) PROVE StaysCleared'
    <2>1. /\ pc' = [pc EXCEPT ![w] = "idle"]
          /\ UNCHANGED <<cell, captured, histogram, session, open, late>>
      BY <1>5 DEF DivertStartFails, ghosts
    <2>2. pc'[w] = "idle" /\ \A v \in Workers : v # w => pc'[v] = pc[v]
      BY <2>1, OthersAsBefore
    <2> QED
      BY <2>1, <2>2 DEF StaysCleared, Cleared, Disturbed, histogram
  <1>6. ASSUME NEW w \in Workers, Stop(w) PROVE StaysCleared'
    <2>1. /\ pc' = [pc EXCEPT ![w] = "stopReset"] /\ pc[w] = "idle" /\ open
          /\ UNCHANGED <<cell, captured, histogram, session, late>>
      BY <1>6 DEF Stop, ghosts
    <2>2. pc'[w] = "stopReset" /\ \A v \in Workers : v # w => pc'[v] = pc[v]
      BY <2>1, OthersAsBefore
    <2>3. cell'[w] = 1
      BY <2>1 DEF Locked, LockedBy, Resetting
    <2>4. Cleared(cell[w])'
      <3>1. 1 \in Nat /\ Cleared(1)
        BY ClearedAtEnds
      <3> QED
        BY <2>1, <2>3, <3>1 DEF Cleared, histogram
    <2>5. ASSUME NEW v \in Workers, v # w
          PROVE  /\ pc'[v] = "startReset" => Cleared(cell[v])'
                 /\ pc'[v] = "stopReset" /\ ~open' /\ ~Disturbed' => Cleared(cell[v])'
                 /\ pc'[v] = "open" => Cleared(TotalCell + 6)'
      <3>1. pc'[v] = pc[v] /\ Disturbed' = Disturbed
        BY <2>1, <2>2, <2>5 DEF Disturbed
      <3>2. pc[v] # "startReset" /\ pc[v] # "open"
        BY <2>1 DEF Locked, LockedBy
      <3>3. ~Disturbed => pc[v] # "stopReset"
        BY <2>1 DEF Undisturbed
      <3> QED
        BY <3>1, <3>2, <3>3
    <2> QED
      BY <2>2, <2>4, <2>5 DEF StaysCleared
  <1>7. ASSUME NEW ms \in Delays, RecordBucket(ms) PROVE StaysCleared'
    BY <1>1, <1>7 DEF RecordBucket
  <1>8. CASE Capture
    BY <1>1, <1>8 DEF Capture
  <1>9. CASE RecordMin \/ RecordMax \/ RecordSum \/ RecordLow \/ RecordTotal
    <2>1. rec.at # "none" /\ open' = open
      BY <1>9 DEF RecordMin, RecordMax, RecordSum, RecordLow, RecordTotal
    <2>2. open
      BY <2>1 DEF RecordOK
    <2> QED
      BY <1>1, <2>1, <2>2
  <1>10. ASSUME NEW w \in Workers, DivertStart(w) PROVE StaysCleared'
    BY <1>1, <1>10 DEF DivertStart
  <1>11. ASSUME NEW w \in Workers, OpenFiles(w) PROVE StaysCleared'
    <2>1. open /\ open' = open
      BY <1>11 DEF OpenFiles, Locked, LockedBy
    <2> QED
      BY <1>1, <2>1
  <1> QED
    BY <1>2, <1>3, <1>4, <1>5, <1>6, <1>7, <1>8, <1>9, <1>10, <1>11
    DEF Next, LatencyRecord, Tick, ReadBegin, ReadBucket, ReadEnd, vars, ghosts

------------------------------------------------------------------------------
(* The record under way.                                                    *)

LEMMA RecordKept == ASSUME TypeOK, Locked, RecordOK, [Next]_vars PROVE RecordOK'
  <1>0. Rollover \in Nat \ {0}
    BY StatsAssumption
  <1>1. CASE UNCHANGED <<rec, open, sumLow>>
    BY <1>1 DEF RecordOK
  <1>2. ASSUME NEW ms \in Delays, RecordBucket(ms) PROVE RecordOK'
    <2>1. open /\ open' = open /\ sumLow' = sumLow
          /\ rec' = [rec EXCEPT !.at = "min", !.ms = ms]
      BY <1>2 DEF RecordBucket
    <2>2. rec'.at = "min" /\ rec'.ms = ms /\ rec'.low = rec.low
      BY <2>1 DEF TypeOK
    <2> QED
      BY <2>1, <2>2 DEF RecordOK
  <1>3. CASE RecordMin \/ RecordMax
    <2>2. /\ rec.at # "none" /\ (rec' = [rec EXCEPT !.at = "max"] \/ rec' = [rec EXCEPT !.at = "sum"])
          /\ open' = open /\ sumLow' = sumLow
      BY <1>3 DEF RecordMin, RecordMax
    <2>3. rec \in [at : {"none", "min", "max", "sum", "low", "total"}, ms : Nat, low : Nat]
      BY DEF TypeOK
    <2>1. /\ rec.at # "none" /\ rec'.at # "none" /\ rec'.ms = rec.ms /\ rec'.low = rec.low
          /\ open' = open /\ sumLow' = sumLow
      BY <2>2, <2>3
    <2> QED
      BY <2>1 DEF RecordOK
  <1>4. CASE RecordSum
    <2> DEFINE low == (sumLow + rec.ms) % Rollover
    <2>1. rec.at # "none" /\ open' = open /\ sumLow' = sumLow
          /\ rec' = [rec EXCEPT !.at = "low", !.low = low]
      BY <1>4 DEF RecordSum
    <2>2. low < Rollover
      <3>0. sumLow \in Nat /\ rec.ms \in Nat
        BY DEF TypeOK
      <3>1. sumLow + rec.ms \in Nat
        BY <3>0
      <3> QED
        BY <3>1, RolledOver
    <2> HIDE DEF low
    <2>3. rec'.at = "low" /\ rec'.ms = rec.ms /\ rec'.low = low
      BY <2>1 DEF TypeOK
    <2> QED
      BY <2>1, <2>2, <2>3 DEF RecordOK
  <1>5. CASE RecordLow
    <2>1. /\ rec.at # "none" /\ rec'.at # "none" /\ rec'.ms = rec.ms /\ rec'.low = rec.low
          /\ open' = open /\ sumLow' = rec.low
      BY <1>5 DEF RecordLow, TypeOK
    <2> QED
      BY <2>1 DEF RecordOK
  <1>6. CASE RecordTotal
    <2>1. rec' = NoRecord /\ open' = open /\ sumLow' = sumLow
      BY <1>6 DEF RecordTotal
    <2> QED
      BY <1>0, <2>1 DEF RecordOK, NoRecord
  <1>7. ASSUME NEW w \in Workers, ResetCell(w) PROVE RecordOK'
    <2>1. rec' = rec /\ open' = open /\ (sumLow' = 0 \/ sumLow' = sumLow)
      BY <1>7, ResetIs DEF ResetStep
    <2> QED
      BY <1>0, <2>1 DEF RecordOK
  <1>8. ASSUME NEW w \in Workers, DivertStart(w) PROVE RecordOK'
    <2>1. open' = TRUE /\ rec' = rec /\ sumLow' = sumLow
      BY <1>8 DEF DivertStart, histogram
    <2> QED
      BY <2>1 DEF RecordOK
  <1>9. ASSUME NEW w \in Workers, Stop(w) PROVE RecordOK'
    <2>1. rec.at = "none" /\ rec' = rec /\ sumLow' = sumLow
      BY <1>9 DEF Stop, histogram
    <2> QED
      BY <2>1 DEF RecordOK
  <1> QED
    BY <1>1, <1>2, <1>3, <1>4, <1>5, <1>6, <1>7, <1>8, <1>9
    DEF Next, LatencyRecord, Capture, Start, DivertStartFails, OpenFiles, Tick, ReadBegin,
        ReadBucket, ReadEnd, vars, histogram

------------------------------------------------------------------------------
(* The report and the log.                                                  *)

\* The sessions a packet is counted in, and the one that opens.
LEMMA SessionIs ==
  ASSUME TypeOK, Locked
  PROVE  /\ open => session \in Session
         /\ report.session # 0 => report.session \in Session
         /\ session \in Nat /\ report.session \in Nat
  <1>1. MaxSessions \in Nat
    BY StatsAssumption
  <1> QED
    BY <1>1 DEF TypeOK, Locked, Session

LEMMA ReportKept ==
  ASSUME TypeOK, GhostsOK, Locked, Locked', Undisturbed, StaysCleared, ReportInv, [Next]_vars
  PROVE  ReportInv'
  <1>0. /\ open => session \in Session
        /\ report.session # 0 => report.session \in Session
        /\ session \in Nat /\ report.session \in Nat
    BY SessionIs
  <1>1. CASE UNCHANGED <<pc, session, open, captured, log, report, counted, late>>
    BY <1>1 DEF ReportInv, Disturbed
  <1>2. CASE Capture
    <2>1. /\ open /\ captured' = captured + 1
          /\ counted' = [counted EXCEPT ![session] = counted[session] + 1]
          /\ UNCHANGED <<pc, session, open, log, report, late>>
      BY <1>2 DEF Capture
    <2>2. counted'[session] = counted[session] + 1 /\ counted[session] \in Nat
          /\ \A s \in Session : s # session => counted'[s] = counted[s]
      BY <1>0, <2>1 DEF GhostsOK
    <2>3. Disturbed' = Disturbed /\ captured \in Nat /\ log.prev \in Nat /\ report.sample \in Nat
      BY <2>1 DEF Disturbed, TypeOK
    <2>4. /\ captured' <= counted'[session]
          /\ ~Disturbed => captured' = counted'[session]
      BY <2>1, <2>2, <2>3 DEF ReportInv
    <2>5. report.session # 0 /\ ~report.active => counted'[report.session] = counted[report.session]
      BY <1>0, <2>1, <2>2 DEF ReportInv
    <2>6. report.active /\ ~Disturbed => log.prev <= captured' /\ report.sample <= captured'
      BY <2>1, <2>3 DEF ReportInv
    <2> QED
      BY <2>1, <2>3, <2>4, <2>5, <2>6 DEF ReportInv
  <1>3. ASSUME NEW w \in Workers, ResetCell(w) PROVE ReportInv'
    <2>1. /\ cell[w] \in 1..LastCell /\ Resetting(w) /\ ResetStep(w, cell[w])
          /\ cell[w] < LastCell => pc' = pc
          /\ cell[w] = LastCell =>
              pc' = [pc EXCEPT ![w] = IF pc[w] = "stopReset" THEN "idle" ELSE "open"]
          /\ UNCHANGED <<session, open, log, report, counted, late>>
      BY <1>3, ResetIs DEF ghosts
    <2>2. \A v \in Workers : pc'[v] = "files" <=> pc[v] = "files"
      <3>1. cell[w] < LastCell \/ cell[w] = LastCell
        BY <2>1, CellsAre
      <3> DEFINE p == IF pc[w] = "stopReset" THEN "idle" ELSE "open"
      <3>2. ASSUME pc' = [pc EXCEPT ![w] = p], NEW v \in Workers
            PROVE  pc'[v] = "files" <=> pc[v] = "files"
        BY <2>1, <3>2 DEF TypeOK, Resetting
      <3> QED
        BY <2>1, <3>1, <3>2
    <2>3. Disturbed' = Disturbed
      BY <2>1 DEF Disturbed
    <2>4. captured' = captured \/ captured' = 0
      BY <2>1 DEF ResetStep
    <2>5. open => Disturbed
      BY <2>1 DEF Resetting, Undisturbed, Locked, LockedBy
    <2>6. open => captured' <= counted[session]
      BY <1>0, <2>4 DEF ReportInv, GhostsOK
    <2> QED
      BY <2>1, <2>2, <2>3, <2>5, <2>6 DEF ReportInv
  <1>4. ASSUME NEW w \in Workers, NEW p, p # "files", pc[w] # "files", pc' = [pc EXCEPT ![w] = p],
               UNCHANGED <<session, open, captured, log, report, counted, late>>
        PROVE  ReportInv'
    <2>1. \A v \in Workers : pc'[v] = "files" <=> pc[v] = "files"
      BY <1>4, OthersAsBefore
    <2> QED
      BY <1>4, <2>1 DEF ReportInv, Disturbed
  <1>5. ASSUME NEW w \in Workers, Start(w) PROVE ReportInv'
    <2>1. pc' = [pc EXCEPT ![w] = "startReset"] /\ pc[w] = "idle"
          /\ UNCHANGED <<session, open, captured, log, report, counted, late>>
      BY <1>5 DEF Start, StartOrder, ghosts
    <2> QED
      BY <1>4, <2>1
  <1>6. ASSUME NEW w \in Workers, DivertStartFails(w) PROVE ReportInv'
    <2>1. pc' = [pc EXCEPT ![w] = "idle"] /\ pc[w] = "open"
          /\ UNCHANGED <<session, open, captured, log, report, counted, late>>
      BY <1>6 DEF DivertStartFails, ghosts
    <2> QED
      BY <1>4, <2>1
  <1>7. ASSUME NEW w \in Workers, DivertStart(w) PROVE ReportInv'
    <2> DEFINE c == Cardinality({v \in Workers : pc[v] = "stopReset"})
    <2>1. /\ Proceed(w) /\ pc[w] = "open" /\ open' = TRUE /\ session' = session + 1
          /\ session < MaxSessions /\ late' = [late EXCEPT ![session + 1] = c]
          /\ UNCHANGED <<captured, log, report, counted>>
      BY <1>7 DEF DivertStart
    <2> HIDE DEF c
    <2>2. pc' = [pc EXCEPT ![w] = "files"]
      BY <2>1, ProceedIs
    <2>3. pc'[w] = "files"
      BY <2>2, OthersAsBefore
    <2>4. ~open /\ ~report.active
      BY <2>1 DEF Locked, LockedBy, ReportInv
    <2>5. session + 1 \in Session /\ session + 1 > session
      BY <1>0, <2>1, StatsAssumption DEF Session
    <2>6. counted[session + 1] = 0
      BY <2>5 DEF GhostsOK
    <2>7. captured = 0
      <3>1. Cleared(TotalCell + 6) /\ TotalCell + 6 > 1
        BY <2>1, CellsAre DEF StaysCleared
      <3> QED
        BY <3>1 DEF Cleared
    <2>8. report.session <= session /\ report.session # session + 1 /\ report.session <= session + 1
      BY <1>0 DEF ReportInv
    <2>9. report.session # 0 => late'[report.session] = late[report.session]
      BY <1>0, <2>1, <2>8 DEF GhostsOK
    <2> QED
      BY <2>1, <2>3, <2>4, <2>6, <2>7, <2>8, <2>9 DEF ReportInv
  <1>8. ASSUME NEW w \in Workers, OpenFiles(w) PROVE ReportInv'
    <2>1. /\ Proceed(w) /\ pc[w] = "files" /\ open /\ report' = ReportStarted /\ log' = LogStarted
          /\ UNCHANGED <<session, open, captured, counted, late>>
      BY <1>8 DEF OpenFiles, Locked, LockedBy, ghosts
    <2>2. pc' = [pc EXCEPT ![w] = "idle"]
      BY <2>1, ProceedIs
    <2>3. \A v \in Workers : pc'[v] # "files"
      <3>1. ASSUME NEW v \in Workers, v # w PROVE pc[v] # "files"
        BY <2>1, <3>1 DEF Locked, LockedBy
      <3>2. pc'[w] = "idle" /\ \A v \in Workers : v # w => pc'[v] = pc[v]
        BY <2>2, OthersAsBefore
      <3> QED
        BY <3>1, <3>2
    <2>4. /\ report'.session = session /\ report'.active = TRUE /\ report'.final = 0
          /\ report'.sample = 0 /\ log'.prev = captured
      BY <2>1 DEF ReportStarted, LogStarted
    <2>5. captured \in Nat /\ Disturbed' = Disturbed /\ open' = TRUE
      BY <2>1 DEF TypeOK, Disturbed
    <2>6. /\ captured <= counted[session] /\ (~Disturbed => captured = counted[session])
      BY <2>1 DEF ReportInv
    <2> QED
      BY <1>0, <2>1, <2>3, <2>4, <2>5, <2>6 DEF ReportInv
  <1>9. ASSUME NEW w \in Workers, Stop(w) PROVE ReportInv'
    <2>1. /\ pc' = [pc EXCEPT ![w] = "stopReset"] /\ open /\ open' = FALSE /\ appLock = "free"
          /\ report' = ReportStopped /\ log' = LogStopped
          /\ UNCHANGED <<session, captured, counted, late>>
      BY <1>9 DEF Stop, ghosts
    <2>2. \A v \in Workers : pc[v] # "files"
      <3>1. "free" \notin Workers
        BY StatsAssumption
      <3> QED
        BY <2>1, <3>1 DEF Locked, LockedBy
    <2>3. report.active /\ report.session = session
      BY <2>1, <2>2 DEF ReportInv
    <2>4. report'.active = FALSE /\ report'.final = captured /\ report'.session = session
      BY <2>1, <2>3 DEF ReportStopped, TypeOK
    <2>5. /\ captured <= counted[session] /\ (~Disturbed => captured = counted[session])
      BY <2>1 DEF ReportInv
    <2>6. late[session] = 0 => ~Disturbed
      BY DEF Disturbed
    <2> QED
      BY <1>0, <2>1, <2>4, <2>5, <2>6 DEF ReportInv
  <1>10. CASE Tick
    <2>1. /\ report' = ReportTicked /\ log' = LogTicked
          /\ UNCHANGED <<pc, session, open, captured, counted, late>>
      BY <1>10 DEF Tick, ghosts
    <2>2. /\ report'.session = report.session /\ report'.active = report.active
          /\ report'.final = report.final
          /\ report.active => report'.sample = captured
          /\ log'.prev = log.prev \/ log'.prev = captured
      BY <2>1 DEF ReportTicked, LogTicked, TypeOK
    <2>3. captured \in Nat /\ Disturbed' = Disturbed
      BY <2>1 DEF TypeOK, Disturbed
    <2> QED
      BY <2>1, <2>2, <2>3 DEF ReportInv
  <1>11. ASSUME NEW ms \in Delays, RecordBucket(ms) PROVE ReportInv'
    BY <1>1, <1>11 DEF RecordBucket, ghosts
  <1> QED
    BY <1>1, <1>2, <1>3, <1>5, <1>6, <1>7, <1>8, <1>9, <1>10, <1>11
    DEF Next, LatencyRecord, RecordMin, RecordMax, RecordSum, RecordLow, RecordTotal,
        ReadBegin, ReadBucket, ReadEnd, vars, ghosts

------------------------------------------------------------------------------
(* The histogram.                                                           *)

\* g is f with the i-th of n summands larger by one, and so are its sums from there on.
Bump(f, g, i, n) ==
  g[i] = f[i] + 1 /\ \A j \in 1..n : f[j] \in Nat /\ (j # i => g[j] = f[j])
BumpedSums(f, g, i, n) ==
  \A m \in 0..n : SumTo(g, m) = SumTo(f, m) + (IF i <= m THEN 1 ELSE 0)

LEMMA SumBump ==
  ASSUME NEW n \in Nat, NEW i \in 1..n, NEW f, NEW g, Bump(f, g, i, n)
  PROVE  BumpedSums(f, g, i, n)
  <1>1. g[i] = f[i] + 1 /\ \A j \in 1..n : f[j] \in Nat /\ (j # i => g[j] = f[j])
    BY DEF Bump
  <1>2. ASSUME NEW m \in 0..n PROVE SumTo(f, m) \in Nat
    <2>1. m \in Nat /\ \A j \in 1..m : f[j] \in Nat
      BY <1>1
    <2> QED
      BY <2>1, SumNat
  <1> DEFINE S == {m \in Nat : m <= n => SumTo(g, m) = SumTo(f, m) + (IF i <= m THEN 1 ELSE 0)}
  <1>3. 0 \in S
    <2>1. SumTo(g, 0) = 0 /\ SumTo(f, 0) = 0
      BY SumZero
    <2> QED
      BY <2>1
  <1>4. ASSUME NEW m \in Nat, m \in S PROVE m + 1 \in S
    <2> SUFFICES ASSUME m + 1 <= n
                 PROVE  SumTo(g, m + 1) = SumTo(f, m + 1) + (IF i <= m + 1 THEN 1 ELSE 0)
      OBVIOUS
    <2>1. SumTo(g, m + 1) = SumTo(g, m) + g[m + 1] /\ SumTo(f, m + 1) = SumTo(f, m) + f[m + 1]
      BY SumNext
    <2>2. SumTo(g, m) = SumTo(f, m) + (IF i <= m THEN 1 ELSE 0)
      BY <1>4
    <2>3. SumTo(f, m) \in Nat /\ f[m + 1] \in Nat /\ m + 1 \in 1..n
      BY <1>1, <1>2
    <2>4. g[m + 1] = f[m + 1] + (IF i = m + 1 THEN 1 ELSE 0)
      BY <1>1, <2>3
    <2>5. (IF i <= m + 1 THEN 1 ELSE 0) = (IF i <= m THEN 1 ELSE 0) + (IF i = m + 1 THEN 1 ELSE 0)
      OBVIOUS
    <2> DEFINE x == IF i <= m THEN 1 ELSE 0
               y == IF i = m + 1 THEN 1 ELSE 0
    <2>6. x \in Nat /\ y \in Nat
      OBVIOUS
    <2> HIDE DEF x, y
    <2>7. SumTo(g, m + 1) = SumTo(f, m) + x + (f[m + 1] + y)
      BY <2>1, <2>2, <2>4 DEF x, y
    <2>8. SumTo(f, m + 1) + (x + y) = SumTo(f, m) + x + (f[m + 1] + y)
      BY <2>1, <2>3, <2>6
    <2> QED
      BY <2>5, <2>7, <2>8 DEF x, y
  <1> HIDE DEF S
  <1>5. Nat \subseteq S
    BY <1>3, <1>4, Induction
  <1>6. ASSUME NEW m \in 0..n PROVE SumTo(g, m) = SumTo(f, m) + (IF i <= m THEN 1 ELSE 0)
    <2>1. m \in S /\ m <= n
      BY <1>5
    <2> QED
      BY <2>1 DEF S
  <1> QED
    BY <1>6 DEF BumpedSums

\* One delay more in a session.
LEMMA TotalAppend ==
  ASSUME NEW r \in Seq(Delays), NEW ms \in Delays
  PROVE  /\ Total(r) \in Nat /\ Total(Append(r, ms)) = Total(r) + ms
         /\ Len(Append(r, ms)) = Len(r) + 1 /\ ToSet(Append(r, ms)) = ToSet(r) \cup {ms}
  <1> DEFINE t == Append(r, ms)
             n == Len(r)
  <1>0. Delays \subseteq Nat
    BY StatsAssumption
  <1>1. /\ n \in Nat /\ Len(t) = n + 1 /\ t[n + 1] = ms /\ \A i \in 1..n : t[i] = r[i]
        /\ DOMAIN t = 1..n+1 /\ DOMAIN r = 1..n /\ \A i \in 1..n : r[i] \in Delays
    BY LenProperties, AppendProperties, ElementOfSeq
  <1> HIDE DEF t, n
  <1>2. SumTo(t, n + 1) = SumTo(t, n) + t[n + 1]
    BY <1>1, SumNext
  <1>3. SumTo(t, n) = SumTo(r, n)
    BY <1>1, SumAgree
  <1>4. SumTo(r, n) \in Nat
    <2>1. \A i \in 1..n : r[i] \in Nat
      BY <1>0, <1>1
    <2> QED
      BY <1>1, <2>1, SumNat
  <1>5. ToSet(t) = ToSet(r) \cup {ms}
    <2>1. ToSet(t) = {t[i] : i \in 1..n+1} /\ ToSet(r) = {r[i] : i \in 1..n}
      BY <1>1 DEF ToSet
    <2>2. \A i \in 1..n+1 : i \in 1..n \/ i = n + 1
      BY <1>1
    <2>3. \A i \in 1..n : i \in 1..n+1
      BY <1>1
    <2>4. n + 1 \in 1..n+1
      BY <1>1
    <2> QED
      BY <1>1, <2>1, <2>2, <2>3, <2>4
  <1>6. Total(r) = SumTo(r, n) /\ Total(t) = SumTo(t, n + 1)
    BY <1>1 DEF Total, n
  <1> QED
    BY <1>1, <1>2, <1>3, <1>4, <1>5, <1>6 DEF t, n

\* How often a bucket was met, with one delay more.
LEMMA CountAppend ==
  ASSUME NEW r \in Seq(Delays), NEW ms \in Delays, NEW b
  PROVE  /\ Count(r, b) \in Nat
         /\ Count(Append(r, ms), b) = Count(r, b) + (IF BucketOf(ms) = b THEN 1 ELSE 0)
  <1> DEFINE t == Append(r, ms)
             n == Len(r)
             S == {i \in DOMAIN r : BucketOf(r[i]) = b}
             T == {i \in DOMAIN t : BucketOf(t[i]) = b}
  <1>1. /\ n \in Nat /\ t[n + 1] = ms /\ \A i \in 1..n : t[i] = r[i]
        /\ DOMAIN t = 1..n+1 /\ DOMAIN r = 1..n
    BY LenProperties, AppendProperties
  <1>2. IsFiniteSet(S)
    <2>1. S \subseteq 1..n /\ IsFiniteSet(1..n)
      BY <1>1, FS_Interval
    <2> QED
      BY <2>1, FS_Subset
  <1> HIDE DEF t, n
  <1>3. \A i \in 1..n+1 : i \in 1..n \/ i = n + 1
    BY <1>1
  <1>4. (\A i \in 1..n : i \in 1..n+1) /\ n + 1 \in 1..n+1 /\ n + 1 \notin 1..n
    BY <1>1
  <1>5. T = IF BucketOf(ms) = b THEN S \cup {n + 1} ELSE S
    <2>1. ASSUME NEW i \in 1..n PROVE i \in T <=> i \in S
      BY <1>1, <1>4, <2>1
    <2>2. n + 1 \in T <=> BucketOf(ms) = b
      BY <1>1, <1>4
    <2>3. \A i \in T : i \in 1..n+1
      BY <1>1
    <2>4. \A i \in S : i \in 1..n
      BY <1>1
    <2>5. n + 1 \notin S
      BY <1>4, <2>4
    <2> HIDE DEF S, T
    <2>6. \A i : i \in T <=> i \in S \/ (i = n + 1 /\ BucketOf(ms) = b)
      BY <1>3, <2>1, <2>2, <2>3, <2>4, <2>5, Zenon
    <2> QED
      BY <2>6
  <1>6. n + 1 \notin S
    BY <1>1, <1>4
  <1> HIDE DEF S, T
  <1>7. Cardinality(S) \in Nat /\ Cardinality(S \cup {n + 1}) = Cardinality(S) + 1
    BY <1>2, <1>6, FS_AddElement, FS_CardinalityType
  <1>8. Count(r, b) = Cardinality(S) /\ Count(t, b) = Cardinality(T)
    BY DEF Count, S, T
  <1> QED
    BY <1>5, <1>7, <1>8 DEF t

\* The delays of a session.
LEMMA DelaysOf ==
  ASSUME NEW r \in Seq(Delays)
  PROVE  Len(r) \in Nat /\ ToSet(r) \subseteq Delays /\ (Len(r) = 0 <=> ToSet(r) = {})
  <1>1. Len(r) \in Nat /\ DOMAIN r = 1..Len(r) /\ \A i \in 1..Len(r) : r[i] \in Delays
    BY LenProperties, ElementOfSeq
  <1>2. ToSet(r) = {r[i] : i \in 1..Len(r)}
    BY <1>1 DEF ToSet
  <1>3. Len(r) # 0 => 1 \in 1..Len(r)
    BY <1>1
  <1>4. Len(r) = 0 => 1..Len(r) = {}
    BY <1>1
  <1> QED
    BY <1>1, <1>2, <1>3, <1>4

\* A step of a record leaves the histogram with what it has been told so far.
LEMMA HistogramStep ==
  ASSUME TypeOK, RecordOK, NEW r \in Seq(Delays), Histogram(r)
  PROVE  /\ \A ms \in Delays : RecordBucket(ms) => Histogram(r)'
         /\ RecordMin \/ RecordMax \/ RecordSum \/ RecordLow => Histogram(r)'
         /\ RecordTotal => \A q \in Seq(Delays) : q = Append(r, rec.ms) => Histogram(q)'
  <1>0. /\ Delays \subseteq Nat /\ Rollover \in Nat \ {0} /\ \A ms \in Delays : ms < Rollover
        /\ Len(r) \in Nat /\ ToSet(r) \subseteq Delays /\ (Len(r) = 0 <=> ToSet(r) = {})
    BY StatsAssumption, DelaysOf
  <1> DEFINE R == ToSet(r)
             N == Len(r)
  <1>1. total = N /\ Tallied(r) /\ Summed(r) /\ Smallest(r) /\ Largest(r)
    BY DEF Histogram
  <1>2. ASSUME NEW ms \in Delays, RecordBucket(ms) PROVE Histogram(r)'
    <2>1. /\ rec.at = "none" /\ rec' = [rec EXCEPT !.at = "min", !.ms = ms]
          /\ bucket' = [bucket EXCEPT ![BucketOf(ms)] = bucket[BucketOf(ms)] + 1]
          /\ UNCHANGED <<total, minMs, maxMs, sumLow, sumHigh>>
      BY <1>2 DEF RecordBucket
    <2>2. rec'.at = "min" /\ rec'.ms = ms
      BY <2>1 DEF TypeOK
    <2>3. BucketOf(ms) \in Bucket
      BY <1>0, BucketOfIn
    <2>4. Tallied(r)'
      <3> SUFFICES ASSUME NEW b \in Bucket
                   PROVE  bucket'[b] = Count(r, b) + (IF BucketOf(ms) = b THEN 1 ELSE 0)
        BY <2>2 DEF Tallied
      <3>1. bucket[b] = Count(r, b) + 0 /\ Count(r, b) \in Nat
        BY <1>1, <1>2, <2>1, CountAppend DEF Tallied
      <3> DEFINE c == BucketOf(ms)
      <3>2. c \in Bucket /\ bucket' = [bucket EXCEPT ![c] = bucket[c] + 1]
        BY <2>1, <2>3
      <3> HIDE DEF c
      <3>3. bucket'[b] = IF c = b THEN bucket[b] + 1 ELSE bucket[b]
        BY <3>2 DEF TypeOK
      <3> QED
        BY <3>1, <3>3 DEF c
    <2>5. Summed(r)'
      BY <1>1, <2>1, <2>2 DEF Summed
    <2>6. Smallest(r)' /\ Largest(r)'
      BY <1>1, <2>1, <2>2 DEF Smallest, Largest, IsMin, IsMax
    <2> QED
      BY <1>1, <2>1, <2>4, <2>5, <2>6 DEF Histogram
  <1>3. ASSUME RecordMin PROVE Histogram(r)'
    <2>1. /\ rec.at = "min" /\ rec' = [rec EXCEPT !.at = "max"]
          /\ minMs' = IF total = 0 \/ rec.ms < minMs THEN rec.ms ELSE minMs
          /\ UNCHANGED <<bucket, total, maxMs, sumLow, sumHigh>>
      BY <1>3 DEF RecordMin
    <2>2. rec'.at = "max" /\ rec'.ms = rec.ms /\ rec.ms \in Delays
      BY <2>1 DEF TypeOK, RecordOK
    <2>3. Tallied(r)' /\ Summed(r)'
      BY <1>1, <2>1, <2>2 DEF Tallied, Summed
    <2>4. Smallest(r)'
      <3>1. R # {} => minMs \in R /\ \A y \in R : minMs <= y
        BY <1>1, <2>1 DEF Smallest, IsMin
      <3>2. minMs' \in R \cup {rec.ms} /\ \A y \in R \cup {rec.ms} : minMs' <= y
        <4> HIDE DEF R, N
        <4>1. R \subseteq Nat /\ rec.ms \in Nat /\ (total = 0 <=> R = {})
          BY <1>0, <1>1, <2>2 DEF R, N
        <4> QED
          BY <2>1, <3>1, <4>1
      <3> QED
        BY <2>2, <3>2 DEF Smallest, IsMin
    <2>5. Largest(r)'
      BY <1>1, <2>1, <2>2 DEF Largest, IsMax
    <2> QED
      BY <1>1, <2>1, <2>3, <2>4, <2>5 DEF Histogram
  <1>4. ASSUME RecordMax PROVE Histogram(r)'
    <2>1. /\ rec.at = "max" /\ rec' = [rec EXCEPT !.at = "sum"]
          /\ maxMs' = IF rec.ms > maxMs THEN rec.ms ELSE maxMs
          /\ UNCHANGED <<bucket, total, minMs, sumLow, sumHigh>>
      BY <1>4 DEF RecordMax
    <2>2. rec'.at = "sum" /\ rec'.ms = rec.ms /\ rec.ms \in Delays
      BY <2>1 DEF TypeOK, RecordOK
    <2>3. Tallied(r)' /\ Summed(r)'
      BY <1>1, <2>1, <2>2 DEF Tallied, Summed
    <2>4. Largest(r)'
      <3>1. IF R = {} THEN maxMs = 0 ELSE maxMs \in R /\ \A y \in R : maxMs >= y
        BY <1>1, <2>1 DEF Largest, IsMax
      <3>2. maxMs' \in R \cup {rec.ms} /\ \A y \in R \cup {rec.ms} : maxMs' >= y
        <4> HIDE DEF R, N
        <4>1. R \subseteq Nat /\ rec.ms \in Nat
          BY <1>0, <2>2 DEF R
        <4> QED
          BY <2>1, <3>1, <4>1
      <3> QED
        BY <2>2, <3>2 DEF Largest, IsMax
    <2>5. Smallest(r)'
      BY <1>1, <2>1, <2>2 DEF Smallest, IsMin
    <2> QED
      BY <1>1, <2>1, <2>3, <2>4, <2>5 DEF Histogram
  <1>5. ASSUME RecordSum PROVE Histogram(r)'
    <2> DEFINE sum == sumLow + rec.ms
               low == sum % Rollover
    <2>1. /\ rec.at = "sum" /\ rec' = [rec EXCEPT !.at = "low", !.low = low]
          /\ sumHigh' = IF sum >= Rollover THEN sumHigh + 1 ELSE sumHigh
          /\ UNCHANGED <<bucket, total, minMs, maxMs, sumLow>>
      BY <1>5 DEF RecordSum
    <2>2. rec.ms \in Delays
      BY <2>1 DEF RecordOK
    <2>3. sumLow \in Nat /\ sumLow < Rollover /\ sumHigh \in Nat /\ rec.ms \in Nat /\ rec.ms < Rollover
      BY <1>0, <2>2 DEF TypeOK, RecordOK
    <2>4. sum \in Nat /\ sum < 2 * Rollover
      BY <1>0, <2>3
    <2>5. low = IF sum >= Rollover THEN sum - Rollover ELSE sum
      <3> HIDE DEF sum
      <3>1. sum >= Rollover \/ sum < Rollover
        BY <1>0, <2>4
      <3> QED
        BY <1>0, <2>4, <3>1, RolledOver
    <2>6. Total(r) \in Nat /\ sumHigh * Rollover + sumLow = Total(r)
      <3>1. Total(r) \in Nat
        BY <2>2, TotalAppend
      <3>2. sumHigh * Rollover + sumLow = Total(r) + 0
        BY <1>1, <2>1 DEF Summed
      <3> QED
        BY <3>1, <3>2
    <2>7. sumHigh' * Rollover + low = Total(r) + rec.ms
      <3> DEFINE p == sumHigh * Rollover
      <3>1. p \in Nat /\ (sumHigh + 1) * Rollover = p + Rollover
        BY <1>0, <2>3
      <3>2. p + sumLow = Total(r) /\ sumHigh' * Rollover = IF sum >= Rollover THEN p + Rollover ELSE p
        BY <2>1, <2>6, <3>1
      <3>3. sum = sumLow + rec.ms /\ Rollover \in Nat
        BY <1>0
      <3> DEFINE h == sumHigh' * Rollover
      <3> HIDE DEF p, h, sum, low
      <3>4. h = IF sum >= Rollover THEN p + Rollover ELSE p
        BY <3>2 DEF h
      <3>5. low = IF sum >= Rollover THEN sum - Rollover ELSE sum
        BY <2>5
      <3>6. h + low = p + sum
        BY <2>4, <3>1, <3>3, <3>4, <3>5
      <3>7. p + sum = Total(r) + rec.ms
        BY <2>3, <3>1, <3>2, <3>3
      <3> QED
        BY <3>6, <3>7 DEF h
    <2> HIDE DEF sum, low
    <2>8. rec'.at = "low" /\ rec'.ms = rec.ms /\ rec'.low = low
      BY <2>1 DEF TypeOK
    <2>9. Summed(r)'
      BY <2>7, <2>8 DEF Summed
    <2>10. Tallied(r)' /\ Smallest(r)' /\ Largest(r)'
      BY <1>1, <2>1, <2>8 DEF Tallied, Smallest, Largest, IsMin, IsMax
    <2> QED
      BY <1>1, <2>1, <2>9, <2>10 DEF Histogram
  <1>6. ASSUME RecordLow PROVE Histogram(r)'
    <2>1. /\ rec.at = "low" /\ rec' = [rec EXCEPT !.at = "total"] /\ sumLow' = rec.low
          /\ UNCHANGED <<bucket, total, minMs, maxMs, sumHigh>>
      BY <1>6 DEF RecordLow
    <2>2. rec'.at = "total" /\ rec'.ms = rec.ms
      BY <2>1 DEF TypeOK
    <2>3. Tallied(r)' /\ Summed(r)' /\ Smallest(r)' /\ Largest(r)'
      BY <1>1, <2>1, <2>2 DEF Tallied, Summed, Smallest, Largest, IsMin, IsMax
    <2> QED
      BY <1>1, <2>1, <2>3 DEF Histogram
  <1>7. ASSUME RecordTotal, NEW q \in Seq(Delays), q = Append(r, rec.ms) PROVE Histogram(q)'
    <2>1. /\ rec.at = "total" /\ rec' = NoRecord /\ total' = total + 1
          /\ UNCHANGED <<bucket, minMs, maxMs, sumLow, sumHigh>>
      BY <1>7 DEF RecordTotal
    <2>2. rec'.at = "none" /\ rec.ms \in Delays
      BY <2>1 DEF NoRecord, RecordOK
    <2>3. /\ Total(r) \in Nat /\ Total(q) = Total(r) + rec.ms
          /\ Len(q) = N + 1 /\ ToSet(q) = R \cup {rec.ms}
      BY <1>7, <2>2, TotalAppend
    <2>4. \A b : Count(r, b) \in Nat /\ Count(q, b) = Count(r, b) + (IF BucketOf(rec.ms) = b THEN 1 ELSE 0)
      BY <1>7, <2>2, CountAppend
    <2>5. Tallied(q)'
      <3> SUFFICES ASSUME NEW b \in Bucket PROVE bucket'[b] = Count(q, b) + 0
        BY <2>2 DEF Tallied
      <3>1. bucket'[b] = Count(r, b) + (IF BucketOf(rec.ms) = b THEN 1 ELSE 0)
        BY <1>1, <2>1 DEF Tallied
      <3>2. Count(q, b) \in Nat
        BY <2>4
      <3> QED
        BY <2>4, <3>1, <3>2
    <2>6. Summed(q)'
      <3>1. sumHigh * Rollover + sumLow = Total(r) + rec.ms
        BY <1>1, <2>1 DEF Summed
      <3>2. Total(q) = Total(q) + 0
        <4>1. rec.ms \in Nat
          BY <1>0, <2>2
        <4>2. Total(q) \in Nat
          BY <2>3, <4>1
        <4> QED
          BY <4>2
      <3>3. sumHigh' * Rollover + sumLow' = Total(q) + 0
        BY <2>1, <2>3, <3>1, <3>2
      <3> QED
        BY <2>2, <3>3 DEF Summed
    <2>7. Smallest(q)' /\ Largest(q)'
      <3>1. IsMin(minMs, R \cup {rec.ms}) /\ IsMax(maxMs, R \cup {rec.ms})
        BY <1>1, <2>1 DEF Smallest, Largest
      <3>2. minMs' = minMs /\ maxMs' = maxMs
        BY <2>1
      <3>3. ToSet(q) \cup {} = R \cup {rec.ms}
        BY <2>3
      <3>4. /\ Smallest(q)' <=> IsMin(minMs', ToSet(q) \cup {})
            /\ Largest(q)' <=> IsMax(maxMs', ToSet(q) \cup {})
        BY <2>2 DEF Smallest, Largest, IsMin, IsMax
      <3> QED
        BY <3>1, <3>2, <3>3, <3>4
    <2>8. total' = Len(q)
      BY <1>1, <2>1, <2>3
    <2> QED
      BY <2>5, <2>6, <2>7, <2>8 DEF Histogram
  <1> QED
    BY <1>2, <1>3, <1>4, <1>5, <1>6, <1>7

\* What a step of a record leaves alone.
LEMMA RecordFrame ==
  ASSUME RecordOK, LatencyRecord
  PROVE  /\ open /\ UNCHANGED <<pc, cell, latencyLock, session, open, read, late>>
         /\ RecordTotal \/ recorded' = recorded
  <1>1. ASSUME NEW ms \in Delays, RecordBucket(ms)
        PROVE  /\ open /\ UNCHANGED <<pc, cell, latencyLock, session, open, read, late>>
               /\ recorded' = recorded
    BY <1>1 DEF RecordBucket, ghosts
  <1>2. ASSUME RecordMin \/ RecordMax \/ RecordSum \/ RecordLow
        PROVE  /\ open /\ UNCHANGED <<pc, cell, latencyLock, session, open, read, late>>
               /\ recorded' = recorded
    BY <1>2 DEF RecordMin, RecordMax, RecordSum, RecordLow, ghosts, RecordOK
  <1>3. ASSUME RecordTotal
        PROVE  open /\ UNCHANGED <<pc, cell, latencyLock, session, open, read, late>>
    BY <1>3 DEF RecordTotal, RecordOK
  <1> QED
    BY <1>1, <1>2, <1>3 DEF LatencyRecord

\* The empty histogram is that of a session without delays.
LEMMA HistogramEmpty ==
  ASSUME Cleared(TotalCell + 6), rec.at = "none"
  PROVE  Histogram(<<>>)
  <1>1. TotalCell \in Nat /\ TotalCell = Buckets + 3 /\ Buckets \in Nat /\ Bucket = 1..Buckets
        /\ Rollover \in Nat
    BY CellsAre, StatsAssumption
  <1>2. /\ \A b \in Bucket : bucket[b] = 0
        /\ total = 0 /\ minMs = 0 /\ maxMs = 0 /\ sumLow = 0 /\ sumHigh = 0
    BY <1>1 DEF Cleared
  <1>3. <<>> \in Seq(Delays) /\ Len(<<>>) = 0 /\ DOMAIN <<>> = {}
    OBVIOUS
  <1>4. ToSet(<<>>) = {}
    BY <1>3, DelaysOf
  <1>5. Total(<<>>) = 0
    BY <1>3, SumZero DEF Total
  <1>6. ASSUME NEW b PROVE Count(<<>>, b) = 0
    <2>1. {i \in DOMAIN <<>> : BucketOf(<<>>[i]) = b} = {}
      BY <1>3
    <2> QED
      BY <2>1, FS_EmptySet DEF Count
  <1>7. Tallied(<<>>)
    BY <1>2, <1>6 DEF Tallied
  <1>8. Summed(<<>>)
    <2>1. 0 * Rollover + 0 = 0 + 0
      BY <1>1
    <2> QED
      BY <1>2, <1>5, <2>1 DEF Summed
  <1>9. Smallest(<<>>) /\ Largest(<<>>)
    BY <1>2, <1>4 DEF Smallest, Largest, IsMin, IsMax
  <1> QED
    BY <1>2, <1>3, <1>7, <1>8, <1>9 DEF Histogram

LEMMA HistogramKept ==
  ASSUME TypeOK, GhostsOK, RecordOK, Locked, Undisturbed, StaysCleared, HistogramInv, [Next]_vars
  PROVE  HistogramInv'
  <1>0. open => session \in Session
    BY SessionIs
  <1>1. CASE UNCHANGED <<session, open, late, histogram, rec, recorded>>
    <2>1. UNCHANGED <<session, open, late, bucket, total, minMs, maxMs, sumLow, sumHigh, rec, recorded>>
      BY <1>1 DEF histogram
    <2> QED
      BY <2>1 DEF HistogramInv, Disturbed, Histogram, Tallied, Summed, Smallest, Largest, IsMin, IsMax
  <1>2. CASE LatencyRecord
    <2>0. open /\ UNCHANGED <<session, open, late>> /\ (RecordTotal \/ recorded' = recorded)
      BY <1>2, RecordFrame
    <2>1. CASE Disturbed
      BY <2>0, <2>1 DEF HistogramInv, Disturbed
    <2>2. CASE ~Disturbed
      <3>1. recorded[session] \in Seq(Delays)
        BY <1>0, <2>0 DEF GhostsOK
      <3>2. PICK r \in Seq(Delays) : r = recorded[session]
        BY <3>1
      <3>3. Histogram(r)
        BY <2>0, <2>2, <3>2 DEF HistogramInv
      <3>4. /\ \A ms \in Delays : RecordBucket(ms) => Histogram(r)'
            /\ RecordMin \/ RecordMax \/ RecordSum \/ RecordLow => Histogram(r)'
            /\ RecordTotal => \A q \in Seq(Delays) : q = Append(r, rec.ms) => Histogram(q)'
        BY <3>3, HistogramStep
      <3>5. CASE RecordTotal
        <4>1. rec.ms \in Delays /\ recorded' = [recorded EXCEPT ![session] = Append(r, rec.ms)]
              /\ session' = session
          BY <3>2, <3>5 DEF RecordTotal, RecordOK
        <4>2. Append(r, rec.ms) \in Seq(Delays)
          BY <4>1, AppendProperties
        <4>3. PICK q \in Seq(Delays) : q = Append(r, rec.ms)
          BY <4>2
        <4>4. recorded'[session'] = q
          BY <1>0, <2>0, <4>1, <4>3 DEF GhostsOK
        <4>5. Histogram(q)'
          BY <3>4, <3>5, <4>3
        <4> QED
          BY <4>4, <4>5 DEF HistogramInv, Histogram, Tallied, Summed, Smallest, Largest
      <3>6. CASE ~RecordTotal
        <4>2. recorded'[session'] = r
          BY <2>0, <3>2, <3>6
        <4>3. Histogram(r)'
          BY <1>2, <3>4, <3>6 DEF LatencyRecord
        <4> QED
          BY <4>2, <4>3 DEF HistogramInv, Histogram, Tallied, Summed, Smallest, Largest
      <3> QED
        BY <3>5, <3>6
    <2> QED
      BY <2>1, <2>2
  <1>3. ASSUME NEW w \in Workers, ResetCell(w) PROVE HistogramInv'
    <2>1. Resetting(w) /\ UNCHANGED <<session, open, late>>
      BY <1>3, ResetIs DEF ghosts
    <2>2. open => Disturbed
      BY <2>1 DEF Resetting, Undisturbed, Locked, LockedBy
    <2> QED
      BY <2>1, <2>2 DEF HistogramInv, Disturbed
  <1>4. ASSUME NEW w \in Workers, DivertStart(w) PROVE HistogramInv'
    <2>1. /\ pc[w] = "open" /\ session < MaxSessions /\ session' = session + 1
          /\ UNCHANGED <<histogram, rec, recorded>>
      BY <1>4 DEF DivertStart
    <2>2. session + 1 \in Session /\ session + 1 > session
      BY <2>1, StatsAssumption DEF Session, TypeOK
    <2>3. recorded'[session'] = <<>>
      BY <2>1, <2>2 DEF GhostsOK
    <2>4. rec.at = "none"
      BY <2>1 DEF Locked, LockedBy, RecordOK
    <2>5. Cleared(TotalCell + 6)
      BY <2>1 DEF StaysCleared
    <2>6. Histogram(<<>>)
      BY <2>4, <2>5, HistogramEmpty
    <2>7. UNCHANGED <<bucket, total, minMs, maxMs, sumLow, sumHigh, rec>>
      BY <2>1 DEF histogram
    <2>8. Histogram(<<>>)'
      BY <2>6, <2>7 DEF Histogram, Tallied, Summed, Smallest, Largest, IsMin, IsMax
    <2> QED
      BY <2>3, <2>8 DEF HistogramInv, Histogram, Tallied, Summed, Smallest, Largest
  <1>5. ASSUME NEW w \in Workers, Stop(w) PROVE HistogramInv'
    BY <1>5 DEF Stop, HistogramInv
  <1> QED
    BY <1>1, <1>2, <1>3, <1>4, <1>5
    DEF Next, Capture, Start, DivertStartFails, OpenFiles, Tick, ReadBegin, ReadBucket, ReadEnd,
        vars, ghosts

------------------------------------------------------------------------------
(* The percentiles.                                                         *)

\* What the buckets hold, and what a step of a record adds to it.
LEMMA HeldIs ==
  ASSUME TypeOK
  PROVE  Buckets \in Nat /\ \A m \in 0..Buckets : SumTo(bucket, m) \in Nat
  <1>1. Buckets \in Nat /\ Bucket = 1..Buckets
    BY CellsAre
  <1>2. ASSUME NEW m \in 0..Buckets PROVE SumTo(bucket, m) \in Nat
    <2>1. m \in Nat /\ \A i \in 1..m : bucket[i] \in Nat
      BY <1>1 DEF TypeOK
    <2> QED
      BY <2>1, SumNat
  <1> QED
    BY <1>1, <1>2

LEMMA HeldGrows ==
  ASSUME TypeOK, NEW ms \in Delays, RecordBucket(ms)
  PROVE  \E i \in 1..Buckets : \A m \in 0..Buckets :
           SumTo(bucket', m) = SumTo(bucket, m) + (IF i <= m THEN 1 ELSE 0)
  <1> DEFINE i == BucketOf(ms)
  <1>1. Buckets \in Nat /\ Bucket = 1..Buckets
    BY CellsAre
  <1>2. i \in 1..Buckets
    BY <1>1, StatsAssumption, BucketOfIn
  <1>3. bucket \in [1..Buckets -> Nat] /\ bucket' = [bucket EXCEPT ![i] = bucket[i] + 1]
    BY <1>1 DEF TypeOK, RecordBucket
  <1> DEFINE f == bucket
             g == bucket'
  <1>4. Bump(f, g, i, Buckets)
    BY <1>2, <1>3 DEF Bump
  <1> HIDE DEF i, f, g
  <1>5. BumpedSums(f, g, i, Buckets)
    BY <1>1, <1>2, <1>4, SumBump
  <1>6. \A m \in 0..Buckets : SumTo(g, m) = SumTo(f, m) + (IF i <= m THEN 1 ELSE 0)
    BY <1>5 DEF BumpedSums
  <1> QED
    BY <1>2, <1>6 DEF f, g

LEMMA CoveredKept ==
  ASSUME TypeOK, GhostsOK, RecordOK, Locked, Undisturbed, StaysCleared, HistogramInv, Covered,
         [Next]_vars
  PROVE  Covered'
  <1>0. Buckets \in Nat /\ Held \in Nat /\ Missing \in Nat /\ InHand \in Nat /\ total \in Nat
    <2>1. Buckets \in Nat /\ \A m \in 0..Buckets : SumTo(bucket, m) \in Nat
      BY HeldIs
    <2>2. Held \in Nat
      BY <2>1 DEF Held
    <2>3. Missing \in Nat /\ InHand \in Nat /\ total \in Nat
      BY DEF Missing, InHand, TypeOK
    <2> QED
      BY <2>1, <2>2, <2>3
  <1>1. ASSUME BucketsStand' => BucketsStand,
               UNCHANGED <<bucket, total, minMs, maxMs, rec, session, late>>
        PROVE  Covered'
    BY <1>1 DEF Covered, Held, InHand, Missing, Disturbed
  <1>2. CASE UNCHANGED <<pc, cell, histogram, rec, session, late>>
    BY <1>1, <1>2 DEF BucketsStand, Resetting, histogram
  <1>3. CASE LatencyRecord
    <2>1. /\ open /\ UNCHANGED <<pc, cell, session, late>>
      BY <1>3, RecordFrame
    <2>2. /\ BucketsStand' = BucketsStand /\ Disturbed' = Disturbed /\ Missing' = Missing
          /\ session # 0
      BY <2>1 DEF BucketsStand, Resetting, Disturbed, Missing, Locked
    <2>3. ASSUME NEW ms \in Delays, RecordBucket(ms) PROVE Covered'
      <3>1. PICK i \in 1..Buckets : \A m \in 0..Buckets :
                SumTo(bucket', m) = SumTo(bucket, m) + (IF i <= m THEN 1 ELSE 0)
        BY <2>3, HeldGrows
      <3>2. Buckets \in 0..Buckets /\ i <= Buckets
        BY <1>0
      <3>3. Held' = Held + 1
        BY <3>1, <3>2 DEF Held
      <3>4. InHand = 0 /\ InHand' = 1 /\ UNCHANGED <<total, minMs, maxMs>>
        BY <2>3 DEF RecordBucket, InHand, TypeOK
      <3> QED
        BY <1>0, <2>1, <2>2, <3>3, <3>4 DEF Covered
    <2>4. CASE RecordMin
      <3>1. /\ InHand' = InHand /\ UNCHANGED <<bucket, total, maxMs>>
            /\ minMs' = IF total = 0 \/ rec.ms < minMs THEN rec.ms ELSE minMs
        BY <2>4 DEF RecordMin, InHand, TypeOK
      <3>2. total > 0 /\ minMs <= maxMs => minMs' <= maxMs
        <4>1. total \in Nat /\ minMs \in Nat /\ maxMs \in Nat /\ rec.ms \in Nat
          BY DEF TypeOK
        <4> QED
          BY <3>1, <4>1
      <3> QED
        BY <2>1, <2>2, <3>1, <3>2 DEF Covered, Held
    <2>5. CASE RecordMax
      <3>1. /\ InHand' = InHand /\ UNCHANGED <<bucket, total, minMs>>
            /\ maxMs' = IF rec.ms > maxMs THEN rec.ms ELSE maxMs
        BY <2>5 DEF RecordMax, InHand, TypeOK
      <3>2. minMs <= maxMs => minMs <= maxMs'
        BY <3>1 DEF TypeOK
      <3> QED
        BY <2>1, <2>2, <3>1, <3>2 DEF Covered, Held
    <2>6. CASE RecordSum \/ RecordLow
      <3>1. /\ InHand' = InHand /\ UNCHANGED <<bucket, total, minMs, maxMs>>
        BY <2>6 DEF RecordSum, RecordLow, InHand, TypeOK
      <3> QED
        BY <2>1, <2>2, <3>1 DEF Covered, Held
    <2>7. CASE RecordTotal
      <3>1. /\ rec.at = "total" /\ InHand = 1 /\ InHand' = 0 /\ total' = total + 1
            /\ UNCHANGED <<bucket, minMs, maxMs>>
        BY <2>7 DEF RecordTotal, InHand, NoRecord
      <3>2. ~Disturbed => minMs <= maxMs
        <4> SUFFICES ASSUME ~Disturbed PROVE minMs <= maxMs
          OBVIOUS
        <4>1. Smallest(recorded[session]) /\ Largest(recorded[session])
          BY <2>1 DEF HistogramInv, Histogram
        <4> DEFINE S == ToSet(recorded[session]) \cup {rec.ms}
        <4>2. IsMin(minMs, S) /\ IsMax(maxMs, S)
          BY <3>1, <4>1 DEF Smallest, Largest
        <4>3. rec.ms \in S
          OBVIOUS
        <4> HIDE DEF S
        <4>4. minMs <= rec.ms /\ maxMs >= rec.ms
          BY <4>2, <4>3 DEF IsMin, IsMax
        <4>5. minMs \in Nat /\ maxMs \in Nat /\ rec.ms \in Nat
          BY DEF TypeOK
        <4> QED
          BY <4>4, <4>5
      <3> QED
        BY <1>0, <2>1, <2>2, <3>1, <3>2 DEF Covered, Held
    <2> QED
      BY <1>3, <2>3, <2>4, <2>5, <2>6, <2>7 DEF LatencyRecord
  <1>4. ASSUME NEW w \in Workers, ResetCell(w) PROVE Covered'
    <2> DEFINE k == cell[w]
    <2>1. /\ k \in 1..LastCell /\ Resetting(w) /\ ResetStep(w, k)
          /\ k < LastCell => cell' = [cell EXCEPT ![w] = k + 1] /\ pc' = pc
          /\ k = LastCell =>
              /\ cell' = [cell EXCEPT ![w] = 1]
              /\ pc' = [pc EXCEPT ![w] = IF pc[w] = "stopReset" THEN "idle" ELSE "open"]
          /\ UNCHANGED <<session, open, rec, late>>
      BY <1>4, ResetIs DEF ghosts
    <2>2. /\ LastCell \in Nat /\ TotalCell \in Nat /\ LastCell = TotalCell + 5 /\ TotalCell > 3
          /\ k \in Nat /\ k >= 1 /\ (k < LastCell \/ k = LastCell)
      BY <2>1, CellsAre
    <2>3. Missing' = Missing /\ InHand' = InHand /\ Disturbed' = Disturbed
      BY <2>1 DEF Missing, InHand, Disturbed
    <2>4. open => Disturbed
      BY <2>1 DEF Resetting, Undisturbed, Locked, LockedBy
    <2>5. ~Disturbed => Cleared(cell[w])
      BY <2>1, <2>4 DEF Resetting, StaysCleared
    <2>6. k > 2 => \A v \in Workers : v # w /\ Resetting(v) => ~(cell[v] > 2)
      BY <2>1 DEF Locked, LockedBy
    <2> HIDE DEF k
    <2>7. \A v \in Workers : v # w => cell'[v] = cell[v] /\ (Resetting(v)' <=> Resetting(v))
      BY <2>1, <2>2 DEF TypeOK, Resetting
    <2>8. k < LastCell => cell'[w] = k + 1 /\ Resetting(w)'
      BY <2>1 DEF TypeOK, Resetting
    <2>9. session' # 0 /\ ~Disturbed' /\ total' > 0 => minMs' <= maxMs'
      <3> SUFFICES ASSUME session # 0, ~Disturbed, total' > 0 PROVE minMs' <= maxMs'
        BY <2>1, <2>3
      <3>1. ~(k > TotalCell) /\ k # TotalCell
        <4>1. k > TotalCell => total = 0
          BY <2>5 DEF Cleared, k
        <4>2. total' = IF k = TotalCell THEN 0 ELSE total
          BY <2>1 DEF ResetStep
        <4> QED
          BY <1>0, <4>1, <4>2
      <3>2. UNCHANGED <<total, minMs, maxMs>>
        BY <2>1, <2>2, <3>1 DEF ResetStep
      <3> QED
        BY <3>2 DEF Covered
    <2>10. ASSUME BucketsStand' PROVE total' + InHand' <= Held' + Missing'
      <3>1. ~(k >= 2 /\ k < TotalCell)
        <4>1. k + 1 > 2 /\ k < LastCell /\ Resetting(w)' /\ cell'[w] = k + 1 => k + 1 > TotalCell
          BY <2>10 DEF BucketsStand
        <4> QED
          BY <2>2, <2>8, <4>1
      <3>2. k \notin 3..TotalCell-1 /\ bucket' = bucket /\ Held' = Held
        <4>1. k \notin 3..TotalCell-1
          BY <2>2, <3>1
        <4> QED
          BY <2>1, <4>1 DEF ResetStep, Held
      <3>3. CASE k = TotalCell
        <4>1. total' = 0
          BY <2>1, <3>3 DEF ResetStep
        <4>2. InHand <= Missing
          BY <2>4 DEF InHand, Missing, RecordOK
        <4> QED
          BY <1>0, <2>3, <3>2, <4>1, <4>2
      <3>4. CASE k # TotalCell
        <4>1. total' = total
          BY <2>1, <3>4 DEF ResetStep
        <4>2. BucketsStand
          <5>1. ASSUME NEW v \in Workers, v # w, Resetting(v), cell[v] > 2 PROVE cell[v] > TotalCell
            BY <2>7, <2>10, <5>1 DEF BucketsStand
          <5>2. k > 2 => k > TotalCell
            BY <2>2, <3>1, <3>4
          <5> QED
            BY <5>1, <5>2 DEF BucketsStand, k
        <4> QED
          BY <2>3, <3>2, <4>1, <4>2 DEF Covered
      <3> QED
        BY <3>3, <3>4
    <2> QED
      BY <2>9, <2>10 DEF Covered
  <1>5. ASSUME NEW w \in Workers, NEW p, pc' = [pc EXCEPT ![w] = p], ~Resetting(w) \/ cell[w] = 1,
               UNCHANGED <<cell, histogram, rec, session, late>>
        PROVE  Covered'
    <2>1. UNCHANGED <<bucket, total, minMs, maxMs, rec, session, late>>
      BY <1>5 DEF histogram
    <2>2. ASSUME BucketsStand' PROVE BucketsStand
      <3>1. \A v \in Workers : v # w => pc'[v] = pc[v]
        BY <1>5, OthersAsBefore
      <3>2. ASSUME NEW v \in Workers, v # w, Resetting(v), cell[v] > 2 PROVE cell[v] > TotalCell
        BY <1>5, <2>2, <3>1, <3>2 DEF BucketsStand, Resetting
      <3> QED
        BY <1>5, <3>2 DEF BucketsStand
    <2> QED
      BY <1>1, <2>1, <2>2
  <1>6. ASSUME NEW w \in Workers, Start(w) PROVE Covered'
    <2>1. /\ pc' = [pc EXCEPT ![w] = "startReset"] /\ pc[w] = "idle"
          /\ UNCHANGED <<cell, histogram, rec, session, late>>
      BY <1>6 DEF Start, StartOrder, ghosts
    <2> QED
      BY <1>5, <2>1 DEF Resetting
  <1>7. ASSUME NEW w \in Workers, DivertStartFails(w) PROVE Covered'
    <2>1. /\ pc' = [pc EXCEPT ![w] = "idle"] /\ pc[w] = "open"
          /\ UNCHANGED <<cell, histogram, rec, session, late>>
      BY <1>7 DEF DivertStartFails, ghosts
    <2> QED
      BY <1>5, <2>1 DEF Resetting
  <1>8. ASSUME NEW w \in Workers, OpenFiles(w) PROVE Covered'
    <2>1. /\ Proceed(w) /\ pc[w] = "files" /\ UNCHANGED <<cell, histogram, rec, session, late>>
      BY <1>8 DEF OpenFiles, ghosts
    <2>2. pc' = [pc EXCEPT ![w] = "idle"]
      BY <2>1, ProceedIs
    <2> QED
      BY <1>5, <2>1, <2>2 DEF Resetting
  <1>9. ASSUME NEW w \in Workers, Stop(w) PROVE Covered'
    <2>1. /\ pc' = [pc EXCEPT ![w] = "stopReset"] /\ pc[w] = "idle"
          /\ UNCHANGED <<cell, histogram, rec, session, late>>
      BY <1>9 DEF Stop, ghosts
    <2> QED
      BY <1>5, <2>1 DEF Resetting
  <1>10. ASSUME NEW w \in Workers, DivertStart(w) PROVE Covered'
    <2>1. pc[w] = "open" /\ UNCHANGED <<histogram, rec>>
      BY <1>10 DEF DivertStart
    <2>2. UNCHANGED <<bucket, total, rec>>
      BY <2>1 DEF histogram
    <2>3. total = 0
      <3>1. Cleared(TotalCell + 6) /\ TotalCell + 6 > TotalCell
        BY <2>1, CellsAre DEF StaysCleared
      <3> QED
        BY <3>1 DEF Cleared
    <2>4. InHand' = 0
      BY <2>1 DEF Locked, LockedBy, RecordOK, InHand
    <2>5. Held' \in Nat /\ Missing' \in Nat
      BY <1>0, <2>2 DEF Held, Missing
    <2>6. total' + InHand' <= Held' + Missing'
      <3>1. total' + InHand' = 0
        BY <2>2, <2>3, <2>4
      <3>2. PICK h \in Nat, m \in Nat : h = Held' /\ m = Missing'
        BY <2>5
      <3>3. 0 <= h + m
        OBVIOUS
      <3> QED
        BY <3>1, <3>2, <3>3, Zenon
    <2> QED
      BY <2>2, <2>3, <2>6 DEF Covered
  <1> QED
    BY <1>2, <1>3, <1>4, <1>6, <1>7, <1>8, <1>9, <1>10
    DEF Next, Capture, Tick, ReadBegin, ReadBucket, ReadEnd, vars, ghosts

LEMMA ReadingKept ==
  ASSUME TypeOK, RecordOK, Locked, StaysCleared, Covered, Reading, [Next]_vars
  PROVE  Reading'
  <1>a. Buckets \in Nat /\ Bucket = 1..Buckets /\ \A m \in 0..Buckets : SumTo(bucket, m) \in Nat
    BY HeldIs, CellsAre
  <1>b. /\ Held \in Nat /\ Missing \in Nat /\ InHand \in Nat
    BY <1>a DEF Held, Missing, InHand
  <1>c. read.n \in Nat /\ read.found \in Nat /\ total \in Nat
    BY DEF TypeOK
  <1>d. read.at # 0 => read.at - 1 \in 0..Buckets
    <2>1. Len(Bounds) \in Nat
      BY StatsAssumption, LenProperties
    <2>2. read.at \in 0..Len(Bounds)+2
      BY DEF TypeOK
    <2> QED
      BY <2>1, <2>2 DEF Buckets
  <1> DEFINE Others == \A w \in Workers : pc[w] # "open" /\ (Resetting(w) => cell[w] <= 2)
  <1>1. ASSUME Others => Others', UNCHANGED <<bucket, session, late, read>>
        PROVE  Reading'
    BY <1>1 DEF Reading, Held, Missing, Disturbed
  <1>2. CASE UNCHANGED <<pc, cell, bucket, session, late, read>>
    BY <1>1, <1>2 DEF Resetting
  <1>3. CASE LatencyRecord
    <2>1. UNCHANGED <<pc, cell, session, late, read>>
      BY <1>3, RecordFrame
    <2>2. CASE UNCHANGED bucket
      BY <1>2, <2>1, <2>2
    <2>3. ASSUME NEW ms \in Delays, RecordBucket(ms) PROVE Reading'
      <3> SUFFICES ASSUME read.at # 0 PROVE Reading'
        BY <2>1 DEF Reading
      <3>1. PICK i \in 1..Buckets : \A m \in 0..Buckets :
                SumTo(bucket', m) = SumTo(bucket, m) + (IF i <= m THEN 1 ELSE 0)
        BY <2>3, HeldGrows
      <3>2. Buckets \in 0..Buckets /\ i <= Buckets
        BY <1>a
      <3>3. read.at - 1 \in 0..Buckets
        BY <1>d
      <3>4. Held' = Held + 1 /\ Missing' = Missing /\ Disturbed' = Disturbed
        BY <2>1, <3>1, <3>2 DEF Held, Missing, Disturbed
      <3> DEFINE s == SumTo(bucket, read.at - 1)
                 t == SumTo(bucket', read.at - 1)
      <3>5. s \in Nat /\ (t = s \/ t = s + 1)
        BY <1>a, <3>1, <3>3
      <3>6. read.n + s <= read.found + Held + Missing
        BY DEF Reading
      <3> HIDE DEF s, t
      <3>7. read.n + t <= read.found + (Held + 1) + Missing
        BY <1>b, <1>c, <3>5, <3>6
      <3>8. read'.n + SumTo(bucket', read'.at - 1) <= read'.found + Held' + Missing'
        BY <2>1, <3>4, <3>7 DEF t
      <3> QED
        BY <2>1, <3>4, <3>8 DEF Reading, Resetting
    <2> QED
      BY <1>3, <2>2, <2>3 DEF LatencyRecord, RecordMin, RecordMax, RecordSum, RecordLow, RecordTotal
  <1>4. ASSUME NEW w \in Workers, ResetCell(w) PROVE Reading'
    <2>1. /\ cell[w] \in 1..LastCell /\ Resetting(w) /\ ResetStep(w, cell[w])
          /\ cell[w] < LastCell => cell' = [cell EXCEPT ![w] = cell[w] + 1] /\ pc' = pc
          /\ UNCHANGED <<session, open, read, late>>
      BY <1>4, ResetIs DEF ghosts
    <2> SUFFICES ASSUME read.at # 0 PROVE Reading'
      BY <2>1 DEF Reading
    <2>2. latencyLock # "free"
      BY DEF Locked, Reader
    <2>3. cell[w] <= 2 /\ cell[w] # 2
      BY <2>1, <2>2 DEF Reading, ResetStep
    <2>4. cell[w] = 1
      <3>1. LastCell \in Nat
        BY CellsAre
      <3> QED
        BY <2>1, <2>3, <3>1
    <2>5. 1 < LastCell /\ 1 \notin 3..TotalCell-1
      BY CellsAre
    <2>6. cell' = [cell EXCEPT ![w] = 2] /\ pc' = pc
      BY <2>1, <2>4, <2>5
    <2>7. bucket' = bucket
      BY <2>1, <2>4, <2>5 DEF ResetStep
    <2>8. Others => Others'
      BY <2>6 DEF TypeOK, Resetting
    <2> QED
      BY <1>1, <2>1, <2>7, <2>8
  <1>5. ASSUME NEW w \in Workers, NEW p, pc' = [pc EXCEPT ![w] = p], p # "open",
               ~Resetting(w), UNCHANGED <<cell, bucket, session, late, read>>
        PROVE  Reading'
    <2>1. pc'[w] = p /\ \A v \in Workers : v # w => pc'[v] = pc[v]
      BY <1>5, OthersAsBefore
    <2>2. cell[w] = 1
      BY <1>5 DEF Locked, LockedBy
    <2>3. ASSUME Others, NEW v \in Workers
          PROVE  pc'[v] # "open" /\ (Resetting(v)' => cell'[v] <= 2)
      BY <1>5, <2>1, <2>2, <2>3 DEF Resetting
    <2> QED
      BY <1>1, <1>5, <2>3
  <1>6. ASSUME NEW w \in Workers, Start(w) PROVE Reading'
    <2>1. /\ pc' = [pc EXCEPT ![w] = "startReset"] /\ pc[w] = "idle"
          /\ UNCHANGED <<cell, bucket, session, late, read>>
      BY <1>6 DEF Start, StartOrder, ghosts, histogram
    <2> QED
      BY <1>5, <2>1 DEF Resetting
  <1>7. ASSUME NEW w \in Workers, DivertStartFails(w) PROVE Reading'
    <2>1. /\ pc' = [pc EXCEPT ![w] = "idle"] /\ pc[w] = "open"
          /\ UNCHANGED <<cell, bucket, session, late, read>>
      BY <1>7 DEF DivertStartFails, ghosts, histogram
    <2> QED
      BY <1>5, <2>1 DEF Resetting
  <1>8. ASSUME NEW w \in Workers, OpenFiles(w) PROVE Reading'
    <2>1. /\ Proceed(w) /\ pc[w] = "files" /\ UNCHANGED <<cell, bucket, session, late, read>>
      BY <1>8 DEF OpenFiles, ghosts, histogram
    <2>2. pc' = [pc EXCEPT ![w] = "idle"]
      BY <2>1, ProceedIs
    <2> QED
      BY <1>5, <2>1, <2>2 DEF Resetting
  <1>9. ASSUME NEW w \in Workers, Stop(w) PROVE Reading'
    <2>1. /\ pc' = [pc EXCEPT ![w] = "stopReset"] /\ pc[w] = "idle"
          /\ UNCHANGED <<cell, bucket, session, late, read>>
      BY <1>9 DEF Stop, ghosts, histogram
    <2> QED
      BY <1>5, <2>1 DEF Resetting
  <1>10. ASSUME NEW w \in Workers, DivertStart(w) PROVE Reading'
    <2>1. pc[w] = "open" /\ read' = read
      BY <1>10 DEF DivertStart
    <2> QED
      BY <2>1 DEF Reading
  <1>11. CASE ReadBegin
    <2>1. /\ latencyLock = "free" /\ total > 0
          /\ read' = [at |-> 1, n |-> total, lowest |-> minMs, highest |-> maxMs, found |-> 0]
          /\ UNCHANGED <<pc, cell, bucket, session, late>>
      BY <1>11 DEF ReadBegin, ghosts, histogram
    <2>2. "free" \notin Workers
      BY StatsAssumption
    <2>3. \A w \in Workers : Resetting(w) => ~(cell[w] > 2)
      BY <2>1, <2>2 DEF Locked, LockedBy
    <2>4. ASSUME NEW w \in Workers PROVE pc[w] # "open" /\ (Resetting(w) => cell[w] <= 2)
      <3>1. pc[w] = "open" => total = 0
        <4>1. TotalCell \in Nat /\ TotalCell + 6 > TotalCell
          BY CellsAre
        <4> QED
          BY <4>1 DEF StaysCleared, Cleared
      <3>2. cell[w] \in Nat
        <4>1. cell[w] \in 1..LastCell
          BY DEF TypeOK
        <4>2. LastCell \in Nat
          BY CellsAre
        <4> QED
          BY <4>1, <4>2
      <3> QED
        BY <2>1, <2>3, <3>1, <3>2
    <2>5. BucketsStand
      BY <2>3 DEF BucketsStand
    <2>6. total + InHand <= Held + Missing
      BY <2>5 DEF Covered
    <2>7. read'.at = 1 /\ read'.n = total /\ read'.found = 0 /\ read'.lowest = minMs
          /\ read'.highest = maxMs
      BY <2>1
    <2>8. Held' = Held /\ Missing' = Missing /\ Disturbed' = Disturbed
      BY <2>1 DEF Held, Missing, Disturbed
    <2>9. SumTo(bucket', read'.at - 1) = 0
      <3>1. read'.at - 1 = 0
        BY <2>7
      <3> QED
        BY <3>1, SumZero
    <2>10. total + 0 <= 0 + Held + Missing
      BY <1>b, <1>c, <2>6
    <2>11. read'.n + SumTo(bucket', read'.at - 1) <= read'.found + Held' + Missing'
      BY <2>7, <2>8, <2>9, <2>10
    <2>12. session # 0 /\ ~Disturbed => minMs <= maxMs
      BY <2>1 DEF Covered
    <2> QED
      BY <2>1, <2>4, <2>7, <2>8, <2>11, <2>12 DEF Reading, Resetting
  <1>12. CASE ReadBucket
    <2>1. /\ read.at \in 1..Buckets
          /\ read' = [read EXCEPT !.at = read.at + 1, !.found = read.found + bucket[read.at]]
          /\ UNCHANGED <<pc, cell, bucket, session, late>>
      BY <1>a, <1>12 DEF ReadBucket, ghosts, histogram
    <2> DEFINE i == read.at - 1
               c == bucket[read.at]
    <2>2. /\ read'.at = read.at + 1 /\ read'.found = read.found + c /\ read'.n = read.n
          /\ read'.lowest = read.lowest /\ read'.highest = read.highest
      BY <2>1 DEF TypeOK
    <2>3. i \in Nat /\ i + 1 = read.at /\ read'.at - 1 = i + 1 /\ i \in 0..Buckets
      <3>1. read.at \in 1..Buckets
        BY <2>1
      <3>2. read'.at = read.at + 1
        BY <2>2
      <3>3. Buckets \in Nat
        BY <1>a
      <3> DEFINE at == read.at
                 next == read'.at
      <3>4. at \in 1..Buckets /\ next = at + 1
        BY <3>1, <3>2
      <3>5. i = at - 1
        OBVIOUS
      <3> HIDE DEF at, next, i
      <3>6. i \in Nat /\ i + 1 = at /\ next - 1 = i + 1 /\ i \in 0..Buckets
        BY <3>3, <3>4, <3>5
      <3> QED
        BY <3>6 DEF at, next
    <2>4. SumTo(bucket, i + 1) = SumTo(bucket, i) + bucket[i + 1]
      BY <2>3, SumNext
    <2>5. c \in Nat
      BY <1>a, <2>1 DEF TypeOK
    <2>6. read.at # 0
      BY <1>a, <2>1
    <2>7. read.n + SumTo(bucket, i) <= read.found + Held + Missing
      BY <2>6 DEF Reading
    <2>8. SumTo(bucket, i) \in Nat
      BY <1>a, <2>3
    <2> DEFINE s == SumTo(bucket, i)
    <2>9. s \in Nat /\ SumTo(bucket', read'.at - 1) = s + c
      BY <2>1, <2>3, <2>4, <2>8
    <2>10. read.n + s <= read.found + Held + Missing
      BY <2>7
    <2> HIDE DEF s, c, i
    <2>11. read.n + (s + c) <= (read.found + c) + Held + Missing
      BY <1>b, <1>c, <2>5, <2>9, <2>10
    <2>12. Held' = Held /\ Missing' = Missing /\ Disturbed' = Disturbed
      BY <2>1 DEF Held, Missing, Disturbed
    <2>13. read'.n + SumTo(bucket', read'.at - 1) <= read'.found + Held' + Missing'
      BY <2>2, <2>9, <2>11, <2>12
    <2> QED
      BY <2>1, <2>2, <2>6, <2>12, <2>13 DEF Reading, Resetting
  <1>13. CASE ReadEnd
    BY <1>13 DEF ReadEnd, NoRead, Reading
  <1> QED
    BY <1>2, <1>3, <1>4, <1>6, <1>7, <1>8, <1>9, <1>10, <1>11, <1>12, <1>13
    DEF Next, Capture, Tick, vars, ghosts, histogram

------------------------------------------------------------------------------
(* The theorems.                                                            *)

LEMMA StatsInit == Init => IInv
  <1> SUFFICES ASSUME Init PROVE IInv
    OBVIOUS
  <1>1. /\ Len(Bounds) \in Nat /\ Buckets \in Nat /\ Bucket = 1..Buckets /\ LastCell \in Nat
        /\ 1 \in 1..LastCell /\ TotalCell \in Nat
        /\ Rollover \in Nat \ {0} /\ MaxSessions \in Nat /\ Reader # "free"
        /\ "free" \notin Workers /\ Reader \notin Workers
    BY StatsAssumption, CellsAre, LenProperties DEF Reader
  <1>2. /\ read.at = 0 /\ rec.at = "none" /\ read = NoRead /\ rec = NoRecord
        /\ report.session = 0 /\ report.active = FALSE /\ session = 0 /\ open = FALSE
    BY DEF Init, NoRead, NoRecord
  <1>3. TypeOK
    <2>1. rec \in [at : {"none", "min", "max", "sum", "low", "total"}, ms : Nat, low : Nat]
      BY <1>2 DEF NoRecord
    <2>2. read \in [at : 0..Len(Bounds) + 2, n : Nat, lowest : Nat, highest : Nat, found : Nat]
      BY <1>1, <1>2 DEF NoRead
    <2>3. /\ pc \in [Workers -> {"idle", "startReset", "open", "files", "stopReset"}]
          /\ cell \in [Workers -> 1..LastCell] /\ bucket \in [Bucket -> Nat]
      BY <1>1 DEF Init
    <2>4. /\ log \in [open : BOOLEAN, prev : Nat]
          /\ report \in [session : 0..MaxSessions, active : BOOLEAN, final : Nat, sample : Nat]
      BY <1>1 DEF Init
    <2> QED
      BY <1>1, <2>1, <2>2, <2>3, <2>4 DEF Init, TypeOK
  <1>4. GhostsOK
    <2>1. <<>> \in Seq(Delays)
      OBVIOUS
    <2> QED
      BY <2>1 DEF Init, GhostsOK
  <1>5. Locked
    BY <1>1, <1>2 DEF Init, Locked, LockedBy, Resetting
  <1>6. Undisturbed /\ HistogramInv
    BY <1>2 DEF Undisturbed, HistogramInv
  <1>7. StaysCleared
    BY DEF Init, StaysCleared
  <1>8. RecordOK
    BY <1>1 DEF Init, RecordOK, NoRecord
  <1>9. ReportInv
    BY <1>2 DEF ReportInv
  <1>10. Covered
    <2>1. Held \in Nat
      BY <1>3, HeldIs DEF Held
    <2>2. total = 0 /\ InHand = 0 /\ Missing = 0
      BY <1>2 DEF Init, InHand, Missing, Disturbed
    <2> QED
      BY <1>2, <2>1, <2>2 DEF Covered
  <1>11. Reading
    BY <1>2 DEF Reading
  <1> QED
    BY <1>3, <1>4, <1>5, <1>6, <1>7, <1>8, <1>9, <1>10, <1>11 DEF IInv

\* The inductive invariant: resets hold their locks, what they emptied stays empty
\* until the session they belong to opens, and no reset is under way in a session
\* that opened without one to come.
THEOREM StatsInvariant == Spec => []IInv
  <1>1. Init => IInv
    BY StatsInit
  <1>2. IInv /\ [Next]_vars => IInv'
    <2> SUFFICES ASSUME IInv, [Next]_vars PROVE IInv'
      OBVIOUS
    <2>1. /\ TypeOK /\ GhostsOK /\ Locked /\ Undisturbed /\ StaysCleared /\ RecordOK
          /\ ReportInv /\ HistogramInv /\ Covered /\ Reading
      BY DEF IInv
    <2>2. TypeOK' /\ GhostsOK'
      BY <2>1, TypeKept, GhostsKept
    <2>3. Locked' /\ Undisturbed'
      BY <2>1, LockedKept, UndisturbedKept
    <2>4. StaysCleared' /\ RecordOK'
      BY <2>1, <2>3, StaysClearedKept, RecordKept
    <2>5. ReportInv' /\ HistogramInv'
      BY <2>1, <2>3, ReportKept, HistogramKept
    <2>6. Covered' /\ Reading'
      BY <2>1, CoveredKept, ReadingKept
    <2> QED
      BY <2>2, <2>3, <2>4, <2>5, <2>6 DEF IInv
  <1> QED
    BY <1>1, <1>2, PTL DEF Spec

\* The least and the largest element are those that Min and Max choose.
LEMMA MinMaxAre ==
  ASSUME NEW S, S \subseteq Nat, S # {}, NEW x, NEW y, IsMin(x, S), IsMax(y, S)
  PROVE  x = Min(S) /\ y = Max(S)
  <1>1. x \in S /\ \A z \in S : x <= z
    BY DEF IsMin
  <1>2. y \in S /\ \A z \in S : y >= z
    BY DEF IsMax
  <1>3. Min(S) \in S /\ \A z \in S : Min(S) <= z
    BY <1>1 DEF Min
  <1>4. Max(S) \in S /\ \A z \in S : Max(S) >= z
    BY <1>2 DEF Max
  <1>5. x <= Min(S) /\ Min(S) <= x /\ x \in Nat /\ Min(S) \in Nat
    BY <1>1, <1>3
  <1>6. y <= Max(S) /\ Max(S) <= y /\ y \in Nat /\ Max(S) \in Nat
    BY <1>2, <1>4
  <1> QED
    BY <1>5, <1>6

\* The report shows the packets of the session it names, and between two records a
\* session's histogram holds exactly what the session recorded, for any number of
\* workers, sessions, packets, delays and buckets.
THEOREM StatsConsistent == Spec => []Consistent
  <1>1. IInv => Consistent
    <2> SUFFICES ASSUME IInv PROVE Consistent
      OBVIOUS
    <2>1. TypeOK /\ GhostsOK /\ Locked /\ ReportInv /\ HistogramInv
      BY DEF IInv
    <2>2. /\ open => session \in Session
          /\ session \in Nat /\ report.session \in Nat
          /\ report.session # 0 => report.session \in Session
      BY <2>1, SessionIs
    <2>3. ReportTrue
      <3> SUFFICES ASSUME report.session # 0
                   PROVE  /\ Shown <= counted[report.session]
                          /\ late[report.session] = 0 =>
                               /\ Shown = counted[report.session]
                               /\ report.active => log.prev <= captured /\ report.sample <= captured
        BY DEF ReportTrue
      <3>1. CASE report.active
        <4>1. open /\ report.session = session /\ Shown = captured
          BY <2>1, <3>1 DEF ReportInv, Shown
        <4>2. late[session] = 0 => ~Disturbed
          BY DEF Disturbed
        <4> QED
          BY <2>1, <3>1, <4>1, <4>2 DEF ReportInv
      <3>2. CASE ~report.active
        BY <2>1, <3>2 DEF ReportInv, Shown
      <3> QED
        BY <3>1, <3>2
    <2>4. HistogramTrue
      <3> DEFINE r == recorded[session]
      <3> SUFFICES ASSUME open, rec.at = "none", late[session] = 0
                   PROVE  /\ total = Len(r)
                          /\ \A b \in Bucket :
                               bucket[b] = Cardinality({i \in DOMAIN r : BucketOf(r[i]) = b})
                          /\ sumHigh * Rollover + sumLow = Total(r)
                          /\ total > 0 => minMs = Min(ToSet(r)) /\ maxMs = Max(ToSet(r))
        BY DEF HistogramTrue
      <3>1. r \in Seq(Delays)
        BY <2>1, <2>2 DEF GhostsOK
      <3>2. Histogram(r)
        <4>1. ~Disturbed
          BY DEF Disturbed
        <4> QED
          BY <2>1, <4>1 DEF HistogramInv
      <3> HIDE DEF r
      <3>3. total = Len(r)
        BY <3>2 DEF Histogram
      <3>4. ASSUME NEW b \in Bucket
            PROVE  bucket[b] = Cardinality({i \in DOMAIN r : BucketOf(r[i]) = b})
        <4>1. bucket[b] = Count(r, b) + 0
          BY <3>2 DEF Histogram, Tallied
        <4>2. Count(r, b) \in Nat
          <5>1. IsFiniteSet({i \in DOMAIN r : BucketOf(r[i]) = b})
            <6>1. DOMAIN r = 1..Len(r) /\ Len(r) \in Nat
              BY <3>1, LenProperties
            <6>2. IsFiniteSet(1..Len(r))
              BY <6>1, FS_Interval
            <6>3. {i \in DOMAIN r : BucketOf(r[i]) = b} \subseteq 1..Len(r)
              BY <6>1
            <6> QED
              BY <6>2, <6>3, FS_Subset
          <5> QED
            BY <5>1, FS_CardinalityType DEF Count
        <4>3. bucket[b] = Count(r, b)
          BY <4>1, <4>2
        <4> QED
          BY <4>3 DEF Count
      <3>5. sumHigh * Rollover + sumLow = Total(r)
        <4>1. sumHigh * Rollover + sumLow = Total(r) + 0
          BY <3>2 DEF Histogram, Summed
        <4>2. Total(r) \in Nat
          <5>1. /\ Len(r) \in Nat /\ \A i \in 1..Len(r) : r[i] \in Nat
            BY <3>1, StatsAssumption, LenProperties, ElementOfSeq
          <5> QED
            BY <5>1, SumNat DEF Total
        <4> QED
          BY <4>1, <4>2
      <3>6. ASSUME total > 0 PROVE minMs = Min(ToSet(r)) /\ maxMs = Max(ToSet(r))
        <4>1. ToSet(r) \subseteq Nat /\ ToSet(r) # {}
          <5>1. Len(r) \in Nat /\ ToSet(r) \subseteq Delays /\ (Len(r) = 0 <=> ToSet(r) = {})
            BY <3>1, DelaysOf
          <5>2. Delays \subseteq Nat
            BY StatsAssumption
          <5>3. Len(r) # 0
            BY <3>3, <3>6
          <5> QED
            BY <5>1, <5>2, <5>3
        <4> DEFINE S == ToSet(r) \cup {}
        <4>2. IsMin(minMs, S) /\ IsMax(maxMs, S)
          BY <3>2 DEF Histogram, Smallest, Largest
        <4>3. S = ToSet(r)
          OBVIOUS
        <4> HIDE DEF S
        <4> QED
          BY <4>1, <4>2, <4>3, MinMaxAre
      <3> QED
        BY <3>3, <3>4, <3>5, <3>6
    <2> QED
      BY <2>1, <2>3, <2>4 DEF Consistent
  <1> QED
    BY <1>1, StatsInvariant, PTL

\* A percentile is looked for among no fewer delays than it was computed from, but
\* for the one that late resets can take, and between bounds that are in order.
THEOREM PercentilesFindTheirRank == Spec => []RankIsFound
  <1>1. IInv => RankIsFound
    <2> SUFFICES ASSUME IInv, Walked
                 PROVE  /\ read.n <= read.found
                                       + (IF session # 0 /\ late[session] > 0 THEN 1 ELSE 0)
                        /\ session # 0 /\ late[session] = 0 => read.lowest <= read.highest
      BY DEF RankIsFound
    <2>1. TypeOK /\ Reading
      BY DEF IInv
    <2>2. Buckets \in Nat /\ Held \in Nat
      BY <2>1, HeldIs DEF Held
    <2>3. read.at = Buckets + 1
      <3>1. Len(Bounds) \in Nat
        BY StatsAssumption, LenProperties
      <3> QED
        BY <3>1 DEF Walked, Buckets
    <2>4. read.at # 0 /\ read.at - 1 = Buckets
      BY <2>2, <2>3
    <2>5. read.n + Held <= read.found + Held + Missing
      BY <2>1, <2>4 DEF Reading, Held
    <2>6. read.n \in Nat /\ read.found \in Nat /\ Missing \in Nat
      BY <2>1 DEF TypeOK, Missing
    <2>7. read.n <= read.found + Missing
      BY <2>2, <2>5, <2>6
    <2>8. late[session] = 0 => ~Disturbed
      BY DEF Disturbed
    <2> QED
      BY <2>1, <2>4, <2>7, <2>8 DEF Reading, Missing, Disturbed
  <1> QED
    BY <1>1, StatsInvariant, PTL
==============================================================================
