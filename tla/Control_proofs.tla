---------------------------- MODULE Control_proofs ----------------------------
(***************************************************************************)
(* Proofs about what steers the engine.  Scenario: for all documents,      *)
(* sizes of the table and clocks, whatever calls and ticks overlap and     *)
(* whenever the clock wraps.  Profiles: for all names and what they *)
(* are cut to, all modules and sizes of the array and of a profile, with   *)
(* failures and kills wherever they may come.  App: for any number of      *)
(* connection threads and requests, whether or not the waits of the clean- *)
(* up run out.  Servers: for any cap as well: every step of Servers is a   *)
(* step of App, so what is proved of App holds there, and the counter of   *)
(* connections counts them.                                                *)
(***************************************************************************)
EXTENDS Servers, Scenario, Profiles, Series_proofs, FiniteSetTheorems

------------------------------------------------------------------------------
(* Scenario: the inductive invariant.                                       *)

\* What parseObject() makes of the objects of a document that are of use.
Usables == {o \in Objects : Usable(o)}

Step ==
  [trigger : {"time", "condition"}, at : Int, when : {"none", "captured_count", "elapsed_sec"},
   value : Int, repeat : Int, times : Int, key : Keys \cup {BlankStep.key},
   set : Values \cup {Unset}, fireCount : Nat, nextFireMs : 0..Wrap-1, done : BOOLEAN]

\* The types of the state, and how far the cursors of a call and a tick go.
ScenarioTypes ==
  /\ steps \in [Index -> Step] /\ nSteps \in 0..MaxSteps
  /\ active \in BOOLEAN /\ startMs \in 0..Wrap-1
  /\ settings \in [Keys -> Values \cup {Unset}]
  /\ capturesNow \in BOOLEAN /\ captured \in 0..MaxCaptured
  /\ call \in [pc : {"idle", "parse", "clear"}, i : Nat, rest : Seq(Objects), appLock : BOOLEAN]
  /\ tick \in [pc : {"idle", "loop"}, i : 0..MaxSteps+1, now : 0..Wrap-1,
               elapsed : 0..Wrap-1, remaining : 0..MaxSteps]
  /\ tick.pc = "loop" => tick.i >= 1 /\ tick.remaining < tick.i
  /\ call.pc = "clear" => call.i \in Loaded
  /\ time \in 0..MaxTime /\ ticked \in BOOLEAN /\ started \in {-1} \cup 0..time
  /\ document \in Seq(Objects) /\ firedAt \in [Index -> {-1} \cup 0..time]

\* How often a step may be fired, if that is limited.
Limited(s) == s.repeat <= 0 \/ s.times > 0
Limit(s) == IF s.repeat > 0 THEN s.times ELSE 1

\* A step that is not spent has a fire left, and one that is, or is to be fired
\* again, was fired.
StepSound(s) ==
  /\ Limited(s) => s.fireCount <= Limit(s) /\ (~s.done => s.fireCount < Limit(s))
  /\ s.done \/ s.nextFireMs # 0 => s.fireCount > 0
StepsSound == \A i \in Index : StepSound(steps[i])

\* While a document is read, the steps are those of its beginning, in its order.
ReadSoFar(n) ==
  LET read == Only(SubSeq(document, 1, n), Usables)
  IN /\ call.rest = SubSeq(document, n + 1, Len(document))
     /\ nSteps = Len(read)
     /\ \A i \in Loaded : Plan(steps[i]) = StepOf(read[i])

\* Afterwards they are those of the whole: which object of use the p-th is of.
KeyOf(o) == SortKey(StepOf(o))
Before(seq, i, j) ==
  KeyOf(seq[i]) < KeyOf(seq[j]) \/ (KeyOf(seq[i]) = KeyOf(seq[j]) /\ i < j)

Arrangement(origin) ==
  /\ nSteps = IF Len(UsableObjects) < MaxSteps THEN Len(UsableObjects) ELSE MaxSteps
  /\ \A i \in Loaded : \E p \in Loaded : origin[p] = i
  /\ \A p \in Loaded : Plan(steps[p]) = StepOf(UsableObjects[origin[p]])
  /\ \A p, q \in Loaded : p < q => Before(UsableObjects, origin[p], origin[q])

LoadInv ==
  /\ call.pc = "parse" => \E n \in 0..Len(document) : ReadSoFar(n)
  /\ call.pc # "parse" => \E origin \in [Loaded -> Loaded] : Arrangement(origin)

\* Calls and ticks keep apart; a start clears the steps in the unit of time it came in.
Apart ==
  /\ tick.pc = "loop" => /\ call.pc = "idle" /\ (active \/ started = -1)
                         /\ tick.now = Clock /\ tick.elapsed = Since(Clock, startMs) /\ tick.i <= nSteps + 1
  /\ call.pc = "clear" => active /\ started = time /\ \A i \in 1..call.i-1 : steps[i].fireCount = 0
  /\ call.pc = "parse" => started = -1 /\ \A i \in Loaded : steps[i].fireCount = 0

Timed(i) == steps[i].trigger = "time"
Fired(i) == steps[i].fireCount > 0
Elapsed == tick.elapsed \div Second

\* Timed steps are fired from the front on, also in the middle of a tick, ...
FrontFirst ==
  call.pc # "clear" =>
    \A i, j \in Loaded : i < j /\ Timed(i) /\ Timed(j) /\ Fired(j) => Fired(i)
\* ... which leaves behind none whose second has come, and no other count than
\* zero if all are spent.
Passed ==
  tick.pc = "loop" =>
    \A i \in 1..tick.i-1 : /\ Timed(i) /\ steps[i].at <= Elapsed => Fired(i)
                           /\ tick.remaining = 0 => steps[i].done

\* Of the steps for one parameter the last that was fired has set it.
Plain == \A i \in Loaded : Timed(i) /\ steps[i].repeat <= 0
LastSet ==
  call.pc # "clear" /\ Plain =>
    \A m \in Loaded :
      /\ Fired(m)
      /\ \A j \in Loaded : j > m /\ steps[j].key = steps[m].key => ~Fired(j)
      => settings[steps[m].key] = steps[m].set

\* A started play that is over has spent all steps.
Completed ==
  call.pc = "idle" /\ started # -1 /\ ~active => \A i \in Loaded : steps[i].done

PlayInv == Apart /\ FrontFirst /\ Passed /\ LastSet /\ Completed

\* What the time of the last start and fire are to the clock's readings.
StartShown == started # -1 => startMs = (Boot + started) % Wrap
NoneEarly ==
  started # -1 /\ call.pc # "clear" =>
    \A i \in Loaded : Timed(i) /\ Fired(i) => time - started >= steps[i].at * Second
NextShown ==
  \A i \in Loaded :
    Fired(i) /\ ~steps[i].done /\ firedAt[i] # -1 =>
      steps[i].nextFireMs = (((Boot + firedAt[i]) % Wrap) + steps[i].repeat * Second) % Wrap

Timing == StartShown /\ NoneEarly /\ NextShown /\ FiredWhenDue

ScenarioInv == ScenarioTypes /\ StepsSound /\ LoadInv /\ (~overlapped => PlayInv /\ Timing)

------------------------------------------------------------------------------
(* The sort.                                                                *)

\* The sorted beginnings of s as far as n.
IsRunningSort(g, s, n) ==
  g = [i \in 0..n |-> IF i = 0 THEN <<>> ELSE Insert(g[i - 1], s[i])]

\* There is such a function.
LEMMA RunningSortExists ==
  ASSUME NEW s, NEW n \in Nat
  PROVE  \E g : IsRunningSort(g, s, n)
  <1> DEFINE S == {m \in Nat : \E g : IsRunningSort(g, s, m)}
  <1>1. 0 \in S
    <2> DEFINE g == [i \in 0..0 |-> <<>>]
    <2>1. IsRunningSort(g, s, 0)
      BY DEF IsRunningSort
    <2> QED
      BY <2>1
  <1>2. ASSUME NEW m \in Nat, m \in S PROVE m + 1 \in S
    <2>1. PICK g : IsRunningSort(g, s, m)
      BY <1>2
    <2> DEFINE last == Insert(g[m], s[m + 1])
               h == [i \in 0..m+1 |-> IF i = m + 1 THEN last ELSE g[i]]
    <2>2. ASSUME NEW i \in 0..m+1
          PROVE  h[i] = IF i = 0 THEN <<>> ELSE Insert(h[i - 1], s[i])
      <3>1. CASE i = 0
        <4>1. h[0] = g[0]
          BY <3>1
        <4> HIDE DEF h
        <4> QED
          BY <2>1, <3>1, <4>1 DEF IsRunningSort
      <3>2. CASE i \in 1..m
        <4>1. h[i] = g[i] /\ h[i - 1] = g[i - 1]
          BY <3>2
        <4>2. i \in 0..m /\ i # 0
          BY <3>2
        <4> HIDE DEF h
        <4> QED
          BY <2>1, <4>1, <4>2 DEF IsRunningSort
      <3>3. CASE i = m + 1
        <4>1. h[i] = last /\ h[i - 1] = g[m] /\ i # 0
          BY <3>3
        <4> HIDE DEF h
        <4> QED
          BY <3>3, <4>1
      <3> QED
        BY <3>1, <3>2, <3>3
    <2>3. h = [i \in 0..m+1 |-> h[i]]
      OBVIOUS
    <2> HIDE DEF h
    <2>4. IsRunningSort(h, s, m + 1)
      BY <2>2, <2>3 DEF IsRunningSort
    <2> QED
      BY <2>4
  <1> HIDE DEF S
  <1>3. Nat \subseteq S
    BY <1>1, <1>2, Induction
  <1> QED
    BY <1>3 DEF S

\* And only one.
LEMMA RunningSortsAgree ==
  ASSUME NEW n \in Nat, NEW m \in Nat, n <= m, NEW s,
         NEW g, IsRunningSort(g, s, n), NEW h, IsRunningSort(h, s, m)
  PROVE  \A i \in 0..n : g[i] = h[i]
  <1> DEFINE S == {i \in Nat : i <= n => g[i] = h[i]}
  <1>0. /\ \A i \in 0..n : g[i] = IF i = 0 THEN <<>> ELSE Insert(g[i - 1], s[i])
        /\ \A i \in 0..m : h[i] = IF i = 0 THEN <<>> ELSE Insert(h[i - 1], s[i])
    BY DEF IsRunningSort
  <1>1. 0 \in S
    BY <1>0
  <1>2. ASSUME NEW i \in Nat, i \in S PROVE i + 1 \in S
    <2>1. CASE i + 1 <= n
      <3>1. i + 1 \in 0..n /\ i + 1 \in 0..m /\ i + 1 # 0 /\ (i + 1) - 1 = i
        BY <2>1
      <3>2. g[i + 1] = Insert(g[i], s[i + 1]) /\ h[i + 1] = Insert(h[i], s[i + 1])
        BY <1>0, <3>1
      <3>3. g[i] = h[i]
        BY <1>2, <2>1, <3>1
      <3> QED
        BY <3>2, <3>3
    <2> QED
      BY <2>1
  <1> HIDE DEF S
  <1>3. Nat \subseteq S
    BY <1>1, <1>2, Induction
  <1> QED
    BY <1>3 DEF S

\* Sorted is the last of them.
LEMMA SortedIs ==
  ASSUME NEW s, NEW n \in Nat
  PROVE  \E g : IsRunningSort(g, s, n) /\ Sorted(s, n) = g[n]
  <1> DEFINE c == CHOOSE g : g = [i \in 0..n |-> IF i = 0 THEN <<>> ELSE Insert(g[i - 1], s[i])]
  <1>1. IsRunningSort(c, s, n)
    <2>1. PICK g : IsRunningSort(g, s, n)
      BY RunningSortExists, Zenon
    <2> QED
      BY <2>1, Zenon DEF IsRunningSort
  <1>2. Sorted(s, n) = c[n]
    BY DEF Sorted
  <1> QED
    BY <1>1, <1>2

\* Nothing sorted is nothing, and one step more is put in.
LEMMA SortedSteps ==
  ASSUME NEW s, NEW n \in Nat
  PROVE  Sorted(s, 0) = <<>> /\ Sorted(s, n + 1) = Insert(Sorted(s, n), s[n + 1])
  <1>0. n + 1 \in Nat /\ n <= n + 1 /\ n \in 0..n
    OBVIOUS
  <1>1. PICK g : IsRunningSort(g, s, n) /\ Sorted(s, n) = g[n]
    BY SortedIs
  <1>2. PICK h : IsRunningSort(h, s, n + 1) /\ Sorted(s, n + 1) = h[n + 1]
    BY <1>0, SortedIs
  <1>3. PICK f : IsRunningSort(f, s, 0) /\ Sorted(s, 0) = f[0]
    BY SortedIs
  <1>4. \A i \in 0..n : g[i] = h[i]
    BY <1>0, <1>1, <1>2, RunningSortsAgree
  <1>5. n + 1 \in 0..n+1 /\ n + 1 # 0 /\ (n + 1) - 1 = n
    OBVIOUS
  <1>6. h[n + 1] = Insert(h[n], s[n + 1])
    BY <1>2, <1>5 DEF IsRunningSort
  <1>7. f[0] = <<>>
    BY <1>3 DEF IsRunningSort
  <1> QED
    BY <1>0, <1>1, <1>2, <1>3, <1>4, <1>6, <1>7

\* The order of the steps of s: by their seconds and, within one, as in s.
Precedes(s, i, j) == SortKey(s[i]) < SortKey(s[j]) \/ (SortKey(s[i]) = SortKey(s[j]) /\ i < j)

\* o brings the first n steps of s into that order.
Orders(o, s, n) ==
  /\ o \in [1..n -> 1..n]
  /\ \A i \in 1..n : \E p \in 1..n : o[p] = i
  /\ \A p, q \in 1..n : p < q => Precedes(s, o[p], o[q])

\* What the steps' fields hold.
LEMMA StepFields ==
  ASSUME NEW s \in Step
  PROVE  /\ s.fireCount \in Nat /\ s.nextFireMs \in 0..Wrap-1 /\ s.done \in BOOLEAN
         /\ s.at \in Int /\ s.repeat \in Int /\ s.times \in Int /\ s.value \in Int
         /\ s.set \in Values \cup {Unset} /\ SortKey(s) \in Int
  BY DEF Step, SortKey, Never

\* What the insertion sort makes of steps: the same ones in their order.
THEOREM SortOrders ==
  ASSUME NEW s, NEW n \in Nat, \A i \in 1..n : s[i] \in Step
  PROVE  \E o : Orders(o, s, n) /\ Sorted(s, n) = [p \in 1..n |-> s[o[p]]]
  <1> DEFINE K(i) == SortKey(s[i])
             Is(o, m) == Orders(o, s, m) /\ Sorted(s, m) = [p \in 1..m |-> s[o[p]]]
             P == {m \in Nat : m <= n => \E o : Is(o, m)}
             S == Step
  <1>0. (\A e \in S : SortKey(e) \in Int) /\ \A i \in 1..n : s[i] \in S
    BY StepFields
  <1> HIDE DEF S
  <1>1. 0 \in P
    <2>1. Orders(<<>>, s, 0)
      BY DEF Orders
    <2>2. Sorted(s, 0) = <<>>
      BY SortedSteps
    <2>3. [p \in 1..0 |-> s[<<>>[p]]] = <<>>
      OBVIOUS
    <2> QED
      BY <2>1, <2>2, <2>3
  <1>2. ASSUME NEW m \in Nat, m \in P PROVE m + 1 \in P
    <2> HIDE DEF Is
    <2> SUFFICES ASSUME m + 1 <= n PROVE \E o : Is(o, m + 1)
      OBVIOUS
    <2>1. PICK o : Is(o, m)
      BY <1>2
    <2> USE DEF Is
    <2> DEFINE t == Sorted(s, m)
               e == s[m + 1]
               D == {i \in DOMAIN t : SortKey(t[i]) <= SortKey(e)}
               c == Cardinality(D)
    <2>2. /\ o \in [1..m -> 1..m] /\ \A i \in 1..m : \E p \in 1..m : o[p] = i
          /\ \A p, q \in 1..m : p < q => Precedes(s, o[p], o[q])
          /\ t = [p \in 1..m |-> s[o[p]]]
      BY <2>1 DEF Orders
    <2>3. m + 1 \in 1..n /\ \A i \in 1..m : i \in 1..n /\ o[i] \in 1..n
      BY <2>2
    <2>4. e \in S /\ SortKey(e) \in Int /\ SortKey(e) = K(m + 1)
      BY <1>0, <2>3
    <2>5. \A p \in 1..m : t[p] = s[o[p]] /\ t[p] \in S /\ SortKey(t[p]) \in Int
      BY <1>0, <2>2, <2>3
    <2>6. D \subseteq 1..m /\ \A i \in D, j \in 1..m : j <= i => j \in D
      <3>1. DOMAIN t = 1..m
        BY <2>2
      <3>2. ASSUME NEW i \in D, NEW j \in 1..m, j <= i PROVE SortKey(t[j]) <= SortKey(e)
        <4>1. i \in 1..m /\ SortKey(t[i]) <= SortKey(e)
          BY <3>1
        <4>2. SortKey(t[j]) <= SortKey(t[i])
          <5>1. SortKey(t[j]) \in Int /\ SortKey(t[i]) \in Int /\ t[i] = s[o[i]] /\ t[j] = s[o[j]]
            BY <4>1, <2>5
          <5>2. CASE j = i
            BY <5>1, <5>2
          <5>3. CASE j < i
            <6>1. Precedes(s, o[j], o[i])
              BY <4>1, <5>3, <2>2
            <6> HIDE DEF t
            <6> QED
              BY <5>1, <6>1 DEF Precedes
          <5> QED
            BY <3>2, <4>1, <5>2, <5>3
        <4> QED
          BY <4>1, <4>2, <2>4, <2>5
      <3> QED
        BY <3>1, <3>2
    <2>7. c \in 0..m /\ D = 1..c
      <3> HIDE DEF D
      <3> QED
        BY <2>6, Prefix
    <2>8. Sorted(s, m + 1) = InsertAt(t, c + 1, e)
      BY SortedSteps DEF Insert
    <2>9. \A p \in 1..m : SortKey(t[p]) <= SortKey(e) <=> p <= c
      <3>1. DOMAIN t = 1..m
        BY <2>2
      <3>2. \A p \in 1..m : SortKey(t[p]) <= SortKey(e) <=> p \in D
        BY <3>1
      <3> HIDE DEF D, c, t, e
      <3> QED
        BY <3>2, <2>7
    <2> HIDE DEF t, e, D, c
    <2> DEFINE w == [p \in 1..m+1 |-> IF p <= c THEN o[p] ELSE IF p = c + 1 THEN m + 1 ELSE o[p - 1]]
    <2>10. InsertAt(t, c + 1, e) = [p \in 1..m+1 |-> IF p <= c THEN t[p] ELSE IF p = c + 1 THEN e ELSE t[p - 1]]
      <3> DEFINE a == SubSeq(t, 1, c)
                 b == SubSeq(t, c + 1, m)
                 x == <<e>>
                 f == [p \in 1..m+1 |-> IF p <= c THEN t[p] ELSE IF p = c + 1 THEN e ELSE t[p - 1]]
      <3>1. t \in Seq(S) /\ Len(t) = m
        BY <2>2, <2>5
      <3>2. a \in Seq(S) /\ Len(a) = c /\ \A i \in 1..c : a[i] = t[i]
        <4>1. c \in Int /\ 1 \in Int /\ \A i \in 1..c : t[i] \in S
          BY <2>5, <2>7
        <4> QED
          BY <4>1, <2>7, SubSeqProperties
      <3>3. b \in Seq(S) /\ Len(b) = m - c /\ \A i \in 1..m-c : b[i] = t[c + i]
        <4>1. c + 1 \in Int /\ m \in Int /\ \A i \in c+1..m : t[i] \in S
          BY <2>5, <2>7
        <4>2. /\ b \in Seq(S) /\ Len(b) = IF c + 1 <= m THEN m - (c + 1) + 1 ELSE 0
              /\ \A i \in 1..m-(c+1)+1 : b[i] = t[c + 1 + i - 1]
          BY <4>1, SubSeqProperties
        <4> HIDE DEF b
        <4> QED
          BY <4>2, <2>7
      <3>4. x \in Seq(S) /\ Len(x) = 1 /\ x[1] = e
        BY <2>4
      <3>5. f \in Seq(S) /\ Len(f) = m + 1
        BY <2>4, <2>5, <2>7
      <3>6. InsertAt(t, c + 1, e) = a \o x \o b
        <4>1. (c + 1) - 1 = c
          BY <2>7
        <4> QED
          BY <3>1, <4>1 DEF InsertAt
      <3> HIDE DEF a, b, x
      <3> DEFINE y == a \o x
                 z == y \o b
      <3>7. /\ y \in Seq(S) /\ Len(y) = c + 1
            /\ \A i \in 1..c : y[i] = t[i]
            /\ y[c + 1] = e
        <4>1. /\ y \in Seq(S) /\ Len(y) = c + 1
              /\ \A i \in 1..c+1 : y[i] = IF i <= c THEN a[i] ELSE x[i - c]
          <5>1. /\ y \in Seq(S) /\ Len(y) = Len(a) + Len(x)
                /\ \A i \in 1..Len(a)+Len(x) : y[i] = IF i <= Len(a) THEN a[i] ELSE x[i - Len(a)]
            BY <3>2, <3>4, ConcatProperties
          <5>2. Len(a) = c /\ Len(x) = 1
            BY <3>2, <3>4
          <5> HIDE DEF y
          <5> QED
            BY ONLY <5>1, <5>2
        <4>2. c + 1 \in 1..c+1 /\ ~(c + 1 <= c) /\ (c + 1) - c = 1 /\ \A i \in 1..c : i \in 1..c+1 /\ i <= c
          BY <2>7
        <4> HIDE DEF y
        <4> QED
          BY <3>2, <3>4, <4>1, <4>2
      <3> HIDE DEF y
      <3>8. /\ z \in Seq(S) /\ Len(z) = m + 1
            /\ \A i \in 1..m+1 : z[i] = IF i <= c + 1 THEN y[i] ELSE b[i - (c + 1)]
        <4>1. /\ z \in Seq(S) /\ Len(z) = Len(y) + Len(b)
              /\ \A i \in 1..Len(y)+Len(b) : z[i] = IF i <= Len(y) THEN y[i] ELSE b[i - Len(y)]
          BY <3>3, <3>7, ConcatProperties
        <4>2. Len(y) = c + 1 /\ Len(b) = m - c /\ (c + 1) + (m - c) = m + 1
          BY <3>3, <3>7, <2>7
        <4> HIDE DEF z
        <4> QED
          BY ONLY <4>1, <4>2
      <3> HIDE DEF z
      <3>9. \A i \in 1..m+1 : z[i] = f[i]
        <4> TAKE i \in 1..m+1
        <4>1. CASE i <= c
          <5>1. z[i] = y[i] /\ y[i] = t[i]
            BY <4>1, <3>7, <3>8, <2>7
          <5> QED
            BY <4>1, <5>1, <2>7
        <4>2. CASE i = c + 1
          BY <4>2, <3>7, <3>8, <2>7
        <4>3. CASE i > c + 1
          <5>1. i - (c + 1) \in 1..m-c /\ c + (i - (c + 1)) = i - 1
            BY <4>3, <2>7
          <5>2. z[i] = b[i - (c + 1)] /\ f[i] = t[i - 1]
            BY <4>3, <3>8, <2>7
          <5> HIDE DEF f
          <5> QED
            BY <5>1, <5>2, <3>3
        <4> QED
          BY <4>1, <4>2, <4>3, <2>7
      <3> HIDE DEF f
      <3>10. z = f
        BY <3>5, <3>8, <3>9, SeqEqual
      <3> QED
        BY <3>6, <3>10 DEF z, y, f
    <2>11. /\ \A p \in 1..c : w[p] = o[p] /\ p \in 1..m
           /\ w[c + 1] = m + 1
           /\ \A p \in c+2..m+1 : w[p] = o[p - 1] /\ p - 1 \in 1..m
      BY <2>7
    <2>12. \A p \in 1..m+1 : p \in 1..c \/ p = c + 1 \/ p \in c+2..m+1
      BY <2>7
    <2>13. Sorted(s, m + 1) = [p \in 1..m+1 |-> s[w[p]]]
      <3> DEFINE f == [p \in 1..m+1 |-> IF p <= c THEN t[p] ELSE IF p = c + 1 THEN e ELSE t[p - 1]]
      <3>1. \A p \in 1..m+1 : f[p] = s[w[p]]
        <4> TAKE p \in 1..m+1
        <4>1. CASE p \in 1..c
          <5>1. f[p] = t[p] /\ w[p] = o[p] /\ t[p] = s[o[p]]
            BY <4>1, <2>5, <2>7
          <5> HIDE DEF w, f
          <5> QED
            BY <5>1
        <4>2. CASE p = c + 1
          BY <4>2, <2>11, <2>7 DEF e
        <4>3. CASE p \in c+2..m+1
          <5>1. f[p] = t[p - 1] /\ t[p - 1] = s[o[p - 1]]
            BY <4>3, <2>5, <2>7, <2>11
          <5> QED
            BY <4>3, <5>1, <2>11
        <4> QED
          BY <4>1, <4>2, <4>3, <2>12
      <3> HIDE DEF w
      <3> QED
        BY <3>1, <2>8, <2>10
    <2>14. w \in [1..m+1 -> 1..m+1]
      <3>1. \A p \in 1..m+1 : w[p] \in 1..m+1
        <4> TAKE p \in 1..m+1
        <4> HIDE DEF w
        <4>0. \A q \in 1..m : o[q] \in 1..m+1
          BY <2>2
        <4>1. CASE p \in 1..c
          BY <4>0, <4>1, <2>11
        <4>2. CASE p = c + 1
          BY <4>2, <2>11
        <4>3. CASE p \in c+2..m+1
          BY <4>0, <4>3, <2>11
        <4> QED
          BY <4>1, <4>2, <4>3, <2>12
      <3> QED
        BY <3>1
    <2>15. \A i \in 1..m+1 : \E p \in 1..m+1 : w[p] = i
      <3> HIDE DEF w
      <3> TAKE i \in 1..m+1
      <3>1. CASE i = m + 1
        BY <3>1, <2>7, <2>11
      <3>2. CASE i \in 1..m
        <4>1. PICK p \in 1..m : o[p] = i
          BY <3>2, <2>2
        <4>2. CASE p <= c
          BY <4>1, <4>2, <2>7, <2>11
        <4>3. CASE p > c
          <5>1. p + 1 \in c+2..m+1 /\ (p + 1) - 1 = p /\ p + 1 \in 1..m+1
            BY <4>3, <2>7
          <5> QED
            BY <4>1, <5>1, <2>11
        <4> QED
          BY <4>2, <4>3, <2>7
      <3> QED
        BY <3>1, <3>2
    <2>16. ASSUME NEW p \in 1..m+1, NEW q \in 1..m+1, p < q PROVE Precedes(s, w[p], w[q])
      <3> HIDE DEF w
      <3>0. SortKey(s[m + 1]) = SortKey(e)
        BY DEF e
      <3>1. CASE q \in 1..c
        <4>1. p \in 1..c
          BY <2>16, <3>1, <2>7
        <4> QED
          BY <4>1, <3>1, <2>2, <2>11, <2>16
      <3>2. CASE q = c + 1
        <4>1. p \in 1..c
          BY <2>16, <3>2, <2>7
        <4>2. w[p] = o[p] /\ p \in 1..m /\ o[p] \in 1..m /\ w[q] = m + 1
          BY <4>1, <3>2, <2>2, <2>11
        <4>3. SortKey(s[o[p]]) <= SortKey(e) /\ SortKey(s[o[p]]) \in Int
          BY <4>1, <4>2, <2>5, <2>9, <2>7
        <4>4. o[p] < m + 1
          BY <4>2
        <4> QED
          BY <3>0, <4>2, <4>3, <4>4, <2>4 DEF Precedes
      <3>3. CASE q \in c+2..m+1
        <4>0. w[q] = o[q - 1] /\ q - 1 \in 1..m /\ o[q - 1] \in 1..m
          BY <3>3, <2>2, <2>11
        <4>1. CASE p \in 1..c
          <5>1. w[p] = o[p] /\ p \in 1..m /\ p < q - 1
            BY <4>1, <3>3, <2>11, <2>7
          <5> QED
            BY <4>0, <5>1, <2>2
        <4>2. CASE p = c + 1
          <5>1. w[p] = m + 1 /\ ~(q - 1 <= c)
            BY <4>2, <3>3, <2>11, <2>7
          <5>2. ~(SortKey(s[o[q - 1]]) <= SortKey(e)) /\ SortKey(s[o[q - 1]]) \in Int
            BY <5>1, <4>0, <2>5, <2>9
          <5> QED
            BY <3>0, <4>0, <5>1, <5>2, <2>4 DEF Precedes
        <4>3. CASE p \in c+2..m+1
          <5>1. w[p] = o[p - 1] /\ p - 1 \in 1..m /\ p - 1 < q - 1
            BY <4>3, <2>11, <2>16, <2>7
          <5> QED
            BY <4>0, <5>1, <2>2
        <4> QED
          BY <4>1, <4>2, <4>3, <2>12
      <3> QED
        BY <3>1, <3>2, <3>3, <2>12
    <2> HIDE DEF w
    <2>17. Orders(w, s, m + 1)
      BY <2>14, <2>15, <2>16 DEF Orders
    <2> QED
      BY <2>13, <2>17
  <1> HIDE DEF P
  <1>3. n \in P
    BY <1>1, <1>2, Induction
  <1> QED
    BY <1>3 DEF P

\* How many of K's members come before the i-th or are it, by value and then by place.
RankIn(K, n, i) == Cardinality({j \in 1..n : K[j] < K[i] \/ (K[j] = K[i] /\ j <= i)})

\* o lists the places of K's members in that order.
Ranked(K, n, o) ==
  /\ n \in Nat /\ K \in [1..n -> Int] /\ o \in [1..n -> 1..n]
  /\ \A i \in 1..n : \E p \in 1..n : o[p] = i
  /\ \A p, q \in 1..n : p < q => K[o[p]] < K[o[q]] \/ (K[o[p]] = K[o[q]] /\ o[p] < o[q])

\* The p-th in this order has the rank p: so many come before it or are it.
LEMMA RankIs ==
  ASSUME NEW n, NEW K, NEW o, Ranked(K, n, o), NEW p \in 1..n
  PROVE  RankIn(K, n, o[p]) = p
  <1>0. /\ n \in Nat /\ K \in [1..n -> Int] /\ o \in [1..n -> 1..n]
        /\ \A i \in 1..n : \E q \in 1..n : o[q] = i
        /\ \A q, r \in 1..n : q < r => K[o[q]] < K[o[r]] \/ (K[o[q]] = K[o[r]] /\ o[q] < o[r])
    BY DEF Ranked
  <1> DEFINE R == {j \in 1..n : K[j] < K[o[p]] \/ (K[j] = K[o[p]] /\ j <= o[p])}
             f == [q \in 1..p |-> o[q]]
  <1>1. \A q \in 1..n : o[q] \in R <=> q <= p
    <2> TAKE q \in 1..n
    <2> DEFINE i == o[q]
               j == o[p]
    <2>1. i \in 1..n /\ j \in 1..n /\ K[i] \in Int /\ K[j] \in Int
      BY <1>0
    <2>2. CASE q < p
      <3>1. K[i] < K[j] \/ (K[i] = K[j] /\ i < j)
        BY <1>0, <2>2
      <3> HIDE DEF i, j
      <3>2. K[i] < K[j] \/ (K[i] = K[j] /\ i <= j)
        BY <2>1, <3>1
      <3> QED
        BY <2>1, <2>2, <3>2 DEF i, j
    <2>3. CASE q = p
      BY <1>0, <2>1, <2>3
    <2>4. CASE p < q
      <3>1. K[j] < K[i] \/ (K[j] = K[i] /\ j < i)
        BY <1>0, <2>4
      <3> HIDE DEF i, j
      <3> DEFINE x == K[i]
                 y == K[j]
      <3>2. ~(x < y \/ (x = y /\ i <= j))
        <4>1. x \in Int /\ y \in Int /\ i \in Int /\ j \in Int /\ (y < x \/ (y = x /\ j < i))
          BY <2>1, <3>1
        <4> HIDE DEF x, y
        <4> QED
          BY <4>1
      <3> QED
        BY <2>1, <2>4, <3>2 DEF i, j
    <2> QED
      BY <2>2, <2>3, <2>4
  <1>2. \A q, r \in 1..n : o[q] = o[r] => q = r
    <2> SUFFICES ASSUME NEW q \in 1..n, NEW r \in 1..n, q < r PROVE o[q] # o[r]
      BY <1>0
    <2> DEFINE i == o[q]
               j == o[r]
    <2>1. i \in 1..n /\ j \in 1..n /\ K[i] \in Int /\ K[j] \in Int
      BY <1>0
    <2>2. K[i] < K[j] \/ (K[i] = K[j] /\ i < j)
      BY <1>0
    <2> HIDE DEF i, j
    <2>3. i # j
      BY <2>1, <2>2
    <2> QED
      BY <2>3 DEF i, j
  <1>3. f \in Bijection(1..p, R)
    <2>1. f \in [1..p -> R]
      BY <1>0, <1>1
    <2>2. \A j \in R : \E q \in 1..p : f[q] = j
      <3> TAKE j \in R
      <3>0. j \in 1..n
        BY <1>0
      <3>1. PICK q \in 1..n : o[q] = j
        BY <1>0, <3>0
      <3>2. q \in 1..p
        <4> HIDE DEF R
        <4> QED
          BY <1>1, <3>1
      <3> QED
        BY <3>1, <3>2
    <2>3. \A q, r \in 1..p : f[q] = f[r] => q = r
      <3> TAKE q, r \in 1..p
      <3>1. q \in 1..n /\ r \in 1..n /\ f[q] = o[q] /\ f[r] = o[r]
        BY <1>0
      <3> QED
        BY <1>2, <3>1
    <2> HIDE DEF f, R
    <2> QED
      BY <2>1, <2>2, <2>3, Zenon DEF Bijection, Injection, Surjection, IsInjective
  <1> HIDE DEF f, R
  <1>4. ExistsBijection(1..p, R)
    BY <1>3 DEF ExistsBijection
  <1>5. Cardinality(R) = p
    BY <1>0, <1>4, FS_CountingElements
  <1> QED
    BY <1>5 DEF R, RankIn

------------------------------------------------------------------------------
(* What the actions keep.                                                   *)

LEMMA Constants ==
  /\ MaxSteps \in Nat \ {0} /\ Second \in Nat \ {0} /\ Wrap \in Nat \ {0} /\ 0 \in 0..Wrap-1
  /\ MaxTime \in Nat /\ MaxCaptured \in Nat /\ Boot \in 0..Wrap-1
  BY ScenarioAssumption

\* The clock shows a DWORD.
LEMMA ClockTyped ==
  ASSUME time \in 0..MaxTime
  PROVE  Clock \in 0..Wrap-1
  BY Constants DEF Clock

\* Steps with the same plan, and steps played alike.
Alike(s, t) ==
  /\ s.trigger = t.trigger /\ s.at = t.at /\ s.when = t.when /\ s.value = t.value
  /\ s.repeat = t.repeat /\ s.times = t.times /\ s.key = t.key /\ s.set = t.set
PlayedAlike(s, t) ==
  s.fireCount = t.fireCount /\ s.nextFireMs = t.nextFireMs /\ s.done = t.done

\* A step is what its fields are.
LEMMA StepEqual ==
  ASSUME NEW s \in Step, NEW t \in Step, Alike(s, t), PlayedAlike(s, t)
  PROVE  s = t
  BY DEF Step, Alike, PlayedAlike

LEMMA PlanFields ==
  ASSUME NEW s \in Step
  PROVE  /\ Plan(s) \in Step /\ Alike(Plan(s), s)
         /\ Plan(s).fireCount = 0 /\ Plan(s).nextFireMs = 0 /\ Plan(s).done = FALSE
  <1> DEFINE a == [s EXCEPT !.fireCount = 0]
             b == [a EXCEPT !.nextFireMs = 0]
             c == [b EXCEPT !.done = FALSE]
  <1>1. /\ a \in Step
        /\ Alike(a, s)
        /\ a.fireCount = 0
    BY DEF Step, Alike
  <1> HIDE DEF a
  <1>2. /\ b \in Step
        /\ Alike(b, s)
        /\ b.fireCount = 0 /\ b.nextFireMs = 0
    BY <1>1, Constants DEF Step, Alike
  <1> HIDE DEF b
  <1>3. /\ c \in Step
        /\ Alike(c, s)
        /\ c.fireCount = 0 /\ c.nextFireMs = 0 /\ c.done = FALSE
    BY <1>2 DEF Step, Alike
  <1>4. Plan(s) = c
    BY DEF Plan, a, b
  <1> HIDE DEF c
  <1> QED
    BY <1>3, <1>4

\* An object makes a step, and nothing is played in it yet.
LEMMA StepTyped ==
  ASSUME NEW o \in Objects
  PROVE  /\ StepOf(o) \in Step /\ Plan(StepOf(o)) = StepOf(o)
         /\ StepOf(o).fireCount = 0 /\ StepSound(StepOf(o)) /\ KeyOf(o) \in Int
         /\ StepOf(o).key \in Keys /\ StepOf(o).repeat = o.repeat
         /\ StepOf(o).set = o.set /\ StepOf(o).key = o.key
         /\ StepOf(o).trigger = "time" => KeyOf(o) = o.at
  <1>1. o \in [at : Int, when : {"none", "captured_count", "elapsed_sec"}, value : Int,
               repeat : Int, times : Int, key : Keys, set : Values]
    BY ScenarioAssumption
  <1> DEFINE s == StepOf(o)
  <1>2. /\ s \in Step
        /\ s.at = o.at /\ s.repeat = o.repeat /\ s.set = o.set /\ s.key = o.key /\ s.key \in Keys
        /\ s.fireCount = 0 /\ s.nextFireMs = 0 /\ s.done = FALSE /\ s.at \in Int
    BY <1>1, Constants DEF StepOf, Step
  <1> HIDE DEF s
  <1>3. Plan(s) = s
    <2> DEFINE p == Plan(s)
    <2>1. p \in Step /\ Alike(p, s) /\ PlayedAlike(p, s)
      BY <1>2, PlanFields DEF PlayedAlike
    <2> HIDE DEF p
    <2>2. p = s
      BY <1>2, <2>1, StepEqual
    <2> QED
      BY <2>2 DEF p
  <1>4. s.times \in Int /\ s.repeat \in Int
    BY <1>2 DEF Step, Alike
  <1>5. StepSound(s)
    BY <1>2, <1>4 DEF StepSound, Limited, Limit
  <1>6. SortKey(s) \in Int /\ (s.trigger = "time" => SortKey(s) = s.at)
    BY <1>2 DEF SortKey, Never
  <1> QED
    BY <1>2, <1>3, <1>5, <1>6 DEF KeyOf, s

\* Playing a step writes nothing of its plan.
LEMMA PlanKept ==
  ASSUME NEW s \in Step, NEW t \in Step, Plan(s) = Plan(t)
  PROVE  Alike(s, t) /\ SortKey(s) = SortKey(t)
  <1>1. Alike(Plan(s), s) /\ Alike(Plan(t), t)
    BY PlanFields
  <1>2. Alike(s, t)
    BY <1>1 DEF Alike
  <1> QED
    BY <1>2 DEF SortKey, Alike

\* Whose plan is the same was it.
LEMMA SamePlan ==
  ASSUME NEW s \in Step, NEW t \in Step, Alike(s, t)
  PROVE  Plan(s) = Plan(t)
  <1> DEFINE a == Plan(s)
             b == Plan(t)
  <1>1. a \in Step /\ Alike(a, s) /\ a.fireCount = 0 /\ a.nextFireMs = 0 /\ a.done = FALSE
    BY PlanFields
  <1>2. b \in Step /\ Alike(b, t) /\ b.fireCount = 0 /\ b.nextFireMs = 0 /\ b.done = FALSE
    BY PlanFields
  <1> HIDE DEF a, b
  <1>3. Alike(a, b)
    BY <1>1, <1>2 DEF Alike
  <1>4. PlayedAlike(a, b)
    BY <1>1, <1>2 DEF PlayedAlike
  <1>5. a = b
    BY <1>1, <1>2, <1>3, <1>4, StepEqual
  <1> QED
    BY <1>5 DEF a, b

\* What a fire makes of a step that is not spent.
Fire(s) == Retired([s EXCEPT !.fireCount = @ + 1])

LEMMA FireIs ==
  ASSUME NEW s \in Step, StepSound(s), ~s.done, tick.now \in 0..Wrap-1
  PROVE  /\ Fire(s) \in Step /\ Plan(Fire(s)) = Plan(s) /\ StepSound(Fire(s))
         /\ Fire(s).fireCount = s.fireCount + 1
         /\ s.repeat <= 0 => Fire(s).done
         /\ ~Fire(s).done => /\ s.repeat > 0
                             /\ Fire(s).nextFireMs = (tick.now + s.repeat * Second) % Wrap
  <1> DEFINE c == [s EXCEPT !.fireCount = @ + 1]
             n == (tick.now + s.repeat * Second) % Wrap
  <1>1. n \in 0..Wrap-1
    <2> DEFINE m == tick.now + s.repeat * Second
    <2>1. m \in Int
      <3>1. s.repeat \in Int /\ tick.now \in Int /\ Second \in Int
        BY Constants DEF Step
      <3> QED
        BY <3>1
    <2> HIDE DEF m
    <2>2. m % Wrap \in 0..Wrap-1
      BY <2>1, Constants
    <2> QED
      BY <2>2 DEF m
  <1> HIDE DEF n
  <1>2. /\ c \in Step /\ Plan(c) = Plan(s) /\ c.fireCount = s.fireCount + 1 /\ c.repeat = s.repeat
        /\ c.times = s.times /\ ~c.done
    <2>1. /\ c \in Step
          /\ Alike(c, s)
          /\ c.fireCount = s.fireCount + 1 /\ ~c.done
      BY DEF Step, Alike
    <2> HIDE DEF c
    <2> QED
      BY <2>1, SamePlan DEF Alike
  <1>3. /\ Limited(s) => s.fireCount < Limit(s)
        /\ s.fireCount \in Nat /\ s.repeat \in Int /\ s.times \in Int
    BY DEF StepSound, Step
  <1> HIDE DEF c
  <1>4. Fire(s) = Retired(c)
    BY DEF Fire, c
  <1>5. CASE s.repeat > 0 /\ (s.times <= 0 \/ c.fireCount < s.times)
    <2>1. Fire(s) = [c EXCEPT !.nextFireMs = n]
      BY <1>2, <1>4, <1>5 DEF Retired, n
    <2>2. /\ Fire(s) \in Step /\ Plan(Fire(s)) = Plan(c) /\ Fire(s).fireCount = c.fireCount
          /\ Fire(s).repeat = c.repeat /\ Fire(s).times = c.times
          /\ ~Fire(s).done /\ Fire(s).nextFireMs = n
      <3> DEFINE d == [c EXCEPT !.nextFireMs = n]
      <3>1. /\ d \in Step
            /\ Alike(d, c)
            /\ d.fireCount = c.fireCount /\ d.nextFireMs = n /\ ~d.done
        BY <1>1, <1>2 DEF Step, Alike
      <3> HIDE DEF d
      <3>2. Plan(d) = Plan(c)
        BY <1>2, <3>1, SamePlan
      <3> QED
        BY <2>1, <3>1, <3>2 DEF d
    <2> QED
      BY <1>2, <1>3, <1>5, <2>2 DEF StepSound, Limited, Limit, n
  <1>6. CASE ~(s.repeat > 0 /\ (s.times <= 0 \/ c.fireCount < s.times))
    <2>1. Fire(s) = [c EXCEPT !.done = TRUE]
      BY <1>2, <1>4, <1>6 DEF Retired
    <2>2. /\ Fire(s) \in Step /\ Plan(Fire(s)) = Plan(c) /\ Fire(s).fireCount = c.fireCount
          /\ Fire(s).repeat = c.repeat /\ Fire(s).times = c.times
          /\ Fire(s).done
      <3> DEFINE d == [c EXCEPT !.done = TRUE]
      <3>1. /\ d \in Step
            /\ Alike(d, c)
            /\ d.fireCount = c.fireCount /\ d.done
        BY <1>1, <1>2 DEF Step, Alike
      <3> HIDE DEF d
      <3>2. Plan(d) = Plan(c)
        BY <1>2, <3>1, SamePlan
      <3> QED
        BY <2>1, <3>1, <3>2 DEF d
    <2> QED
      BY <1>2, <1>3, <1>6, <2>2 DEF StepSound, Limited, Limit
  <1> QED
    BY <1>5, <1>6

\* The types of the rest of the state, and of the steps with their number.
StepTypes == steps \in [Index -> Step] /\ nSteps \in 0..MaxSteps
CallTypes ==
  /\ call \in [pc : {"idle", "parse", "clear"}, i : Nat, rest : Seq(Objects), appLock : BOOLEAN]
  /\ call.pc = "clear" => call.i \in Loaded
TickTypes ==
  /\ tick \in [pc : {"idle", "loop"}, i : 0..MaxSteps+1, now : 0..Wrap-1,
               elapsed : 0..Wrap-1, remaining : 0..MaxSteps]
  /\ tick.pc = "loop" => tick.i >= 1 /\ tick.remaining < tick.i
PlayerTypes ==
  /\ active \in BOOLEAN /\ startMs \in 0..Wrap-1 /\ settings \in [Keys -> Values \cup {Unset}]
  /\ capturesNow \in BOOLEAN /\ captured \in 0..MaxCaptured
TimeTypes ==
  /\ time \in 0..MaxTime /\ ticked \in BOOLEAN /\ started \in {-1} \cup 0..time
  /\ firedAt \in [Index -> {-1} \cup 0..time]

LEMMA TypesParts ==
  ScenarioTypes <=> /\ StepTypes /\ CallTypes /\ TickTypes /\ PlayerTypes /\ TimeTypes
                    /\ document \in Seq(Objects)
  BY DEF ScenarioTypes, StepTypes, CallTypes, TickTypes, PlayerTypes, TimeTypes

\* A cleared step.
Cleared(s) == [s EXCEPT !.fireCount = 0, !.done = FALSE, !.nextFireMs = 0]

LEMMA ClearedIs ==
  ASSUME NEW s \in Step
  PROVE  /\ Cleared(s) \in Step /\ Plan(Cleared(s)) = Plan(s) /\ StepSound(Cleared(s))
         /\ Cleared(s).fireCount = 0
  <1> DEFINE a == [s EXCEPT !.fireCount = 0]
             b == [a EXCEPT !.done = FALSE]
             c == [b EXCEPT !.nextFireMs = 0]
  <1>1. a \in Step /\ Alike(a, s) /\ a.fireCount = 0
    BY DEF Step, Alike
  <1> HIDE DEF a
  <1>2. b \in Step /\ Alike(b, s) /\ b.fireCount = 0 /\ b.done = FALSE
    BY <1>1 DEF Step, Alike
  <1> HIDE DEF b
  <1>3. c \in Step /\ Alike(c, s) /\ c.fireCount = 0 /\ c.done = FALSE /\ c.nextFireMs = 0
    BY <1>2, Constants DEF Step, Alike
  <1>4. Cleared(s) = c
    BY DEF Cleared, a, b
  <1> HIDE DEF c
  <1>5. Plan(c) = Plan(s)
    BY <1>3, SamePlan
  <1>6. StepSound(c)
    BY <1>3, StepFields DEF StepSound, Limited, Limit
  <1> QED
    BY <1>3, <1>4, <1>5, <1>6

\* What the sort does to the table: the steps in use are put in order.
LEMMA SortIs ==
  ASSUME StepTypes, LoadSort
  PROVE  /\ nSteps' = nSteps /\ steps' \in [Index -> Step]
         /\ \A i \in Index \ Loaded : steps'[i] = steps[i]
         /\ \E o : Orders(o, steps, nSteps) /\ \A p \in Loaded : steps'[p] = steps[o[p]]
  <1>1. /\ steps \in [Index -> Step] /\ nSteps \in 0..MaxSteps /\ MaxSteps \in Nat
        /\ nSteps' = nSteps
        /\ steps' = [i \in Index |-> IF i <= nSteps THEN Sorted(steps, nSteps)[i] ELSE steps[i]]
    BY Constants DEF StepTypes, LoadSort
  <1>3. nSteps \in Nat /\ \A i \in 1..nSteps : steps[i] \in Step
    BY <1>1 DEF Index
  <1>4. PICK o : Orders(o, steps, nSteps) /\ Sorted(steps, nSteps) = [p \in 1..nSteps |-> steps[o[p]]]
    <2> DEFINE s == steps
               n == nSteps
    <2>1. n \in Nat /\ \A i \in 1..n : s[i] \in Step
      BY <1>3
    <2> HIDE DEF s, n
    <2>2. \E o : Orders(o, s, n) /\ Sorted(s, n) = [p \in 1..n |-> s[o[p]]]
      BY <2>1, SortOrders
    <2> QED
      BY <2>2 DEF s, n
  <1>5. \A p \in Loaded : p \in Index /\ p <= nSteps /\ o[p] \in 1..nSteps
    BY <1>1, <1>4 DEF Loaded, Index, Orders
  <1>6. \A p \in Loaded : steps'[p] = steps[o[p]]
    BY <1>1, <1>4, <1>5 DEF Loaded
  <1>7. \A i \in Index \ Loaded : steps'[i] = steps[i]
    BY <1>1 DEF Index, Loaded
  <1>8. steps' \in [Index -> Step]
    <2>1. \A i \in Index : steps'[i] \in Step
      <3> TAKE i \in Index
      <3>1. CASE i \in Loaded
        BY <3>1, <1>3, <1>5, <1>6
      <3>2. CASE i \notin Loaded
        BY <3>2, <1>1, <1>7
      <3> QED
        BY <3>1, <3>2
    <2> QED
      BY <1>1, <2>1
  <1> QED
    BY <1>1, <1>4, <1>6, <1>7, <1>8

\* The tick goes on to the next step; one that is not spent remains.
ToNext(t, spent) == [t EXCEPT !.i = @ + 1, !.remaining = IF spent THEN @ ELSE @ + 1]

LEMMA ToNextIs ==
  ASSUME TickTypes, StepTypes, tick.pc = "loop", tick.i <= nSteps, NEW d
  PROVE  LET t == ToNext(tick, d)
         IN /\ t \in [pc : {"idle", "loop"}, i : 0..MaxSteps+1, now : 0..Wrap-1,
                      elapsed : 0..Wrap-1, remaining : 0..MaxSteps]
            /\ t.pc = "loop" /\ t.i = tick.i + 1 /\ t.now = tick.now /\ t.elapsed = tick.elapsed
            /\ t.remaining = IF d THEN tick.remaining ELSE tick.remaining + 1
            /\ t.i >= 1 /\ t.remaining < t.i
  <1> DEFINE r == IF d THEN tick.remaining ELSE tick.remaining + 1
             a == [tick EXCEPT !.i = @ + 1]
             b == [a EXCEPT !.remaining = IF d THEN @ ELSE @ + 1]
             T == [pc : {"idle", "loop"}, i : 0..MaxSteps+1, now : 0..Wrap-1,
                   elapsed : 0..Wrap-1, remaining : 0..MaxSteps]
  <1>1. /\ tick \in T /\ tick.i + 1 \in 0..MaxSteps+1 /\ r \in 0..MaxSteps
        /\ r < tick.i + 1 /\ tick.i + 1 >= 1
    BY Constants DEF TickTypes, StepTypes
  <1>2. a \in T /\ a.pc = "loop" /\ a.i = tick.i + 1 /\ a.now = tick.now /\ a.remaining = tick.remaining
        /\ a.elapsed = tick.elapsed
    BY <1>1
  <1> HIDE DEF a, r
  <1>3. b = [a EXCEPT !.remaining = r]
    BY <1>2 DEF r
  <1>4. [a EXCEPT !.remaining = r] \in T
    BY <1>1, <1>2
  <1>5. b \in T /\ b.pc = a.pc /\ b.i = a.i /\ b.now = a.now /\ b.remaining = r /\ b.elapsed = a.elapsed
    BY <1>2, <1>3, <1>4
  <1>6. ToNext(tick, d) = b
    BY DEF ToNext, a
  <1> HIDE DEF b
  <1> QED
    BY <1>1, <1>2, <1>5, <1>6 DEF r

\* Every action keeps the types and lets no step be fired too often.
LEMMA SoundKept ==
  ASSUME ScenarioTypes, StepsSound, [ScenarioNext]_scenarioVars
  PROVE  ScenarioTypes' /\ StepsSound'
  <1>0. /\ StepTypes /\ CallTypes /\ TickTypes /\ PlayerTypes /\ TimeTypes
        /\ document \in Seq(Objects) /\ Clock \in 0..Wrap-1
    BY TypesParts, ClockTyped DEF TimeTypes
  <1> SUFFICES /\ StepTypes' /\ CallTypes' /\ TickTypes' /\ PlayerTypes' /\ TimeTypes'
               /\ document' \in Seq(Objects) /\ StepsSound'
    BY DEF ScenarioTypes, StepTypes, CallTypes, TickTypes, PlayerTypes, TimeTypes
  <1> USE DEF player, app, clock, ghosts
  <1> DEFINE Frame == /\ StepTypes' /\ PlayerTypes' /\ TimeTypes' /\ document' \in Seq(Objects)
                      /\ StepsSound'
  <1>1. ASSUME NEW doc \in Documents, LoadBegin(doc)
        PROVE  Frame /\ CallTypes' /\ TickTypes'
    <2>1. doc \in Seq(Objects)
      BY ScenarioAssumption
    <2>2. CallTypes'
      BY <1>1, <2>1 DEF LoadBegin, CallTypes, NoCall
    <2>3. StepTypes'
      BY <1>0, <1>1, Constants DEF LoadBegin, StepTypes
    <2>4. PlayerTypes' /\ TickTypes' /\ TimeTypes' /\ StepsSound' /\ document' \in Seq(Objects)
      BY <1>0, <1>1, <2>1 DEF LoadBegin, PlayerTypes, TickTypes, TimeTypes, StepsSound
    <2> QED
      BY <2>2, <2>3, <2>4
  <1>2. CASE LoadObject
    <2> DEFINE o == Head(call.rest)
    <2>1. o \in Objects /\ Tail(call.rest) \in Seq(Objects)
      BY <1>0, <1>2, HeadTailProperties DEF LoadObject, CallTypes
    <2>2. StepTypes' /\ StepsSound'
      <3>1. /\ nSteps + 1 \in Index /\ nSteps' \in 0..MaxSteps
            /\ steps' = [steps EXCEPT ![nSteps + 1] = StepOf(o)]
        BY <1>0, <1>2, Constants DEF LoadObject, StepTypes, Index
      <3>2. StepOf(o) \in Step /\ StepSound(StepOf(o))
        BY <2>1, StepTyped
      <3> QED
        BY <1>0, <3>1, <3>2 DEF StepTypes, StepsSound
    <2>3. CallTypes'
      BY <1>0, <1>2, <2>1 DEF LoadObject, CallTypes
    <2>4. TickTypes' /\ PlayerTypes' /\ TimeTypes' /\ document' \in Seq(Objects)
      BY <1>0, <1>2 DEF LoadObject, PlayerTypes, TickTypes, TimeTypes
    <2> QED
      BY <2>2, <2>3, <2>4
  <1>3. CASE LoadSort
    <2>1. StepTypes' /\ StepsSound'
      <3>1. /\ nSteps' = nSteps /\ steps' \in [Index -> Step]
            /\ \A i \in Index \ Loaded : steps'[i] = steps[i]
        BY <1>0, <1>3, SortIs
      <3>2. PICK o : Orders(o, steps, nSteps) /\ \A p \in Loaded : steps'[p] = steps[o[p]]
        BY <1>0, <1>3, SortIs
      <3>3. \A p \in Loaded : o[p] \in Index
        BY <1>0, <3>2, Constants DEF Loaded, Index, Orders, StepTypes
      <3>4. \A i \in Index : StepSound(steps'[i])
        BY <3>1, <3>2, <3>3 DEF StepsSound
      <3> QED
        BY <1>0, <3>1, <3>4 DEF StepTypes, StepsSound
    <2>2. CallTypes'
      BY <1>3, EmptySeq DEF LoadSort, CallTypes, NoCall
    <2>3. TickTypes' /\ PlayerTypes' /\ TimeTypes' /\ document' \in Seq(Objects)
      BY <1>0, <1>3 DEF LoadSort, PlayerTypes, TickTypes, TimeTypes
    <2> QED
      BY <2>1, <2>2, <2>3
  <1>4. CASE StartBegin \/ CaptureStart
    <2>1. PICK locked \in BOOLEAN : Begin(locked)
      BY <1>4 DEF StartBegin, CaptureStart
    <2>2. UNCHANGED <<steps, nSteps, settings, tick, clock, document>>
      BY <1>4 DEF StartBegin, CaptureStart
    <2>3. StepTypes' /\ StepsSound' /\ TickTypes' /\ document' \in Seq(Objects)
      BY <1>0, <2>2 DEF StepTypes, StepsSound, TickTypes
    <2>4. CallTypes'
      <3>1. nSteps \in Nat
        BY <1>0, Constants DEF StepTypes
      <3> QED
        <4>1. CASE nSteps = 0
          <5>1. call' = NoCall
            BY <2>1, <4>1 DEF Begin
          <5> QED
            BY <5>1, EmptySeq DEF CallTypes, NoCall
        <4>2. CASE nSteps # 0
          <5>1. call' = [pc |-> "clear", i |-> 1, rest |-> <<>>, appLock |-> locked] /\ nSteps' = nSteps
            BY <2>1, <2>2, <4>2 DEF Begin, NoCall
          <5> QED
            BY <3>1, <4>2, <5>1, EmptySeq DEF CallTypes, Loaded
        <4> QED
          BY <4>1, <4>2
    <2>5. TimeTypes'
      BY <1>0, <2>1, <2>2, Constants DEF Begin, TimeTypes
    <2>6. PlayerTypes'
      <3>1. active' \in BOOLEAN /\ startMs' \in 0..Wrap-1
        BY <1>0, <2>1 DEF Begin, PlayerTypes
      <3>2. capturesNow' \in BOOLEAN /\ captured' \in 0..MaxCaptured
        <4>1. CASE StartBegin
          BY <1>0, <4>1 DEF StartBegin, PlayerTypes
        <4>2. CASE CaptureStart
          BY <4>2, Constants DEF CaptureStart
        <4> QED
          BY <1>4, <4>1, <4>2
      <3> QED
        BY <1>0, <2>2, <3>1, <3>2 DEF PlayerTypes
    <2> QED
      BY <2>3, <2>4, <2>5, <2>6
  <1>5. CASE StartClear
    <2>1. StepTypes' /\ StepsSound'
      <3>1. /\ call.i \in Index /\ nSteps' = nSteps
            /\ steps' = [steps EXCEPT ![call.i] = Cleared(steps[call.i])]
        <4>1. call.i \in Index /\ nSteps' = nSteps
          BY <1>0, <1>5, Constants DEF StartClear, CallTypes, StepTypes, Loaded, Index
        <4>2. steps' = [steps EXCEPT ![call.i] = Cleared(steps[call.i])]
          BY <1>5, Zenon DEF StartClear, Cleared
        <4> QED
          BY <4>1, <4>2
      <3>2. Cleared(steps[call.i]) \in Step /\ StepSound(Cleared(steps[call.i]))
        BY <1>0, <3>1, ClearedIs DEF StepTypes
      <3> QED
        BY <1>0, <3>1, <3>2 DEF StepTypes, StepsSound
    <2>2. CallTypes'
      <3>1. /\ nSteps' = nSteps /\ nSteps \in Nat /\ call.i \in 1..nSteps
            /\ call' = IF call.i < nSteps THEN [call EXCEPT !.i = @ + 1] ELSE NoCall
        BY <1>0, <1>5 DEF StartClear, CallTypes, StepTypes, Loaded
      <3>2. CASE call.i < nSteps
        BY <1>0, <3>1, <3>2 DEF CallTypes, Loaded
      <3>3. CASE ~(call.i < nSteps)
        BY <3>1, <3>3, EmptySeq DEF CallTypes, NoCall
      <3> QED
        BY <3>2, <3>3
    <2>3. TickTypes' /\ PlayerTypes' /\ TimeTypes' /\ document' \in Seq(Objects)
      BY <1>0, <1>5 DEF StartClear, PlayerTypes, TickTypes, TimeTypes
    <2> QED
      BY <2>1, <2>2, <2>3
  <1>6. CASE Stop \/ CaptureStop
    <2>1. UNCHANGED <<steps, nSteps, startMs, settings, tick, call, clock, document, firedAt>>
          /\ active' = FALSE /\ started' = -1
      BY <1>6 DEF Stop, CaptureStop
    <2>2. capturesNow' \in BOOLEAN /\ captured' \in 0..MaxCaptured
      <3>1. CASE Stop
        BY <1>0, <3>1 DEF Stop, PlayerTypes
      <3>2. CASE CaptureStop
        <4>1. capturesNow' = FALSE /\ captured' = 0
          BY <3>2 DEF CaptureStop
        <4>2. capturesNow' \in BOOLEAN
          BY <4>1
        <4>3. captured' \in 0..MaxCaptured
          BY <4>1, Constants
        <4> QED
          BY <4>2, <4>3
      <3> QED
        BY <1>6, <3>1, <3>2
    <2>3. StepTypes' /\ StepsSound' /\ TickTypes' /\ document' \in Seq(Objects) /\ CallTypes'
      BY <1>0, <2>1 DEF StepTypes, StepsSound, TickTypes, CallTypes, Loaded
    <2>4. PlayerTypes' /\ TimeTypes'
      BY <1>0, <2>1, <2>2 DEF PlayerTypes, TimeTypes
    <2> QED
      BY <2>3, <2>4
  <1>7. CASE TickBegin \/ TickSkip \/ TickEnd
    <2>1. UNCHANGED <<steps, nSteps, startMs, settings, app, call, time, calls, document, started, firedAt>>
      BY <1>7 DEF TickBegin, TickSkip, TickEnd
    <2>2. active' \in BOOLEAN /\ ticked' \in BOOLEAN
      BY <1>0, <1>7 DEF TickBegin, TickSkip, TickEnd, PlayerTypes, TimeTypes
    <2>3. StepTypes' /\ StepsSound' /\ document' \in Seq(Objects) /\ CallTypes'
      BY <1>0, <2>1 DEF StepTypes, StepsSound, CallTypes, Loaded
    <2>4. PlayerTypes' /\ TimeTypes'
      BY <1>0, <2>1, <2>2 DEF PlayerTypes, TimeTypes
    <2>5. TickTypes'
      <3>1. CASE TickBegin
        <4>1. tick' = [pc |-> "loop", i |-> 1, now |-> Clock, elapsed |-> Since(Clock, startMs),
                       remaining |-> 0]
          BY <3>1 DEF TickBegin
        <4>2. Since(Clock, startMs) \in 0..Wrap-1
          BY <1>0, Constants DEF Since, PlayerTypes
        <4> QED
          BY <1>0, <4>1, <4>2, Constants DEF TickTypes
      <3>2. CASE TickSkip
        <4>1. tick.pc = "loop" /\ tick.i <= nSteps /\ nSteps' = nSteps
          BY <3>2 DEF TickSkip, InLoop
        <4>2. tick' = ToNext(tick, steps[tick.i].done)
          BY <3>2, Zenon DEF TickSkip, ToNext
        <4> QED
          BY <1>0, <4>1, <4>2, ToNextIs DEF TickTypes
      <3>3. CASE TickEnd
        BY <3>3, Constants DEF TickEnd, Resting, TickTypes
      <3> QED
        BY <1>7, <3>1, <3>2, <3>3
    <2> QED
      BY <2>3, <2>4, <2>5
  <1>8. CASE TickFire
    <2> DEFINE i == tick.i
               s == Fire(steps[i])
    <2>1. /\ i \in Index /\ ~steps[i].done /\ steps[i] \in Step /\ StepSound(steps[i])
          /\ tick.now \in 0..Wrap-1
      <3>1. i \in Index
        BY <1>0, <1>8, Constants DEF TickFire, InLoop, TickTypes, StepTypes, Index
      <3>2. ~steps[i].done /\ tick.now \in 0..Wrap-1
        BY <1>0, <1>8 DEF TickFire, TickTypes
      <3> QED
        BY <1>0, <3>1, <3>2 DEF StepTypes, StepsSound
    <2>2. /\ s \in Step /\ StepSound(s) /\ Plan(s) = Plan(steps[i])
      BY <2>1, FireIs
    <2>3. /\ settings' = [settings EXCEPT ![s.key] = s.set]
          /\ steps' = [steps EXCEPT ![i] = s]
          /\ firedAt' = [firedAt EXCEPT ![i] = time]
          /\ tick' = [tick EXCEPT !.i = @ + 1, !.remaining = IF s.done THEN @ ELSE @ + 1]
          /\ UNCHANGED <<nSteps, active, startMs, app, call, clock, calls, document, started>>
      BY <1>8, Zenon DEF TickFire, Fire
    <2>4. s.set \in Values \cup {Unset}
      BY <2>2, StepFields
    <2> HIDE DEF s
    <2>5. StepTypes' /\ StepsSound'
      BY <1>0, <2>1, <2>2, <2>3 DEF StepTypes, StepsSound
    <2>6. CallTypes' /\ document' \in Seq(Objects)
      BY <1>0, <2>3 DEF CallTypes, Loaded
    <2>7. PlayerTypes'
      BY <1>0, <2>3, <2>4 DEF PlayerTypes
    <2>8. TimeTypes'
      BY <1>0, <2>1, <2>3 DEF TimeTypes
    <2>9. TickTypes'
      <3>1. i <= nSteps /\ tick.pc = "loop"
        BY <1>8 DEF TickFire, InLoop
      <3> QED
        <4>1. tick' = ToNext(tick, s.done)
          BY <2>3 DEF ToNext
        <4> QED
          BY <1>0, <3>1, <4>1, ToNextIs DEF TickTypes
    <2> QED
      BY <2>5, <2>6, <2>7, <2>8, <2>9
  <1>9. CASE Packet
    <2>1. captured' \in 0..MaxCaptured
      BY <1>0, <1>9, Constants DEF Packet, PlayerTypes
    <2>2. UNCHANGED <<player, capturesNow, tick, call, clock, ghosts>>
      BY <1>9 DEF Packet
    <2>3. StepTypes' /\ StepsSound' /\ document' \in Seq(Objects) /\ CallTypes' /\ TickTypes'
      BY <1>0, <2>2 DEF StepTypes, StepsSound, CallTypes, Loaded, TickTypes
    <2>4. PlayerTypes' /\ TimeTypes'
      BY <1>0, <2>1, <2>2 DEF PlayerTypes, TimeTypes
    <2> QED
      BY <2>3, <2>4
  <1>10. CASE Elapse
    <2>1. UNCHANGED <<player, app, tick, call, ghosts>> /\ time' = time + 1 /\ ticked' = FALSE
          /\ time < MaxTime
      BY <1>10 DEF Elapse
    <2>2. StepTypes' /\ StepsSound' /\ document' \in Seq(Objects) /\ CallTypes' /\ TickTypes'
      BY <1>0, <2>1 DEF StepTypes, StepsSound, CallTypes, Loaded, TickTypes
    <2>3. PlayerTypes'
      BY <1>0, <2>1 DEF PlayerTypes
    <2>4. TimeTypes'
      <3>1. time \in 0..MaxTime /\ time + 1 \in 0..MaxTime /\ 0..time \subseteq 0..time+1
        BY <1>0, <2>1, Constants DEF TimeTypes
      <3> QED
        BY <1>0, <2>1, <3>1 DEF TimeTypes
    <2> QED
      BY <2>2, <2>3, <2>4
  <1>11. CASE UNCHANGED scenarioVars
    BY <1>0, <1>11 DEF scenarioVars, StepTypes, StepsSound, CallTypes, Loaded, TickTypes, PlayerTypes, TimeTypes
  <1> QED
    BY <1>1, <1>2, <1>3, <1>4, <1>5, <1>6, <1>7, <1>8, <1>9, <1>10, <1>11
    DEF ScenarioNext, Calling, ScenarioTick

\* The selection of the objects of use is a sequence of objects.
LEMMA UsableTyped ==
  ASSUME document \in Seq(Objects)
  PROVE  /\ UsableObjects = Only(document, Usables)
         /\ UsableObjects \in Seq(Objects) /\ Len(UsableObjects) \in Nat
         /\ \A i \in 1..Len(UsableObjects) : UsableObjects[i] \in Objects
  <1>1. UsableObjects = Only(document, Usables)
    BY DEF UsableObjects, Usables
  <1>2. Only(document, Usables) \in Seq(Objects)
    BY OnlyEmbeds
  <1> QED
    BY <1>1, <1>2, LenProperties

\* What changes no plan changes no order.
LEMMA PlansKept ==
  ASSUME LoadInv, StepTypes, UNCHANGED <<nSteps, document>>,
         \A i \in Index : Plan(steps'[i]) = Plan(steps[i]),
         (call.pc = "parse" /\ call' = call) \/ (call.pc # "parse" /\ call.pc' # "parse")
  PROVE  LoadInv'
  <1>1. Loaded' = Loaded /\ Loaded \subseteq Index
    BY Constants DEF Loaded, Index, StepTypes
  <1>2. CASE call.pc = "parse" /\ call' = call
    <2>1. PICK n \in 0..Len(document) : ReadSoFar(n)
      BY <1>2 DEF LoadInv
    <2>2. ReadSoFar(n)'
      BY <1>1, <1>2, <2>1 DEF ReadSoFar
    <2> QED
      BY <1>2, <2>2 DEF LoadInv
  <1>3. CASE call.pc # "parse" /\ call.pc' # "parse"
    <2>1. PICK origin \in [Loaded -> Loaded] : Arrangement(origin)
      BY <1>3 DEF LoadInv
    <2>2. UsableObjects' = UsableObjects
      BY DEF UsableObjects
    <2>3. Arrangement(origin)'
      BY <1>1, <2>1, <2>2 DEF Arrangement
    <2> QED
      BY <1>1, <1>3, <2>3 DEF LoadInv
  <1> QED
    BY <1>2, <1>3

\* Reading starts with nothing read, ...
LEMMA BeginReads ==
  ASSUME NEW doc \in Documents, LoadBegin(doc)
  PROVE  LoadInv'
  <1>1. doc \in Seq(Objects)
    BY ScenarioAssumption
  <1>2. /\ document' = doc /\ nSteps' = 0
        /\ call' = [pc |-> "parse", i |-> 0, rest |-> doc, appLock |-> FALSE]
    BY DEF LoadBegin, NoCall
  <1>3. SubSeq(doc, 1, Len(doc)) = doc /\ Len(doc) \in Nat
    BY <1>1, SubSeqFull, LenProperties
  <1>4. SubSeq(doc, 1, 0) = <<>>
    BY SubSeqEmpty
  <1>5. Only(SubSeq(doc, 1, 0), Usables) = <<>> /\ Len(<<>>) = 0
    BY <1>4, OnlyEmpty
  <1>6. ReadSoFar(0)'
    <2>1. call'.rest = SubSeq(document', 0 + 1, Len(document'))
      BY <1>2, <1>3
    <2>2. nSteps' = Len(Only(SubSeq(document', 1, 0), Usables))
      BY <1>2, <1>5
    <2>3. Loaded' = {}
      BY <1>2 DEF Loaded
    <2> QED
      BY <2>1, <2>2, <2>3 DEF ReadSoFar
  <1>7. 0 \in 0..Len(document')
    BY <1>2, <1>3
  <1>8. call'.pc = "parse"
    BY <1>2
  <1> QED
    BY <1>6, <1>7, <1>8 DEF LoadInv

\* ... takes one object after the other, ...
LEMMA ObjectReads ==
  ASSUME LoadInv, ScenarioTypes, LoadObject
  PROVE  LoadInv'
  <1>0. /\ steps \in [Index -> Step] /\ nSteps \in 0..MaxSteps /\ document \in Seq(Objects)
        /\ MaxSteps \in Nat
        /\ call \in [pc : {"idle", "parse", "clear"}, i : Nat, rest : Seq(Objects), appLock : BOOLEAN]
    BY Constants DEF ScenarioTypes
  <1>1. /\ call.pc = "parse" /\ call.rest # <<>> /\ nSteps < MaxSteps
        /\ steps' = [steps EXCEPT ![nSteps + 1] = StepOf(Head(call.rest))]
        /\ nSteps' = IF Usable(Head(call.rest)) THEN nSteps + 1 ELSE nSteps
        /\ call' = [call EXCEPT !.rest = Tail(@)]
        /\ document' = document
    BY DEF LoadObject, ghosts
  <1>2. PICK n \in 0..Len(document) : ReadSoFar(n)
    BY <1>1 DEF LoadInv
  <1> DEFINE o == document[n + 1]
             read == Only(SubSeq(document, 1, n), Usables)
             more == Only(SubSeq(document, 1, n + 1), Usables)
  <1>3. /\ call.rest = SubSeq(document, n + 1, Len(document)) /\ nSteps = Len(read)
        /\ \A i \in Loaded : Plan(steps[i]) = StepOf(read[i])
    BY <1>2 DEF ReadSoFar
  <1>4. Len(document) \in Nat /\ n \in Nat /\ n <= Len(document)
    BY <1>0, LenProperties
  <1>5. n < Len(document)
    <2> SUFFICES ASSUME n = Len(document) PROVE FALSE
      BY <1>4
    <2>1. SubSeq(document, n + 1, Len(document)) = <<>>
      BY <1>4, SubSeqEmpty
    <2> QED
      BY <1>1, <1>3, <2>1
  <1>6. /\ n + 1 \in 1..Len(document) /\ Len(document) \in n+1..Len(document)
        /\ n \in 0..Len(document)-1 /\ n + 1 \in 0..Len(document) /\ (n + 1) + 1 = n + 2
    BY <1>4, <1>5
  <1>7. /\ Head(call.rest) = o /\ Tail(call.rest) = SubSeq(document, (n + 1) + 1, Len(document))
    BY <1>0, <1>3, <1>6, HeadTailOfSubSeq
  <1>8. /\ o \in Objects /\ SubSeq(document, 1, n) \in Seq(Objects)
        /\ SubSeq(document, 1, n + 1) = Append(SubSeq(document, 1, n), o)
    BY <1>0, <1>6, BeginningNext
  <1>9. o \in Usables <=> Usable(o)
    BY <1>8 DEF Usables
  <1>10. more = IF o \in Usables THEN Append(read, o) ELSE read
    <2> DEFINE t == SubSeq(document, 1, n)
    <2>1. t \in Seq(Objects) /\ o \in Objects /\ read = Only(t, Usables) /\ more = Only(Append(t, o), Usables)
      BY <1>8
    <2> HIDE DEF t, o, read, more
    <2> QED
      BY <2>1, OnlyAppend
  <1>11. read \in Seq(Objects) /\ Len(read) \in Nat
    BY <1>8, OnlyEmbeds, LenProperties
  <1>12. StepOf(o) \in Step /\ Plan(StepOf(o)) = StepOf(o)
    BY <1>8, StepTyped
  <1> HIDE DEF o, read, more
  <1>13. \A i \in Loaded : steps'[i] = steps[i] /\ i \in 1..Len(read)
    BY <1>0, <1>1, <1>3, <1>11 DEF Loaded, Index
  <1>14. steps'[nSteps + 1] = StepOf(o)
    <2>1. nSteps + 1 \in Index /\ steps \in [Index -> Step]
      BY <1>0, <1>1 DEF Index
    <2> QED
      BY <1>1, <1>7, <2>1
  <1>15. /\ nSteps' = Len(more)
         /\ \A i \in Loaded' : Plan(steps'[i]) = StepOf(more[i])
    <2>1. CASE Usable(o)
      <3>1. more = Append(read, o) /\ nSteps' = nSteps + 1
        BY <1>1, <1>7, <1>9, <1>10, <2>1
      <3>2. Len(more) = Len(read) + 1 /\ more[Len(read) + 1] = o
            /\ \A i \in 1..Len(read) : more[i] = read[i]
        BY <1>8, <1>11, <3>1, AppendProperties
      <3>3. ASSUME NEW i \in Loaded' PROVE Plan(steps'[i]) = StepOf(more[i])
        <4>1. CASE i \in Loaded
          BY <1>3, <1>13, <3>2, <4>1
        <4>2. CASE i = nSteps + 1
          BY <1>3, <1>12, <1>14, <3>2, <4>2
        <4>3. i \in Loaded \/ i = nSteps + 1
          BY <3>1, <1>0 DEF Loaded
        <4> QED
          BY <4>1, <4>2, <4>3
      <3> QED
        BY <1>3, <3>1, <3>2, <3>3
    <2>2. CASE ~Usable(o)
      <3>1. more = read /\ nSteps' = nSteps /\ Loaded' = Loaded
        BY <1>1, <1>7, <1>9, <1>10, <2>2 DEF Loaded
      <3> QED
        BY <1>3, <1>13, <3>1
    <2> QED
      BY <2>1, <2>2
  <1>16. ReadSoFar(n + 1)'
    <2>1. call'.rest = SubSeq(document', (n + 1) + 1, Len(document'))
      BY <1>0, <1>1, <1>7
    <2>2. Only(SubSeq(document', 1, n + 1), Usables) = more
      BY <1>1 DEF more
    <2> QED
      BY <1>15, <2>1, <2>2 DEF ReadSoFar
  <1>17. call'.pc = "parse"
    BY <1>0, <1>1
  <1> QED
    BY <1>1, <1>6, <1>16, <1>17 DEF LoadInv

\* ... and ends with the sort.
LEMMA SortReads ==
  ASSUME LoadInv, ScenarioTypes, LoadSort
  PROVE  LoadInv'
  <1>0. /\ steps \in [Index -> Step] /\ nSteps \in 0..MaxSteps /\ document \in Seq(Objects)
        /\ MaxSteps \in Nat /\ StepTypes
    BY Constants DEF ScenarioTypes, StepTypes
  <1>1. /\ call.pc = "parse" /\ (call.rest = <<>> \/ nSteps >= MaxSteps)
        /\ call' = NoCall /\ document' = document /\ nSteps' = nSteps
    BY DEF LoadSort, ghosts
  <1>2. PICK n \in 0..Len(document) : ReadSoFar(n)
    BY <1>1 DEF LoadInv
  <1> DEFINE read == Only(SubSeq(document, 1, n), Usables)
             u == UsableObjects
  <1>3. /\ call.rest = SubSeq(document, n + 1, Len(document)) /\ nSteps = Len(read)
        /\ \A i \in Loaded : Plan(steps[i]) = StepOf(read[i])
    BY <1>2 DEF ReadSoFar
  <1>4. Len(document) \in Nat /\ n \in Nat /\ n <= Len(document)
    BY <1>0, LenProperties
  <1>5. /\ u = Only(document, Usables) /\ u \in Seq(Objects) /\ Len(u) \in Nat
        /\ \A i \in 1..Len(u) : u[i] \in Objects
    BY <1>0, UsableTyped
  <1>6. Len(read) <= Len(u) /\ \A i \in 1..Len(read) : read[i] = u[i]
    BY <1>0, <1>5, OnlyBeginning
  <1> HIDE DEF read, u
  <1>8. nSteps = IF Len(u) < MaxSteps THEN Len(u) ELSE MaxSteps
    <2>1. CASE call.rest = <<>>
      <3>1. read = u
        <4>1. n = Len(document)
          <5> SUFFICES ASSUME n < Len(document) PROVE FALSE
            BY <1>4
          <5>1. /\ n + 1 \in Int /\ Len(document) \in Int /\ n + 1 <= Len(document)
                /\ \A i \in n+1..Len(document) : document[i] \in Objects
            BY <1>0, <1>4, LenProperties
          <5>2. Len(SubSeq(document, n + 1, Len(document))) = Len(document) - (n + 1) + 1
            BY <5>1, SubSeqProperties
          <5>3. Len(<<>>) = 0
            OBVIOUS
          <5> QED
            BY <1>3, <1>4, <2>1, <5>2, <5>3
        <4>2. SubSeq(document, 1, n) = document
          BY <1>0, <4>1, SubSeqFull
        <4> QED
          BY <1>5, <4>2 DEF read
      <3> QED
        BY <1>0, <1>3, <1>5, <3>1
    <2>2. CASE nSteps >= MaxSteps
      BY <1>0, <1>3, <1>5, <1>6, <2>2
    <2> QED
      BY <1>1, <2>1, <2>2
  <1>9. \A i \in Loaded : /\ i \in Index /\ u[i] \in Objects /\ Plan(steps[i]) = StepOf(u[i])
                          /\ SortKey(steps[i]) = KeyOf(u[i])
    <2> TAKE i \in Loaded
    <2>1. i \in 1..Len(read) /\ i \in 1..Len(u) /\ i \in Index
      BY <1>0, <1>3, <1>5, <1>6 DEF Loaded, Index
    <2>2. u[i] \in Objects /\ Plan(steps[i]) = StepOf(u[i]) /\ steps[i] \in Step
      BY <1>0, <1>3, <1>5, <1>6, <2>1
    <2>3. StepOf(u[i]) \in Step /\ Plan(StepOf(u[i])) = StepOf(u[i])
      BY <2>2, StepTyped
    <2>4. SortKey(steps[i]) = SortKey(StepOf(u[i]))
      BY <2>2, <2>3, PlanKept
    <2> QED
      BY <2>1, <2>2, <2>4 DEF KeyOf
  <1>10. PICK o : Orders(o, steps, nSteps) /\ \A p \in Loaded : steps'[p] = steps[o[p]]
    BY <1>0, SortIs
  <1>11. /\ o \in [Loaded -> Loaded]
         /\ \A i \in Loaded : \E p \in Loaded : o[p] = i
         /\ \A p, q \in Loaded : p < q => Precedes(steps, o[p], o[q])
    BY <1>10 DEF Orders, Loaded
  <1>12. \A p, q \in Loaded : p < q => Before(u, o[p], o[q])
    BY <1>9, <1>11 DEF Precedes, Before
  <1>13. \A p \in Loaded : Plan(steps'[p]) = StepOf(u[o[p]])
    BY <1>9, <1>10, <1>11
  <1>14. Loaded' = Loaded /\ UsableObjects' = u
    BY <1>1 DEF Loaded, UsableObjects, u
  <1>15. Arrangement(o)'
    BY <1>1, <1>8, <1>11, <1>12, <1>13, <1>14 DEF Arrangement
  <1>16. call'.pc = "idle"
    BY <1>1 DEF NoCall
  <1> QED
    BY <1>11, <1>14, <1>15, <1>16 DEF LoadInv

\* Every action keeps the table of steps what the document makes of it.
LEMMA LoadKept ==
  ASSUME LoadInv, ScenarioTypes, StepsSound, [ScenarioNext]_scenarioVars
  PROVE  LoadInv'
  <1>0. StepTypes /\ CallTypes /\ TickTypes /\ Loaded \subseteq Index
    BY Constants, TypesParts DEF Loaded, Index, StepTypes
  <1> USE DEF player, app, clock, ghosts
  <1>1. CASE StartBegin \/ CaptureStart
    <2>1. call.pc = "idle" /\ UNCHANGED <<steps, nSteps, document>>
      BY <1>1 DEF StartBegin, CaptureStart, MayCall
    <2>2. call'.pc \in {"idle", "clear"}
      <3>1. PICK locked \in BOOLEAN : Begin(locked)
        BY <1>1 DEF StartBegin, CaptureStart
      <3>2. call' = NoCall \/ call' = [pc |-> "clear", i |-> 1, rest |-> <<>>, appLock |-> locked]
        BY <3>1 DEF Begin, NoCall
      <3> QED
        BY <3>2 DEF NoCall
    <2> QED
      BY <1>0, <2>1, <2>2, PlansKept
  <1>2. CASE StartClear
    <2> DEFINE i == call.i
    <2>1. /\ call.pc = "clear" /\ i \in Index /\ UNCHANGED <<nSteps, document>>
      BY <1>0, <1>2 DEF StartClear, CallTypes
    <2>2. steps' = [steps EXCEPT ![i] = Cleared(steps[i])]
      BY <1>2, Zenon DEF StartClear, Cleared
    <2>3. \A j \in Index : Plan(steps'[j]) = Plan(steps[j])
      <3>1. Plan(Cleared(steps[i])) = Plan(steps[i])
        BY <1>0, <2>1, ClearedIs DEF StepTypes
      <3> QED
        BY <1>0, <2>1, <2>2, <3>1 DEF StepTypes
    <2>4. call'.pc \in {"idle", "clear"}
      <3>1. call' = NoCall \/ call' = [call EXCEPT !.i = @ + 1]
        BY <1>2 DEF StartClear
      <3> QED
        BY <1>0, <2>1, <3>1 DEF CallTypes, NoCall
    <2> QED
      BY <1>0, <2>1, <2>3, <2>4, PlansKept
  <1>3. CASE TickFire
    <2> DEFINE i == tick.i
    <2>1. i \in Index /\ UNCHANGED <<nSteps, document, call>> /\ ~steps[i].done
      BY <1>0, <1>3, Constants DEF TickFire, InLoop, TickTypes, StepTypes, Index
    <2>2. steps' = [steps EXCEPT ![i] = Fire(steps[i])]
      BY <1>3, Zenon DEF TickFire, Fire
    <2>3. \A j \in Index : Plan(steps'[j]) = Plan(steps[j])
      <3>1. steps[i] \in Step /\ StepSound(steps[i]) /\ tick.now \in 0..Wrap-1
        BY <1>0, <2>1 DEF StepTypes, StepsSound, TickTypes
      <3>2. Plan(Fire(steps[i])) = Plan(steps[i])
        BY <2>1, <3>1, FireIs
      <3> QED
        BY <1>0, <2>1, <2>2, <3>2 DEF StepTypes
    <2> QED
      BY <1>0, <2>1, <2>3, PlansKept
  <1>4. CASE \/ Stop \/ CaptureStop \/ TickBegin \/ TickSkip \/ TickEnd \/ Packet \/ Elapse
             \/ UNCHANGED scenarioVars
    <2>1. UNCHANGED <<steps, nSteps, document, call>>
      BY <1>4 DEF Stop, CaptureStop, TickBegin, TickSkip, TickEnd, Packet, Elapse, scenarioVars
    <2> QED
      BY <1>0, <2>1, PlansKept
  <1>5. CASE \/ (\E doc \in Documents : LoadBegin(doc)) \/ LoadObject \/ LoadSort
    BY <1>5, BeginReads, ObjectReads, SortReads
  <1> QED
    BY <1>1, <1>2, <1>3, <1>4, <1>5 DEF ScenarioNext, Calling, ScenarioTick

------------------------------------------------------------------------------
(* What a play keeps whose load and start no tick overlapped.               *)

\* The steps in the order of their keys, each for a parameter there is.
LEMMA Arranged ==
  ASSUME LoadInv, ScenarioTypes, call.pc # "parse"
  PROVE  /\ \A i \in Loaded : /\ i \in Index /\ steps[i] \in Step /\ steps[i].key \in Keys
                              /\ \E o \in Objects : steps[i].repeat = o.repeat
         /\ \A i, j \in Loaded : i < j /\ Timed(i) /\ Timed(j) => steps[i].at <= steps[j].at
  <1>1. PICK origin \in [Loaded -> Loaded] : Arrangement(origin)
    BY DEF LoadInv
  <1> DEFINE u == UsableObjects
  <1>2. /\ steps \in [Index -> Step] /\ Loaded \subseteq Index /\ document \in Seq(Objects)
        /\ nSteps \in Nat /\ MaxSteps \in Nat
    BY Constants DEF ScenarioTypes, Loaded, Index
  <1>3. Len(u) \in Nat /\ \A i \in 1..Len(u) : u[i] \in Objects
    BY <1>2, UsableTyped
  <1> HIDE DEF u
  <1>4. nSteps <= Len(u)
    BY <1>1, <1>2, <1>3 DEF Arrangement, u
  <1>5. \A p \in Loaded :
          /\ steps[p] \in Step /\ origin[p] \in Loaded /\ u[origin[p]] \in Objects
          /\ Plan(steps[p]) = StepOf(u[origin[p]])
    <2> TAKE p \in Loaded
    <2>1. origin[p] \in Loaded /\ steps[p] \in Step /\ Plan(steps[p]) = StepOf(u[origin[p]])
      BY <1>1, <1>2 DEF Arrangement, u
    <2>2. \A i \in Loaded : i \in 1..Len(u)
      BY <1>2, <1>3, <1>4 DEF Loaded
    <2> QED
      BY <1>3, <2>1, <2>2
  <1>6. \A p \in Loaded :
          /\ steps[p].key \in Keys /\ steps[p].repeat = u[origin[p]].repeat
          /\ SortKey(steps[p]) = KeyOf(u[origin[p]]) /\ KeyOf(u[origin[p]]) \in Int
    <2> TAKE p \in Loaded
    <2> DEFINE o == u[origin[p]]
               s == steps[p]
               t == StepOf(o)
    <2>1. s \in Step /\ o \in Objects /\ Plan(s) = t
      BY <1>5
    <2>2. t \in Step /\ Plan(t) = t /\ t.key \in Keys /\ t.repeat = o.repeat
          /\ SortKey(t) = KeyOf(o) /\ KeyOf(o) \in Int
      BY <2>1, StepTyped DEF KeyOf
    <2> HIDE DEF s, t
    <2>3. Alike(s, t) /\ SortKey(s) = SortKey(t)
      BY <2>1, <2>2, PlanKept
    <2>4. s.key \in Keys /\ s.repeat = o.repeat /\ SortKey(s) = KeyOf(o)
      BY <2>2, <2>3 DEF Alike
    <2> QED
      BY <2>2, <2>4 DEF s
  <1>7. \A p, q \in Loaded : p < q => Before(u, origin[p], origin[q])
    BY <1>1 DEF Arrangement, u
  <1>8. ASSUME NEW i \in Loaded, NEW j \in Loaded, i < j, Timed(i), Timed(j)
        PROVE  steps[i].at <= steps[j].at
    <2>1. Before(u, origin[i], origin[j])
      BY <1>7, <1>8
    <2>2. KeyOf(u[origin[i]]) <= KeyOf(u[origin[j]])
      BY <1>6, <2>1 DEF Before
    <2>3. KeyOf(u[origin[i]]) = steps[i].at /\ KeyOf(u[origin[j]]) = steps[j].at
      BY <1>6, <1>8 DEF Timed, SortKey
    <2> QED
      BY <2>2, <2>3
  <1> QED
    BY <1>2, <1>5, <1>6, <1>8

\* What only holds of steps that were fired holds while none was.
LEMMA NoneFired ==
  (\A i \in Loaded : ~Fired(i)) => FrontFirst /\ LastSet
  BY DEF FrontFirst, LastSet

\* A document is read while nothing is played, and leaves nothing played.
LEMMA LoadsUnplayed ==
  ASSUME ~overlapped', ~overlapped => PlayInv, ScenarioTypes,
         (\E doc \in Documents : LoadBegin(doc)) \/ LoadObject \/ LoadSort
  PROVE  /\ tick' = tick /\ started' = -1 /\ tick.pc = "idle" /\ call'.pc \in {"parse", "idle"}
         /\ \A i \in Loaded' : steps'[i].fireCount = 0
  <1> USE DEF player, app, clock, ghosts
  <1>0. /\ StepTypes /\ CallTypes /\ TickTypes /\ Loaded \subseteq Index
    BY Constants, TypesParts DEF Loaded, Index, StepTypes
  <1>1. ASSUME LoadObject \/ LoadSort
        PROVE  /\ call.pc = "parse" /\ tick.pc = "idle" /\ started = -1
               /\ \A i \in Loaded : steps[i].fireCount = 0
    <2>1. PlayInv /\ call.pc = "parse"
      BY <1>1 DEF LoadObject, LoadSort
    <2> QED
      BY <1>0, <2>1 DEF PlayInv, Apart, TickTypes
  <1>2. ASSUME NEW doc \in Documents, LoadBegin(doc)
        PROVE  /\ tick' = tick /\ started' = -1 /\ tick.pc = "idle" /\ call'.pc = "parse"
               /\ Loaded' = {}
    <2>1. /\ tick' = tick /\ started' = -1 /\ tick.pc = "idle" /\ nSteps' = 0
          /\ call' = [NoCall EXCEPT !.pc = "parse", !.rest = doc]
      BY <1>2, Zenon DEF LoadBegin
    <2>2. call' = [pc |-> "parse", i |-> 0, rest |-> doc, appLock |-> FALSE]
      BY <2>1 DEF NoCall
    <2> QED
      BY <2>1, <2>2 DEF Loaded
  <1>3. CASE LoadObject
    <2> DEFINE o == Head(call.rest)
    <2>1. /\ tick' = tick /\ started' = started /\ call.pc = "parse" /\ call.rest # <<>>
          /\ call' = [call EXCEPT !.rest = Tail(@)] /\ nSteps + 1 \in Index
          /\ steps' = [steps EXCEPT ![nSteps + 1] = StepOf(o)]
          /\ nSteps' \in {nSteps, nSteps + 1}
      BY <1>0, <1>3, Constants DEF LoadObject, StepTypes, Index
    <2>2. o \in Objects
      BY <1>0, <2>1, HeadTailProperties DEF CallTypes
    <2>3. StepOf(o).fireCount = 0
      BY <2>2, StepTyped
    <2> HIDE DEF o
    <2>4. \A i \in Loaded : steps[i].fireCount = 0
      BY <1>1, <1>3
    <2>5. \A i \in Loaded' : i = nSteps + 1 \/ i \in Loaded
      <3>1. nSteps \in Nat /\ nSteps' \in {nSteps, nSteps + 1}
        BY <1>0, <2>1, Constants DEF StepTypes
      <3> QED
        BY ONLY <3>1 DEF Loaded
    <2>6. \A i \in Loaded' : steps'[i].fireCount = 0
      BY <1>0, <2>1, <2>3, <2>4, <2>5 DEF StepTypes
    <2>7. call'.pc = "parse" /\ tick.pc = "idle"
      BY <1>0, <1>1, <1>3, <2>1 DEF CallTypes
    <2> QED
      BY <1>1, <1>3, <2>1, <2>6, <2>7
  <1>4. CASE LoadSort
    <2>1. /\ tick' = tick /\ started' = started /\ call.pc = "parse" /\ call' = NoCall
      BY <1>4 DEF LoadSort
    <2>2. nSteps' = nSteps
      BY <1>0, <1>4, SortIs
    <2>3. PICK p : Orders(p, steps, nSteps) /\ \A i \in Loaded : steps'[i] = steps[p[i]]
      BY <1>0, <1>4, SortIs
    <2>4. \A i \in Loaded : p[i] \in Loaded /\ steps[p[i]].fireCount = 0
      BY <1>1, <1>4, <2>3 DEF Orders, Loaded
    <2>5. \A i \in Loaded' : steps'[i].fireCount = 0
      BY <2>2, <2>3, <2>4 DEF Loaded
    <2>6. call'.pc = "idle" /\ tick.pc = "idle"
      BY <1>1, <1>4, <2>1 DEF NoCall
    <2> QED
      BY <1>1, <1>4, <2>1, <2>5, <2>6
  <1> QED
    BY <1>2, <1>3, <1>4

LEMMA LoadPlays ==
  ASSUME ~overlapped', ~overlapped => PlayInv, ScenarioTypes,
         (\E doc \in Documents : LoadBegin(doc)) \/ LoadObject \/ LoadSort
  PROVE  PlayInv'
  <1>2. /\ tick' = tick /\ started' = -1 /\ tick.pc = "idle" /\ call'.pc \in {"parse", "idle"}
        /\ \A i \in Loaded' : steps'[i].fireCount = 0
    BY LoadsUnplayed
  <1>3. \A i \in Loaded' : ~Fired(i)'
    BY <1>2 DEF Fired
  <1>4. FrontFirst' /\ LastSet'
    BY <1>3, NoneFired DEF FrontFirst, LastSet
  <1>5. Apart'
    BY <1>2 DEF Apart
  <1>6. Passed'
    BY <1>2 DEF Passed
  <1>7. Completed'
    BY <1>2 DEF Completed
  <1> QED
    BY <1>4, <1>5, <1>6, <1>7 DEF PlayInv

\* A start clears the steps from the first to the last.
LEMMA StartPlays ==
  ASSUME ~overlapped', ~overlapped => PlayInv, ScenarioTypes, StartBegin \/ CaptureStart \/ StartClear
  PROVE  PlayInv'
  <1> USE DEF player, app, clock, ghosts
  <1>0. /\ StepTypes /\ CallTypes /\ TickTypes /\ Loaded \subseteq Index /\ nSteps \in Nat
    BY Constants, TypesParts DEF Loaded, Index, StepTypes
  <1>1. CASE StartBegin \/ CaptureStart
    <2>1. /\ call.pc = "idle" /\ (tick.pc = "idle" \/ nSteps > 0)
          /\ UNCHANGED <<steps, nSteps, settings, tick, clock, document>>
      BY <1>1 DEF StartBegin, CaptureStart, MayCall
    <2>2. PICK locked \in BOOLEAN : Begin(locked)
      BY <1>1 DEF StartBegin, CaptureStart
    <2>3. CASE nSteps = 0
      <3>1. /\ Loaded' = {} /\ tick'.pc = "idle" /\ call'.pc = "idle"
        BY <1>0, <2>1, <2>2, <2>3 DEF Begin, NoCall, Loaded
      <3> QED
        BY <3>1 DEF PlayInv, Apart, FrontFirst, Passed, LastSet, Completed
    <2>4. CASE nSteps # 0
      <3>1. /\ active' = TRUE /\ started' = time
            /\ call' = [pc |-> "clear", i |-> 1, rest |-> <<>>, appLock |-> locked]
            /\ tick.pc = "idle"
        BY <2>2, <2>4 DEF Begin, NoCall
      <3>2. call'.pc = "clear" /\ call'.i = 1 /\ tick'.pc = "idle" /\ time' = time /\ Loaded' = Loaded
        BY <2>1, <3>1 DEF Loaded
      <3>3. Apart' /\ FrontFirst' /\ Passed' /\ LastSet' /\ Completed'
        BY <3>1, <3>2 DEF Apart, FrontFirst, Passed, LastSet, Completed
      <3> QED
        BY <3>3 DEF PlayInv
    <2> QED
      BY <2>3, <2>4
  <1>2. CASE StartClear
    <2> DEFINE c == call.i
    <2>1. /\ call.pc = "clear" /\ c \in Loaded /\ c \in 1..nSteps
          /\ call' = IF c < nSteps THEN [call EXCEPT !.i = @ + 1] ELSE NoCall
          /\ UNCHANGED <<nSteps, active, startMs, settings, tick, time, started>>
          /\ PlayInv
      BY <1>0, <1>2 DEF StartClear, CallTypes, Loaded
    <2>2. steps' = [steps EXCEPT ![c] = Cleared(steps[c])]
      BY <1>2, Zenon DEF StartClear, Cleared
    <2>3. /\ active /\ started = time /\ \A i \in 1..c-1 : steps[i].fireCount = 0
          /\ tick.pc = "idle"
      BY <1>0, <2>1 DEF PlayInv, Apart, TickTypes
    <2>4. /\ c \in Index /\ steps[c] \in Step /\ steps'[c].fireCount = 0
          /\ Plan(steps'[c]) = Plan(steps[c]) /\ steps'[c] \in Step
      BY <1>0, <2>1, <2>2, ClearedIs DEF StepTypes
    <2>6. \A i \in Loaded : i # c => steps'[i] = steps[i]
      BY <1>0, <2>2 DEF StepTypes
    <2>7. \A i \in 1..c : i \in Loaded /\ steps'[i].fireCount = 0
      <3> TAKE i \in 1..c
      <3>1. i \in Loaded /\ (i = c \/ i \in 1..c-1)
        <4>1. c \in 1..nSteps /\ nSteps \in Nat
          BY <1>0, <2>1
        <4> HIDE DEF c
        <4> QED
          BY <4>1 DEF Loaded
      <3> QED
        BY <2>3, <2>4, <2>6, <3>1
    <2>8. Loaded' = Loaded /\ tick'.pc = "idle" /\ active' /\ started' = time'
      BY <2>1, <2>3 DEF Loaded
    <2>9. \/ c < nSteps /\ call'.pc = "clear" /\ call'.i = c + 1
          \/ c = nSteps /\ call'.pc = "idle"
      <3>1. CASE c < nSteps
        BY <1>0, <2>1, <3>1 DEF CallTypes
      <3>2. CASE ~(c < nSteps)
        BY <1>0, <2>1, <3>2 DEF NoCall
      <3> QED
        BY <3>1, <3>2
    <2>10. Apart'
      <3>1. call'.pc = "clear" => \A i \in 1..call'.i-1 : steps'[i].fireCount = 0
        <4> SUFFICES ASSUME call'.pc = "clear" PROVE \A i \in 1..call'.i-1 : steps'[i].fireCount = 0
          OBVIOUS
        <4>1. call'.i = c + 1 /\ (c + 1) - 1 = c
          BY <2>1, <2>9
        <4> QED
          BY <2>7, <4>1
      <3> QED
        BY <2>8, <2>9, <3>1 DEF Apart
    <2>11. FrontFirst' /\ LastSet' /\ Completed' /\ Passed'
      <3>1. call'.pc # "clear" => \A i \in Loaded' : steps'[i].fireCount = 0
        BY <2>7, <2>8, <2>9 DEF Loaded
      <3>2. FrontFirst' /\ LastSet'
        BY <3>1 DEF FrontFirst, LastSet, Fired
      <3> QED
        BY <2>8, <3>2 DEF Completed, Passed
    <2> QED
      BY <2>10, <2>11 DEF PlayInv
  <1> QED
    BY <1>1, <1>2

\* Where a tick stands: in no call, and at a step that is to be fired if it is
\* neither spent nor waiting for its time.
LEMMA AtStep ==
  ASSUME Apart, ScenarioTypes, StepsSound, InLoop
  PROVE  LET i == tick.i
         IN /\ call.pc = "idle" /\ (active \/ started = -1) /\ tick.now = Clock
            /\ i \in Loaded /\ i \in 1..nSteps /\ nSteps \in Nat /\ i \in Index
            /\ steps[i] \in Step /\ StepSound(steps[i])
            /\ \A k \in 1..i : k \in 1..i-1 \/ k = i
            /\ \A k \in 1..i-1 : k \in Loaded /\ k < i /\ k \in Index
            /\ steps[i].done => Fired(i)
            /\ ~Due(steps[i]) /\ Timed(i) /\ steps[i].at <= Elapsed => Fired(i)
            /\ Due(steps[i]) /\ Timed(i) /\ ~Fired(i) => steps[i].at <= Elapsed
  <1> DEFINE i == tick.i
  <1>1. StepTypes /\ TickTypes
    BY TypesParts
  <1>2. tick.pc = "loop" /\ i <= nSteps
    BY DEF InLoop
  <1>3. /\ i \in 1..nSteps /\ nSteps \in Nat /\ i \in Index
    BY <1>1, <1>2, Constants DEF TickTypes, StepTypes, Index
  <1>4. steps[i] \in Step /\ StepSound(steps[i])
    BY <1>1, <1>3 DEF StepTypes, StepsSound
  <1>5. nSteps <= MaxSteps /\ MaxSteps \in Nat
    BY <1>1, Constants DEF StepTypes
  <1>6. call.pc = "idle" /\ (active \/ started = -1) /\ tick.now = Clock
    BY <1>2 DEF Apart
  <1>7. /\ \A k \in 1..i : k \in 1..i-1 \/ k = i
        /\ \A k \in 1..i-1 : k \in Loaded /\ k < i /\ k \in Index
    <2> HIDE DEF i
    <2> QED
      BY <1>3, <1>5 DEF Loaded, Index
  <1>8. /\ steps[i].done => Fired(i)
        /\ ~Due(steps[i]) /\ Timed(i) /\ steps[i].at <= Elapsed => Fired(i)
        /\ Due(steps[i]) /\ Timed(i) /\ ~Fired(i) => steps[i].at <= Elapsed
    BY <1>4 DEF StepSound, Fired, Timed, Due, Elapsed
  <1> QED
    BY <1>3, <1>4, <1>6, <1>7, <1>8 DEF Loaded

\* A tick goes through the steps and fires those that are due.
LEMMA TickPlays ==
  ASSUME ~overlapped', ~overlapped => PlayInv, LoadInv, ScenarioTypes, StepsSound, ScenarioTick
  PROVE  PlayInv'
  <1> USE DEF player, app, clock, ghosts
  <1>0. /\ StepTypes /\ CallTypes /\ TickTypes /\ Loaded \subseteq Index /\ nSteps \in Nat
        /\ Apart /\ FrontFirst /\ Passed /\ LastSet /\ Completed
    <2>1. ~overlapped
      BY DEF ScenarioTick, TickBegin, TickSkip, TickFire, TickEnd
    <2> QED
      BY <2>1, Constants, TypesParts DEF Loaded, Index, StepTypes, PlayInv
  <1>1. CASE TickBegin
    <2>1. /\ UNCHANGED <<steps, nSteps, active, startMs, settings, call, time, started>>
          /\ call.pc = "idle" /\ active /\ nSteps > 0
          /\ tick' = [pc |-> "loop", i |-> 1, now |-> Clock, elapsed |-> Since(Clock, startMs),
                      remaining |-> 0]
      BY <1>1 DEF TickBegin
    <2>2. Clock' = Clock /\ Loaded' = Loaded /\ Since(Clock, startMs)' = Since(Clock, startMs)
      BY <2>1 DEF Clock, Loaded, Since
    <2>3. Apart'
      BY <1>0, <2>1, <2>2 DEF Apart
    <2>4. FrontFirst' /\ LastSet' /\ Completed'
      BY <1>0, <2>1, <2>2 DEF FrontFirst, LastSet, Plain, Timed, Fired, Completed
    <2>5. Passed'
      <3>1. tick'.i = 1 /\ 1..1-1 = {}
        BY <2>1
      <3> QED
        BY <3>1 DEF Passed
    <2> QED
      BY <2>3, <2>4, <2>5 DEF PlayInv
  <1>2. CASE TickSkip
    <2> DEFINE i == tick.i
    <2>1. /\ InLoop /\ tick.pc = "loop"
          /\ steps[i].done \/ ~Due(steps[i])
          /\ UNCHANGED <<steps, nSteps, active, startMs, settings, call, time, started>>
      BY <1>2 DEF TickSkip, InLoop
    <2>2. tick' = ToNext(tick, steps[i].done)
      BY <1>2, Zenon DEF TickSkip, ToNext
    <2>3. /\ call.pc = "idle" /\ (active \/ started = -1) /\ tick.now = Clock
          /\ i \in 1..nSteps /\ i \in Loaded /\ \A k \in 1..i : k \in 1..i-1 \/ k = i
      BY <1>0, <2>1, AtStep
    <2>4. /\ steps[i].done => Fired(i)
          /\ ~Due(steps[i]) /\ Timed(i) /\ steps[i].at <= Elapsed => Fired(i)
      BY <1>0, <2>1, AtStep
    <2>5. /\ tick'.pc = "loop" /\ tick'.i = i + 1 /\ tick'.now = tick.now /\ tick'.elapsed = tick.elapsed
          /\ tick'.remaining = IF steps[i].done THEN tick.remaining ELSE tick.remaining + 1
      BY <1>0, <2>1, <2>2, ToNextIs DEF InLoop
    <2>6. /\ Clock' = Clock /\ Loaded' = Loaded /\ Elapsed' = Elapsed
          /\ Since(Clock, startMs)' = Since(Clock, startMs) /\ tick.elapsed = Since(Clock, startMs)
      BY <1>0, <2>1, <2>5 DEF Clock, Loaded, Elapsed, Since, Apart
    <2>7. Apart'
      BY <1>0, <2>1, <2>3, <2>5, <2>6 DEF Apart
    <2>8. FrontFirst' /\ LastSet' /\ Completed'
      BY <1>0, <2>1, <2>6 DEF FrontFirst, LastSet, Plain, Timed, Fired, Completed
    <2>9. \A k \in 1..i-1 : (Timed(k) /\ steps[k].at <= Elapsed => Fired(k))
                            /\ (tick.remaining = 0 => steps[k].done)
      BY <1>0, <2>1 DEF Passed
    <2>10. tick'.remaining = 0 => tick.remaining = 0 /\ steps[i].done
      BY <1>0, <2>5 DEF TickTypes
    <2>11. \A k \in 1..i : (Timed(k) /\ steps[k].at <= Elapsed => Fired(k))
                           /\ (tick'.remaining = 0 => steps[k].done)
      BY <2>1, <2>3, <2>4, <2>9, <2>10
    <2>12. tick'.i - 1 = i
      BY <1>0, <2>3, <2>5
    <2>13. Passed'
      BY <2>1, <2>6, <2>11, <2>12 DEF Passed, Timed, Fired
    <2> QED
      BY <2>7, <2>8, <2>13 DEF PlayInv
  <1>3. CASE TickFire
    <2>0. PICK i : i = tick.i
      OBVIOUS
    <2> DEFINE s == Fire(steps[i])
    <2>1. /\ InLoop /\ tick.pc = "loop" /\ ~steps[i].done /\ Due(steps[i])
          /\ UNCHANGED <<nSteps, active, startMs, call, time, started>>
      BY <1>3, <2>0 DEF TickFire, InLoop
    <2>2. /\ settings' = [settings EXCEPT ![s.key] = s.set]
          /\ steps' = [steps EXCEPT ![i] = s]
          /\ tick' = ToNext(tick, s.done)
      BY <1>3, <2>0, Zenon DEF TickFire, Fire, ToNext
    <2>3. /\ call.pc = "idle" /\ (active \/ started = -1) /\ tick.now = Clock
          /\ i \in Index /\ steps[i] \in Step /\ StepSound(steps[i])
          /\ i \in 1..nSteps /\ i \in Loaded
          /\ \A k \in 1..i : k \in 1..i-1 \/ k = i
          /\ \A k \in 1..i-1 : k \in Loaded /\ k < i
      BY <1>0, <2>0, <2>1, AtStep
    <2>4. Due(steps[i]) /\ Timed(i) /\ ~Fired(i) => steps[i].at <= Elapsed
      BY <1>0, <2>0, <2>1, AtStep
    <2>5. /\ s \in Step /\ Plan(s) = Plan(steps[i]) /\ s.fireCount = steps[i].fireCount + 1
          /\ s.fireCount > 0
      <3>1. tick.now \in 0..Wrap-1
        BY <1>0 DEF TickTypes
      <3> QED
        BY <2>1, <2>3, <3>1, FireIs, StepFields
    <2>6. Alike(s, steps[i])
      BY <2>3, <2>5, PlanKept
    <2> HIDE DEF s
    <2>7. /\ tick'.pc = "loop" /\ tick'.i = i + 1 /\ tick'.now = tick.now /\ tick'.elapsed = tick.elapsed
          /\ tick'.remaining = IF s.done THEN tick.remaining ELSE tick.remaining + 1
      BY <1>0, <2>0, <2>1, <2>2, ToNextIs DEF InLoop
    <2>8. /\ Clock' = Clock /\ Loaded' = Loaded /\ Elapsed' = Elapsed
          /\ Since(Clock, startMs)' = Since(Clock, startMs) /\ tick.elapsed = Since(Clock, startMs)
      BY <1>0, <2>1, <2>7 DEF Clock, Loaded, Elapsed, Since, Apart
    <2>9. /\ steps'[i] = s /\ Fired(i)'
          /\ \A k \in Loaded : k # i => steps'[k] = steps[k]
      BY <1>0, <2>2, <2>3, <2>5 DEF StepTypes, Fired
    <2>10. /\ \A k \in Loaded : Alike(steps'[k], steps[k])
           /\ \A k \in Loaded : k # i => (Fired(k)' <=> Fired(k))
           /\ \A k \in Loaded : Fired(k) => Fired(k)'
      BY <2>6, <2>9 DEF Alike, Fired
    <2>11. Apart'
      BY <1>0, <2>0, <2>1, <2>3, <2>7, <2>8 DEF Apart
    <2>12. \A k \in 1..i-1 : (Timed(k) /\ steps[k].at <= Elapsed => Fired(k))
                             /\ (tick.remaining = 0 => steps[k].done)
      BY <1>0, <2>0, <2>1 DEF Passed
    <2>13. \A k \in Loaded : k < i /\ Timed(k) /\ Timed(i) => Fired(k)
      <3> SUFFICES ASSUME NEW k \in Loaded, k < i, Timed(k), Timed(i) PROVE Fired(k)
        OBVIOUS
      <3>1. CASE Fired(i)
        BY <1>0, <2>3, <3>1 DEF FrontFirst
      <3>2. CASE ~Fired(i)
        <4>1. steps[k].at <= steps[i].at /\ steps[k] \in Step
          BY <2>3, Arranged
        <4>2. steps[i].at <= Elapsed
          BY <2>1, <2>4, <3>2
        <4>3. k \in 1..i-1
          BY <2>3 DEF Loaded
        <4>4. Elapsed \in Int
          <5>1. tick.elapsed \in Int
            BY <1>0 DEF TickTypes
          <5> QED
            BY <5>1, Constants DEF Elapsed
        <4>5. steps[k].at \in Int /\ steps[i].at \in Int
          BY <2>3, <4>1, StepFields
        <4>6. steps[k].at <= Elapsed
          BY <4>1, <4>2, <4>4, <4>5
        <4> QED
          BY <2>12, <4>3, <4>6
      <3> QED
        BY <3>1, <3>2
    <2>14. FrontFirst'
      <3> SUFFICES ASSUME NEW k \in Loaded, NEW j \in Loaded, k < j, Timed(k)', Timed(j)', Fired(j)'
                   PROVE  Fired(k)'
        BY <2>8 DEF FrontFirst
      <3>1. Timed(k) /\ Timed(j)
        BY <2>10 DEF Alike, Timed
      <3>2. CASE j = i
        BY <2>10, <2>13, <3>1, <3>2
      <3>3. CASE j # i
        <4>1. Fired(j)
          BY <2>10, <3>3
        <4>2. Fired(k)
          BY <1>0, <2>3, <3>1, <4>1 DEF FrontFirst
        <4> QED
          BY <2>10, <4>2
      <3> QED
        BY <3>2, <3>3
    <2>15. Passed'
      <3>1. tick'.remaining = 0 => tick.remaining = 0 /\ s.done
        BY <1>0, <2>7 DEF TickTypes
      <3>2. tick'.i - 1 = i
        BY <1>0, <2>3, <2>7
      <3>3. ASSUME NEW k \in 1..i
            PROVE  (Timed(k)' /\ steps'[k].at <= Elapsed' => Fired(k)') /\ (tick'.remaining = 0 => steps'[k].done)
        <4>1. CASE k = i
          BY <2>9, <3>1, <4>1
        <4>2. CASE k \in 1..i-1
          <5>1. k \in Loaded /\ k # i
            BY <2>3, <4>2
          <5>2. steps'[k] = steps[k]
            BY <2>9, <5>1
          <5> QED
            BY <2>8, <2>12, <3>1, <4>2, <5>2 DEF Timed, Fired
        <4> QED
          BY <2>3, <4>1, <4>2
      <3> QED
        BY <3>2, <3>3 DEF Passed
    <2>16. LastSet'
      <3> SUFFICES ASSUME Plain', NEW m \in Loaded, Fired(m)',
                          \A j \in Loaded : j > m /\ steps'[j].key = steps'[m].key => ~Fired(j)'
                   PROVE  settings'[steps'[m].key] = steps'[m].set
        BY <2>8 DEF LastSet
      <3>1. Plain
        BY <2>8, <2>10 DEF Plain, Timed, Alike
      <3>2. s.key \in Keys /\ s.key = steps[i].key
        <4>1. steps[i].key \in Keys
          BY <2>3, Arranged
        <4> QED
          BY <2>6, <4>1 DEF Alike
      <3>3. settings \in [Keys -> Values \cup {Unset}]
        BY DEF ScenarioTypes
      <3>4. steps[m].key \in Keys
        BY <2>3, Arranged
      <3>5. CASE m = i
        BY <2>2, <2>9, <3>2, <3>3, <3>5
      <3>6. CASE m # i
        <4>1. steps'[m] = steps[m] /\ Fired(m)
          BY <2>9, <2>10, <3>6
        <4>2. CASE steps[m].key # steps[i].key
          <5>1. \A j \in Loaded : j > m /\ steps[j].key = steps[m].key => ~Fired(j)
            <6> SUFFICES ASSUME NEW j \in Loaded, j > m, steps[j].key = steps[m].key
                         PROVE  ~Fired(j)
              OBVIOUS
            <6>1. j # i
              BY <4>2
            <6>2. steps'[j] = steps[j]
              BY <2>9, <6>1
            <6> QED
              BY <2>10, <4>1, <6>1, <6>2
          <5>2. settings[steps[m].key] = steps[m].set
            BY <1>0, <2>3, <3>1, <4>1, <5>1 DEF LastSet
          <5> QED
            BY <2>2, <3>2, <3>3, <3>4, <4>1, <4>2, <5>2
        <4>3. CASE steps[m].key = steps[i].key /\ m < i
          <5>1. steps'[i].key = steps'[m].key
            BY <2>9, <3>2, <4>1, <4>3
          <5>2. i > m
            BY <2>3, <4>3 DEF Loaded
          <5> QED
            BY <2>3, <2>9, <5>1, <5>2
        <4>4. CASE steps[m].key = steps[i].key /\ i < m
          <5>1. Timed(i) /\ Timed(m) /\ steps[i].repeat <= 0
            BY <2>3, <3>1 DEF Plain
          <5>2. Fired(i)
            BY <1>0, <2>3, <4>1, <4>4, <5>1 DEF FrontFirst
          <5>3. steps[i].fireCount < 1
            BY <2>1, <2>3, <5>1, StepFields DEF StepSound, Limited, Limit
          <5>4. steps[i].fireCount \in Nat
            BY <2>3, StepFields
          <5> QED
            BY <5>2, <5>3, <5>4 DEF Fired
        <4>5. m < i \/ i < m
          BY <1>0, <2>3, <3>6 DEF Loaded
        <4> QED
          BY <4>2, <4>3, <4>4, <4>5
      <3> QED
        BY <3>5, <3>6
    <2>17. Completed'
      BY <2>1, <2>3 DEF Completed
    <2> QED
      BY <2>11, <2>14, <2>15, <2>16, <2>17 DEF PlayInv
  <1>4. CASE TickEnd
    <2>1. /\ tick.pc = "loop" /\ tick.i > nSteps /\ tick'.pc = "idle"
          /\ active' = IF tick.remaining = 0 THEN FALSE ELSE active
          /\ UNCHANGED <<steps, nSteps, startMs, settings, call, time, started>>
      BY <1>4 DEF TickEnd, Resting
    <2>2. call.pc = "idle" /\ (active \/ started = -1) /\ Loaded' = Loaded
      BY <1>0, <2>1 DEF Apart, Loaded
    <2>3. Apart' /\ Passed'
      BY <2>1, <2>2 DEF Apart, Passed
    <2>4. FrontFirst' /\ LastSet'
      BY <1>0, <2>1, <2>2 DEF FrontFirst, LastSet, Plain, Timed, Fired
    <2>5. Completed'
      <3>1. \A i \in Loaded : i \in 1..tick.i-1
        BY <1>0, <2>1 DEF Loaded, TickTypes
      <3>2. tick.remaining = 0 => \A i \in Loaded : steps[i].done
        BY <1>0, <2>1, <3>1 DEF Passed
      <3> QED
        BY <2>1, <2>2, <3>2 DEF Completed
    <2> QED
      BY <2>3, <2>4, <2>5 DEF PlayInv
  <1> QED
    BY <1>1, <1>2, <1>3, <1>4 DEF ScenarioTick

\* The other actions do not touch the steps.
LEMMA OthersPlay ==
  ASSUME PlayInv, ScenarioTypes,
         Stop \/ CaptureStop \/ Packet \/ Elapse \/ UNCHANGED scenarioVars
  PROVE  PlayInv'
  <1> USE DEF player, app, clock, ghosts
  <1>0. /\ TickTypes /\ Apart /\ FrontFirst /\ Passed /\ LastSet /\ Completed
    BY TypesParts DEF PlayInv
  <1>1. UNCHANGED <<steps, nSteps, startMs, settings, tick, call>>
    BY DEF Stop, CaptureStop, Packet, Elapse, scenarioVars
  <1>2. Loaded' = Loaded /\ Elapsed' = Elapsed
    BY <1>1 DEF Loaded, Elapsed
  <1>3. FrontFirst' /\ LastSet' /\ Passed'
    BY <1>0, <1>1, <1>2 DEF FrontFirst, LastSet, Plain, Timed, Fired, Passed
  <1>4. CASE Stop \/ CaptureStop
    <2>1. call.pc = "idle" /\ started' = -1 /\ time' = time
      BY <1>4 DEF Stop, CaptureStop, MayCall
    <2>2. Clock' = Clock /\ Since(Clock, startMs)' = Since(Clock, startMs)
      BY <1>1, <2>1 DEF Clock, Since
    <2> QED
      BY <1>0, <1>1, <1>3, <2>1, <2>2 DEF PlayInv, Apart, Completed
  <1>5. CASE Packet \/ UNCHANGED scenarioVars
    <2>1. UNCHANGED <<active, started, time>>
      BY <1>5 DEF Packet, scenarioVars
    <2>2. Clock' = Clock /\ Since(Clock, startMs)' = Since(Clock, startMs)
      BY <1>1, <2>1 DEF Clock, Since
    <2> QED
      BY <1>0, <1>1, <1>2, <1>3, <2>1, <2>2 DEF PlayInv, Apart, Completed
  <1>6. CASE Elapse
    <2>1. tick.pc = "idle" /\ call.pc = "idle" /\ UNCHANGED <<active, started>>
      BY <1>6 DEF Elapse
    <2> QED
      BY <1>0, <1>1, <1>2, <1>3, <2>1 DEF PlayInv, Apart, Completed
  <1> QED
    BY <1>4, <1>5, <1>6

------------------------------------------------------------------------------
(* Time, and what the clock shows of it.                                    *)

\* Products and quotients.
LEMMA ProductGrows ==
  ASSUME NEW a \in Int, NEW b \in Int, NEW d \in Nat, a <= b
  PROVE  a * d <= b * d
  <1>1. (b - a) * d >= 0
    OBVIOUS
  <1>2. (b - a) * d = b * d - a * d
    OBVIOUS
  <1>3. a * d \in Int /\ b * d \in Int
    OBVIOUS
  <1> QED
    BY <1>1, <1>2, <1>3

LEMMA QuotientIs ==
  ASSUME NEW x \in Nat, NEW d \in Nat \ {0}
  PROVE  x \div d \in Nat /\ (x \div d) * d <= x /\ x < (x \div d + 1) * d
  OBVIOUS

LEMMA QuotientBounds ==
  ASSUME NEW x \in Nat, NEW d \in Nat \ {0}, NEW a \in Int
  PROVE  a <= x \div d <=> a * d <= x
  <1> DEFINE q == x \div d
  <1>1. /\ q \in Int /\ q * d <= x /\ x < (q + 1) * d
        /\ q * d \in Int /\ (q + 1) * d \in Int /\ a * d \in Int
    BY QuotientIs
  <1> HIDE DEF q
  <1>2. CASE a <= q
    <2>1. a * d <= q * d
      BY <1>1, <1>2, ProductGrows
    <2> QED
      BY <1>1, <1>2, <2>1 DEF q
  <1>3. CASE q + 1 <= a
    <2>1. (q + 1) * d <= a * d
      BY <1>1, <1>3, ProductGrows
    <2>2. ~(a <= q) /\ ~(a * d <= x)
      BY <1>1, <1>3, <2>1
    <2> QED
      BY <2>2 DEF q
  <1> QED
    BY <1>1, <1>2, <1>3

LEMMA RemainderIs ==
  ASSUME NEW x \in Int, NEW w \in Nat \ {0}, 0 <= x, x < w
  PROVE  x % w = x
  OBVIOUS

LEMMA RemainderBelow ==
  ASSUME NEW x \in Int, NEW w \in Nat \ {0}, -w <= x, x < 0
  PROVE  x % w = x + w
  OBVIOUS

\* A number is its quotient and its remainder.
LEMMA Divided ==
  ASSUME NEW x \in Nat, NEW w \in Nat \ {0}
  PROVE  \E q \in Nat : x = q * w + (x % w) /\ x % w \in 0..w-1
  <1>1. x \div w \in Nat /\ x = (x \div w) * w + (x % w) /\ x % w \in 0..w-1
    OBVIOUS
  <1> QED
    BY <1>1

\* The clock goes on no faster than the time, ...
LEMMA RemainderGrows ==
  ASSUME NEW a \in Nat, NEW d \in Nat, NEW w \in Nat \ {0}
  PROVE  (a + d) % w <= (a % w) + d
  <1> DEFINE r == a % w
             s == (a + d) % w
  <1>1. PICK p \in Nat : a = p * w + r /\ r \in 0..w-1
    BY Divided
  <1>2. a + d \in Nat
    OBVIOUS
  <1>3. PICK q \in Nat : a + d = q * w + s /\ s \in 0..w-1
    BY <1>2, Divided
  <1> HIDE DEF r, s
  <1> DEFINE x == p * w
             y == q * w
  <1>4. x \in Nat /\ y \in Nat /\ a = x + r /\ a + d = y + s /\ r \in Nat /\ s \in Nat /\ r < w /\ s < w
    BY <1>1, <1>3
  <1>5. CASE p <= q
    <2>1. x <= y
      BY <1>5, ProductGrows
    <2> HIDE DEF x, y
    <2> QED
      BY <1>4, <2>1 DEF r, s
  <1>6. CASE q + 1 <= p
    <2>1. (q + 1) * w <= x /\ (q + 1) * w = y + w
      BY <1>6, ProductGrows
    <2> HIDE DEF x, y
    <2> QED
      BY <1>4, <2>1
  <1> QED
    BY <1>5, <1>6

\* ... and two readings of it less than a round apart tell the time between them.
LEMMA RemainderTells ==
  ASSUME NEW a \in Nat, NEW d \in Nat, NEW w \in Nat \ {0}, d < w
  PROVE  (((a + d) % w) - (a % w)) % w = d
  <1> DEFINE r == a % w
             s == (a + d) % w
  <1>1. PICK p \in Nat : a = p * w + r /\ r \in 0..w-1
    BY Divided
  <1>2. a + d \in Nat
    OBVIOUS
  <1>3. PICK q \in Nat : a + d = q * w + s /\ s \in 0..w-1
    BY <1>2, Divided
  <1> HIDE DEF r, s
  <1> DEFINE x == p * w
             y == q * w
  <1>4. x \in Nat /\ y \in Nat /\ a = x + r /\ a + d = y + s /\ r \in Nat /\ s \in Nat /\ r < w /\ s < w
    BY <1>1, <1>3
  <1>5. CASE p = q
    <2>1. s - r = d
      BY <1>4, <1>5
    <2> QED
      BY <2>1, RemainderIs DEF r, s
  <1>6. CASE p + 1 = q
    <2>1. y = x + w
      BY <1>6
    <2> HIDE DEF x, y
    <2>2. s - r = d - w
      BY <1>4, <2>1
    <2>3. s - r \in Int /\ -w <= s - r /\ s - r < 0 /\ (s - r) + w = d
      BY <1>4, <2>2
    <2>4. (s - r) % w = (s - r) + w
      BY <2>3, RemainderBelow
    <2> QED
      BY <2>3, <2>4 DEF r, s
  <1>7. CASE q + 1 <= p
    <2>1. (q + 1) * w <= x /\ (q + 1) * w = y + w
      BY <1>7, ProductGrows
    <2> HIDE DEF x, y
    <2> QED
      BY <1>4, <2>1
  <1>8. CASE p + 2 <= q
    <2>1. (p + 2) * w <= y /\ (p + 2) * w = x + w + w
      BY <1>8, ProductGrows
    <2> HIDE DEF x, y
    <2> QED
      BY <1>4, <2>1
  <1> QED
    BY <1>5, <1>6, <1>7, <1>8

\* In a tick the time that has passed is not shown as more than it is, and as what
\* it is while the play is shorter than the clock's round.
LEMMA ElapsedShows ==
  ASSUME Apart, StartShown, ScenarioTypes, tick.pc = "loop", started # -1
  PROVE  /\ tick.elapsed \in Nat /\ time - started \in Nat /\ tick.elapsed <= time - started
         /\ time - started < Wrap => tick.elapsed = time - started
  <1>1. /\ tick.elapsed = Since(Clock, startMs) /\ startMs = (Boot + started) % Wrap
        /\ time \in Nat /\ started \in 0..time /\ tick.elapsed \in 0..Wrap-1
    BY DEF Apart, StartShown, ScenarioTypes
  <1> DEFINE d == time - started
             a == Boot + started
  <1>2. d \in Nat /\ a \in Nat /\ Wrap \in Nat \ {0} /\ a + d = Boot + time
    BY <1>1, Constants
  <1>3. tick.elapsed = (((a + d) % Wrap) - (a % Wrap)) % Wrap
    BY <1>1, <1>2 DEF Since, Clock
  <1> HIDE DEF a, d
  <1>4. d < Wrap => tick.elapsed = d
    BY <1>2, <1>3, RemainderTells
  <1> QED
    BY <1>1, <1>2, <1>4 DEF d

\* So what the tick takes for due is due, and what is due it takes for it.
LEMMA DueShows ==
  ASSUME Apart, StartShown, ScenarioTypes, tick.pc = "loop", started # -1, NEW a \in Int
  PROVE  /\ a <= Elapsed => time - started >= a * Second
         /\ time - started < Wrap /\ time - started >= a * Second => a <= Elapsed
  <1> DEFINE e == tick.elapsed
             d == time - started
             m == a * Second
  <1>1. e \in Nat /\ d \in Nat /\ e <= d /\ (d < Wrap => e = d) /\ m \in Int /\ Second \in Nat \ {0}
    BY ElapsedShows, Constants
  <1>2. a <= Elapsed <=> m <= e
    BY <1>1, QuotientBounds DEF Elapsed
  <1> HIDE DEF e, d, m
  <1>3. (m <= e => d >= m) /\ (d < Wrap /\ d >= m => m <= e)
    BY <1>1
  <1> QED
    BY <1>2, <1>3 DEF d, m

\* When a fire comes: not before its time, and it says when the next one comes.
LEMMA FireTimed ==
  ASSUME Timing, PlayInv, LoadInv, ScenarioTypes, StepsSound, TickFire
  PROVE  LET i == tick.i
         IN /\ i \in Loaded /\ i \in Index /\ steps[i] \in Step
            /\ steps' = [steps EXCEPT ![i] = Fire(steps[i])]
            /\ firedAt' = [firedAt EXCEPT ![i] = time]
            /\ UNCHANGED <<nSteps, active, startMs, call, time, started, ticked>>
            /\ Timed(i) /\ started # -1 => time - started >= steps[i].at * Second
            /\ Fired(i) /\ firedAt[i] # -1 /\ ~BehindWrap(steps[i], firedAt[i]) =>
                 time - firedAt[i] >= steps[i].repeat * Second
            /\ Fire(steps[i]) \in Step /\ Alike(Fire(steps[i]), steps[i])
            /\ ~Fire(steps[i]).done =>
                 Fire(steps[i]).nextFireMs = (((Boot + time) % Wrap) + steps[i].repeat * Second) % Wrap
  <1> DEFINE i == tick.i
  <1>0. /\ StepTypes /\ TickTypes /\ TimeTypes
        /\ Apart /\ FrontFirst /\ StartShown /\ NoneEarly /\ NextShown
    BY TypesParts DEF PlayInv, Timing
  <1>1. /\ InLoop /\ tick.pc = "loop" /\ ~steps[i].done /\ Due(steps[i])
        /\ UNCHANGED <<nSteps, active, startMs, call, time, started, ticked>>
    BY DEF TickFire, InLoop, clock
  <1>2. /\ steps' = [steps EXCEPT ![i] = Fire(steps[i])]
        /\ firedAt' = [firedAt EXCEPT ![i] = time]
    BY Zenon DEF TickFire, Fire
  <1>3. /\ call.pc = "idle" /\ tick.now = Clock
        /\ i \in Loaded /\ i \in Index /\ steps[i] \in Step /\ StepSound(steps[i])
    BY <1>0, <1>1, AtStep
  <1>4. Due(steps[i]) /\ Timed(i) /\ ~Fired(i) => steps[i].at <= Elapsed
    BY <1>0, <1>1, AtStep
  <1>5. tick.now = (Boot + time) % Wrap /\ Boot \in Nat /\ time \in Nat
    BY <1>0, <1>3, Constants DEF TimeTypes, Clock
  <1>6. steps[i].at \in Int /\ steps[i].repeat \in Int /\ steps[i].fireCount \in Nat
        /\ steps[i].times \in Int
    BY <1>3, StepFields
  <1> HIDE DEF i
  <1>7. ASSUME Timed(i), started # -1 PROVE time - started >= steps[i].at * Second
    <2>1. CASE Fired(i)
      BY <1>0, <1>3, <1>7, <2>1 DEF NoneEarly
    <2>2. CASE ~Fired(i)
      <3>1. steps[i].at <= Elapsed
        BY <1>1, <1>4, <1>7, <2>2 DEF i
      <3> QED
        BY <1>0, <1>1, <1>6, <1>7, <3>1, DueShows
    <2> QED
      BY <2>1, <2>2
  <1>8. ASSUME Fired(i), firedAt[i] # -1, ~BehindWrap(steps[i], firedAt[i])
        PROVE  time - firedAt[i] >= steps[i].repeat * Second
    <2> DEFINE r == steps[i].repeat * Second
               t == firedAt[i]
               c == (Boot + t) % Wrap
               d == time - t
    <2>1. steps[i].repeat > 0
      BY <1>1, <1>3, <1>6, <1>8 DEF StepSound, Limited, Limit, Fired, i
    <2>2. t \in 0..time /\ d \in Nat /\ Boot + t \in Nat /\ (Boot + t) + d = Boot + time
      <3>1. t \in 0..time
        BY <1>0, <1>3, <1>8 DEF TimeTypes
      <3> HIDE DEF t
      <3> QED
        BY <1>5, <3>1
    <2>3. r \in Int /\ r >= 1
      <3>1. Second \in Nat \ {0} /\ steps[i].repeat \in Nat \ {0}
        BY <1>6, <2>1, Constants
      <3> QED
        BY <3>1
    <2>4. steps[i].nextFireMs = (c + r) % Wrap
      BY <1>0, <1>1, <1>3, <1>8 DEF NextShown, i
    <2>5. Wrap \in Nat \ {0} /\ c \in Nat /\ ~(c + r >= Wrap)
      <3>1. Wrap \in Nat \ {0} /\ ~(c + r >= Wrap)
        BY <1>8, Constants DEF BehindWrap
      <3>2. c \in Nat
        BY <2>2, <3>1
      <3> QED
        BY <3>1, <3>2
    <2>6. tick.now <= c + d
      <3> HIDE DEF c, d, t, r
      <3>1. ((Boot + t) + d) % Wrap <= ((Boot + t) % Wrap) + d
        BY <2>2, <2>5, RemainderGrows
      <3> QED
        BY <1>5, <2>2, <3>1 DEF c
    <2> HIDE DEF c, r, d
    <2>7. steps[i].nextFireMs = c + r /\ c + r # 0
      <3>1. (c + r) % Wrap = c + r
        BY <2>3, <2>5, RemainderIs
      <3> QED
        BY <2>3, <2>4, <2>5, <3>1
    <2>8. tick.now >= c + r
      BY <1>1, <2>7 DEF Due, i
    <2>9. tick.now \in Nat
      BY <1>0 DEF TickTypes
    <2>10. d >= r
      BY <2>2, <2>3, <2>5, <2>6, <2>8, <2>9
    <2> QED
      BY <2>10 DEF d, r
  <1>9. tick.now \in 0..Wrap-1 /\ ~steps[i].done
    BY <1>0, <1>1 DEF TickTypes, i
  <1>10. /\ Fire(steps[i]) \in Step /\ Plan(Fire(steps[i])) = Plan(steps[i])
         /\ ~Fire(steps[i]).done =>
              /\ steps[i].repeat > 0
              /\ Fire(steps[i]).nextFireMs = (tick.now + steps[i].repeat * Second) % Wrap
    BY <1>3, <1>9, FireIs
  <1>11. Alike(Fire(steps[i]), steps[i])
    BY <1>3, <1>10, PlanKept
  <1>12. ASSUME ~Fire(steps[i]).done
         PROVE  Fire(steps[i]).nextFireMs = (((Boot + time) % Wrap) + steps[i].repeat * Second) % Wrap
    BY <1>5, <1>10, <1>12
  <1> QED
    BY <1>1, <1>2, <1>3, <1>7, <1>8, <1>10, <1>11, <1>12 DEF i

\* Every action keeps the times what they say.
LEMMA TimingKept ==
  ASSUME ~overlapped', ~overlapped => PlayInv /\ Timing, PlayInv', LoadInv, ScenarioTypes, StepsSound,
         [ScenarioNext]_scenarioVars
  PROVE  Timing'
  <1> USE DEF player, app, clock, ghosts
  <1>0. StepTypes /\ CallTypes /\ TickTypes /\ TimeTypes /\ Loaded \subseteq Index /\ nSteps \in Nat
    BY Constants, TypesParts DEF Loaded, Index, StepTypes
  <1>1. CASE (\E doc \in Documents : LoadBegin(doc)) \/ LoadObject \/ LoadSort
    <2>1. started' = -1 /\ \A i \in Loaded' : steps'[i].fireCount = 0
      BY <1>1, LoadsUnplayed DEF PlayInv
    <2> QED
      BY <2>1 DEF Timing, StartShown, NoneEarly, NextShown, FiredWhenDue, Fired
  <1>4. CASE StartBegin \/ CaptureStart
    <2>1. /\ call.pc = "idle" /\ UNCHANGED <<steps, nSteps, time, ticked>>
      BY <1>4 DEF StartBegin, CaptureStart, MayCall
    <2>2. PICK locked \in BOOLEAN : Begin(locked)
      BY <1>4 DEF StartBegin, CaptureStart
    <2>3. CASE nSteps = 0
      <3>1. Loaded' = {} /\ UNCHANGED <<startMs, started, overlapped>>
        BY <1>0, <2>1, <2>2, <2>3 DEF Begin, Loaded
      <3>2. StartShown
        BY <3>1 DEF Timing
      <3> QED
        BY <3>1, <3>2 DEF Timing, StartShown, NoneEarly, FiredWhenDue, NextShown
    <2>4. CASE nSteps # 0
      <3>1. /\ startMs' = Clock /\ started' = time /\ firedAt' = [i \in Index |-> -1]
            /\ call' = [pc |-> "clear", i |-> 1, rest |-> <<>>, appLock |-> locked]
        BY <2>2, <2>4 DEF Begin, NoCall
      <3>2. call'.pc = "clear"
        BY <3>1
      <3>3. StartShown'
        BY <3>1 DEF StartShown, Clock
      <3>4. NextShown'
        <4>1. \A i \in Loaded' : firedAt'[i] = -1
          BY <1>0, <2>1, <3>1 DEF Loaded
        <4> QED
          BY <4>1 DEF NextShown
      <3> QED
        BY <3>2, <3>3, <3>4 DEF Timing, NoneEarly, FiredWhenDue
    <2> QED
      BY <2>3, <2>4
  <1>5. CASE StartClear
    <2>0. PICK c : c = call.i
      OBVIOUS
    <2>1. /\ call.pc = "clear" /\ c \in Loaded /\ c \in 1..nSteps
          /\ call' = IF c < nSteps THEN [call EXCEPT !.i = @ + 1] ELSE NoCall
          /\ UNCHANGED <<nSteps, startMs, time, started, firedAt>>
          /\ Apart /\ StartShown /\ NextShown
      BY <1>0, <1>5, <2>0 DEF StartClear, CallTypes, Loaded, PlayInv, Timing
    <2>2. steps' = [steps EXCEPT ![c] = Cleared(steps[c])]
      BY <1>5, <2>0, Zenon DEF StartClear, Cleared
    <2>3. /\ started = time /\ \A i \in 1..c-1 : steps[i].fireCount = 0
      BY <2>0, <2>1 DEF Apart
    <2>4. c \in Index /\ steps'[c].fireCount = 0
      <3>1. Cleared(steps[c]).fireCount = 0
        BY <1>0, <2>1, ClearedIs DEF StepTypes
      <3> QED
        BY <1>0, <2>1, <2>2, <3>1 DEF StepTypes
    <2>5. \A i \in Index : i # c => steps'[i] = steps[i]
      BY <1>0, <2>2 DEF StepTypes
    <2>6. NextShown'
      <3> SUFFICES ASSUME NEW i \in Loaded, Fired(i)', ~steps'[i].done, firedAt'[i] # -1
                   PROVE  steps'[i].nextFireMs = (((Boot + firedAt'[i]) % Wrap) + steps'[i].repeat * Second) % Wrap
        BY <2>1 DEF NextShown, Loaded
      <3>1. steps'[i] = steps[i] /\ Fired(i)
        BY <1>0, <2>4, <2>5 DEF Fired
      <3> QED
        BY <2>1, <3>1 DEF NextShown
    <2>7. NoneEarly' /\ FiredWhenDue'
      <3>1. CASE c < nSteps
        <4>1. call'.pc = "clear"
          BY <1>0, <2>1, <3>1 DEF CallTypes
        <4> QED
          BY <4>1 DEF NoneEarly, FiredWhenDue
      <3>2. CASE ~(c < nSteps)
        <4>1. \A i \in Loaded' : i = c \/ i \in 1..c-1
          BY <1>0, <2>1, <3>2 DEF Loaded
        <4>2. \A i \in Loaded' : steps'[i].fireCount = 0
          <5> TAKE i \in Loaded'
          <5>1. CASE i = c
            BY <2>4, <5>1
          <5>2. CASE i \in 1..c-1
            <6>1. i # c /\ i \in Index
              BY <1>0, <2>1, <5>2 DEF Loaded
            <6> QED
              BY <2>3, <2>5, <5>2, <6>1
          <5> QED
            BY <4>1, <5>1, <5>2
        <4>3. started' = time' /\ ~(time' < time')
          BY <1>0, <2>1, <2>3 DEF TimeTypes
        <4> QED
          BY <4>2, <4>3 DEF NoneEarly, FiredWhenDue, Fired
      <3> QED
        BY <3>1, <3>2
    <2> QED
      BY <2>1, <2>6, <2>7 DEF Timing, StartShown
  <1>6. CASE Stop \/ CaptureStop
    <2>1. /\ UNCHANGED <<steps, nSteps, firedAt, overlapped>> /\ started' = -1
      BY <1>6 DEF Stop, CaptureStop
    <2>2. NextShown /\ Loaded' = Loaded
      BY <2>1 DEF Timing, Loaded
    <2> QED
      BY <2>1, <2>2 DEF Timing, StartShown, NoneEarly, NextShown, Fired, FiredWhenDue
  <1>7. CASE TickBegin \/ TickSkip
    <2>1. /\ UNCHANGED <<steps, nSteps, startMs, call, time, started, firedAt>>
          /\ StartShown /\ NoneEarly /\ NextShown
      BY <1>7 DEF TickBegin, TickSkip, Timing
    <2>2. tick'.pc = "loop"
      <3>1. CASE TickBegin
        BY <3>1 DEF TickBegin
      <3>2. CASE TickSkip
        <4>1. tick.pc = "loop" /\ tick.i <= nSteps
          BY <3>2 DEF TickSkip, InLoop
        <4>2. tick' = ToNext(tick, steps[tick.i].done)
          BY <3>2, Zenon DEF TickSkip, ToNext
        <4> QED
          BY <1>0, <4>1, <4>2, ToNextIs
      <3> QED
        BY <1>7, <3>1, <3>2
    <2>3. Loaded' = Loaded
      BY <2>1 DEF Loaded
    <2> QED
      BY <2>1, <2>2, <2>3 DEF Timing, StartShown, NoneEarly, NextShown, Fired, Timed, FiredWhenDue
  <1>8. CASE TickFire
    <2>0. PICK i : i = tick.i
      OBVIOUS
    <2> DEFINE s == Fire(steps[i])
    <2>1. /\ i \in Loaded /\ i \in Index /\ steps[i] \in Step
          /\ steps' = [steps EXCEPT ![i] = s]
          /\ firedAt' = [firedAt EXCEPT ![i] = time]
          /\ UNCHANGED <<nSteps, active, startMs, call, time, started, ticked>>
          /\ Timed(i) /\ started # -1 => time - started >= steps[i].at * Second
          /\ s \in Step /\ Alike(s, steps[i])
          /\ ~s.done => s.nextFireMs = (((Boot + time) % Wrap) + steps[i].repeat * Second) % Wrap
      <3>1. PlayInv /\ Timing
        BY <1>8 DEF TickFire
      <3> QED
        BY <1>8, <2>0, <3>1, FireTimed
    <2> HIDE DEF s
    <2>2. /\ tick.pc = "loop" /\ call.pc = "idle" /\ Loaded' = Loaded
          /\ StartShown /\ NoneEarly /\ NextShown
      BY <1>8, <2>1 DEF TickFire, InLoop, PlayInv, Apart, Loaded, Timing
    <2>3. tick'.pc = "loop"
      <3>1. tick.i <= nSteps
        BY <1>8 DEF TickFire, InLoop
      <3>2. tick' = ToNext(tick, Fire(steps[tick.i]).done)
        BY <1>8, Zenon DEF TickFire, Fire, ToNext
      <3> QED
        BY <1>0, <2>2, <3>1, <3>2, ToNextIs
    <2>4. /\ steps'[i] = s /\ firedAt'[i] = time
          /\ \A k \in Index : k # i => steps'[k] = steps[k] /\ firedAt'[k] = firedAt[k]
      BY <1>0, <2>1 DEF StepTypes, TimeTypes
    <2>5. NextShown'
      <3> SUFFICES ASSUME NEW k \in Loaded, Fired(k)', ~steps'[k].done, firedAt'[k] # -1
                   PROVE  steps'[k].nextFireMs = (((Boot + firedAt'[k]) % Wrap) + steps'[k].repeat * Second) % Wrap
        BY <2>2 DEF NextShown
      <3>1. CASE k = i
        <4>1. steps'[k].nextFireMs = (((Boot + time) % Wrap) + steps[i].repeat * Second) % Wrap
          BY <2>1, <2>4, <3>1
        <4>2. steps'[k].repeat = steps[i].repeat /\ firedAt'[k] = time
          BY <2>1, <2>4, <3>1 DEF Alike
        <4> QED
          BY <4>1, <4>2
      <3>2. CASE k # i
        <4>1. steps'[k] = steps[k] /\ firedAt'[k] = firedAt[k] /\ Fired(k)
          BY <1>0, <2>4, <3>2 DEF Fired
        <4> QED
          BY <2>2, <4>1 DEF NextShown
      <3> QED
        BY <3>1, <3>2
    <2>6. NoneEarly'
      <3> SUFFICES ASSUME started # -1, NEW k \in Loaded, Timed(k)', Fired(k)'
                   PROVE  time - started >= steps'[k].at * Second
        BY <2>1, <2>2 DEF NoneEarly
      <3>1. CASE k = i
        <4>1. steps'[k].at = steps[i].at /\ Timed(i)
          BY <2>1, <2>4, <3>1 DEF Alike, Timed
        <4> QED
          BY <2>1, <4>1
      <3>2. CASE k # i
        <4>1. steps'[k] = steps[k] /\ Fired(k) /\ Timed(k)
          BY <1>0, <2>4, <3>2 DEF Fired, Timed
        <4> QED
          BY <2>2, <4>1 DEF NoneEarly
      <3> QED
        BY <3>1, <3>2
    <2> QED
      BY <2>1, <2>2, <2>3, <2>5, <2>6 DEF Timing, StartShown, FiredWhenDue
  <1>9. CASE TickEnd
    <2>1. /\ tick.pc = "loop" /\ tick.i > nSteps
          /\ UNCHANGED <<steps, nSteps, startMs, call, time, started, firedAt>>
          /\ Apart /\ Passed /\ StartShown /\ NoneEarly /\ NextShown
      BY <1>9 DEF TickEnd, PlayInv, Timing
    <2>2. Loaded' = Loaded
      BY <2>1 DEF Loaded
    <2>3. \A k \in Loaded : k \in 1..tick.i-1 /\ steps[k].at \in Int
      BY <1>0, <2>1, StepFields DEF Loaded, TickTypes, StepTypes
    <2>4. FiredWhenDue'
      <3> SUFFICES ASSUME started # -1, time - started < Wrap, NEW k \in Loaded,
                          steps[k].trigger = "time", time - started >= steps[k].at * Second
                   PROVE  Fired(k)
        BY <2>1, <2>2 DEF FiredWhenDue, Fired
      <3>1. steps[k].at <= Elapsed
        BY <2>1, <2>3, DueShows
      <3> QED
        BY <2>1, <2>3, <3>1 DEF Passed, Timed
    <2> QED
      BY <2>1, <2>2, <2>4 DEF Timing, StartShown, NoneEarly, NextShown, Fired, Timed
  <1>10. CASE Elapse
    <2>1. /\ UNCHANGED <<steps, nSteps, startMs, call, started, firedAt>>
          /\ ticked' = FALSE /\ time' = time + 1
          /\ StartShown /\ NoneEarly /\ NextShown
      BY <1>10 DEF Elapse, Timing
    <2>2. Loaded' = Loaded
      BY <2>1 DEF Loaded
    <2>3. ASSUME started # -1, call.pc # "clear", NEW k \in Loaded, Timed(k), Fired(k)
          PROVE  (time + 1) - started >= steps[k].at * Second
      <3>1. time - started >= steps[k].at * Second
        BY <2>1, <2>3 DEF NoneEarly
      <3> DEFINE a == steps[k].at * Second
      <3>2. a \in Int
        <4>1. steps[k].at \in Int /\ Second \in Int
          BY <1>0, <2>3, StepFields, Constants DEF StepTypes, Loaded
        <4> QED
          BY <4>1
      <3> HIDE DEF a
      <3>3. time \in Int /\ started \in Int
        BY <1>0 DEF TimeTypes
      <3>4. time - started >= a
        BY <3>1 DEF a
      <3>5. (time + 1) - started >= a
        BY <3>2, <3>3, <3>4
      <3> QED
        BY <3>5 DEF a
    <2>4. NoneEarly'
      <3> SUFFICES ASSUME started' # -1, call'.pc # "clear", NEW k \in Loaded',
                          steps'[k].trigger = "time", steps'[k].fireCount > 0
                   PROVE  time' - started' >= steps'[k].at * Second
        BY DEF NoneEarly, Timed, Fired
      <3>1. /\ started' = started /\ call' = call /\ steps' = steps /\ time' = time + 1
            /\ k \in Loaded
        BY <2>1, <2>2
      <3>2. started # -1 /\ call.pc # "clear" /\ Timed(k) /\ Fired(k)
        BY <3>1 DEF Timed, Fired
      <3>3. (time + 1) - started >= steps[k].at * Second
        BY <2>3, <3>1, <3>2
      <3> QED
        BY ONLY <3>1, <3>3
    <2> QED
      BY <2>1, <2>2, <2>4 DEF Timing, StartShown, NextShown, Fired, FiredWhenDue
  <1>11. CASE Packet \/ UNCHANGED scenarioVars
    <2>1. /\ UNCHANGED <<steps, nSteps, active, startMs, call, tick, time, ticked, started, firedAt>>
          /\ UNCHANGED overlapped /\ Timing
      BY <1>11 DEF Packet, scenarioVars
    <2>2. Loaded' = Loaded
      BY <2>1 DEF Loaded
    <2> QED
      BY <2>1, <2>2 DEF Timing, StartShown, NoneEarly, NextShown, Fired, Timed, FiredWhenDue
  <1> QED
    BY <1>1, <1>4, <1>5, <1>6, <1>7, <1>8, <1>9, <1>10, <1>11
    DEF ScenarioNext, Calling, ScenarioTick
\* A play keeps its invariant whatever happens.
LEMMA PlayKept ==
  ASSUME ~overlapped', ~overlapped => PlayInv, LoadInv, ScenarioTypes, StepsSound,
         [ScenarioNext]_scenarioVars
  PROVE  PlayInv'
  <1>1. CASE (\E doc \in Documents : LoadBegin(doc)) \/ LoadObject \/ LoadSort
    BY <1>1, LoadPlays
  <1>2. CASE StartBegin \/ CaptureStart \/ StartClear
    BY <1>2, StartPlays
  <1>3. CASE ScenarioTick
    BY <1>3, TickPlays
  <1>4. CASE Stop \/ CaptureStop \/ Packet \/ Elapse \/ UNCHANGED scenarioVars
    <2>1. overlapped' = overlapped
      BY <1>4 DEF Stop, CaptureStop, Packet, Elapse, scenarioVars, ghosts
    <2> QED
      BY <1>4, <2>1, OthersPlay
  <1> QED
    BY <1>1, <1>2, <1>3, <1>4 DEF ScenarioNext, Calling

\* A step is fired at its second or later, and a repetition no earlier than
\* "repeat" seconds after the last.
LEMMA FiresNotEarly ==
  ASSUME ~overlapped => PlayInv /\ Timing, LoadInv, ScenarioTypes, StepsSound,
         [ScenarioNext]_scenarioVars
  PROVE  FiredNotEarly
  <1>0. firedAt \in [Index -> {-1} \cup 0..time]
    BY DEF ScenarioTypes
  <1>1. CASE TickFire
    <2> SUFFICES ASSUME ~overlapped, NEW k \in Index, firedAt'[k] # firedAt[k]
                 PROVE  /\ steps[k].trigger = "time" /\ started # -1
                             => time - started >= steps[k].at * Second
                        /\ steps[k].fireCount > 0 /\ firedAt[k] # -1 /\ ~BehindWrap(steps[k], firedAt[k])
                             => time - firedAt[k] >= steps[k].repeat * Second
      BY DEF FiredNotEarly
    <2> DEFINE i == tick.i
    <2>1. /\ firedAt' = [firedAt EXCEPT ![i] = time]
          /\ Timed(i) /\ started # -1 => time - started >= steps[i].at * Second
          /\ Fired(i) /\ firedAt[i] # -1 /\ ~BehindWrap(steps[i], firedAt[i])
               => time - firedAt[i] >= steps[i].repeat * Second
      BY <1>1, FireTimed
    <2>2. k = i
      BY <1>0, <2>1
    <2> QED
      BY <2>1, <2>2 DEF Timed, Fired
  <1>2. CASE StartBegin \/ CaptureStart
    <2>1. firedAt' = firedAt \/ firedAt' = [i \in Index |-> -1]
      <3>1. PICK locked \in BOOLEAN : Begin(locked)
        BY <1>2 DEF StartBegin, CaptureStart
      <3> QED
        BY <3>1 DEF Begin
    <2> QED
      BY <2>1 DEF FiredNotEarly
  <1>3. CASE \/ (\E doc \in Documents : LoadBegin(doc)) \/ Calling
             \/ Stop \/ CaptureStop \/ TickBegin \/ TickSkip \/ TickEnd \/ Packet \/ Elapse
             \/ UNCHANGED scenarioVars
    <2> USE DEF ghosts
    <2>1. firedAt' = firedAt
      <3>1. CASE \E doc \in Documents : LoadBegin(doc)
        BY <3>1 DEF LoadBegin
      <3>2. CASE Calling \/ Stop \/ CaptureStop \/ TickBegin \/ TickSkip \/ TickEnd
        BY <3>2 DEF Calling, LoadObject, LoadSort, StartClear, Stop, CaptureStop,
                    TickBegin, TickSkip, TickEnd
      <3>3. CASE Packet \/ Elapse \/ UNCHANGED scenarioVars
        BY <3>3 DEF Packet, Elapse, scenarioVars
      <3> QED
        BY <1>3, <3>1, <3>2, <3>3
    <2> QED
      BY <2>1 DEF FiredNotEarly
  <1> QED
    BY <1>1, <1>2, <1>3 DEF ScenarioNext, ScenarioTick

------------------------------------------------------------------------------
(* The invariant of every run.                                              *)

\* Nothing is loaded when the program starts.
LEMMA ScenarioInitially == ScenarioInit => ScenarioInv
  <1> SUFFICES ASSUME ScenarioInit PROVE ScenarioInv
    OBVIOUS
  <1>1. /\ steps = [i \in Index |-> BlankStep] /\ nSteps = 0 /\ Loaded = {}
        /\ active = FALSE /\ startMs = 0 /\ settings = [k \in Keys |-> Unset]
        /\ capturesNow = FALSE /\ captured = 0
        /\ tick = Resting /\ call = NoCall /\ time = 0 /\ ticked = FALSE
        /\ document = <<>> /\ started = -1 /\ firedAt = [i \in Index |-> -1]
    BY DEF ScenarioInit, Loaded
  <1>2. BlankStep \in Step /\ StepSound(BlankStep) /\ BlankStep.fireCount = 0
    <2> DEFINE k0 == CHOOSE k \in Keys : TRUE
    <2>1. BlankStep = [trigger |-> "time", at |-> -1, when |-> "none", value |-> 0, repeat |-> 0,
                       times |-> 0, key |-> k0, set |-> Unset, fireCount |-> 0,
                       nextFireMs |-> 0, done |-> FALSE]
      BY DEF BlankStep, StepOf
    <2>2. BlankStep.key = k0
      BY <2>1
    <2>3. BlankStep \in Step
      <3> HIDE DEF k0
      <3> QED
        BY <2>1, <2>2, Constants DEF Step, Unset
    <2> HIDE DEF k0
    <2> QED
      BY <2>1, <2>3 DEF StepSound, Limited, Limit
  <1>3. ScenarioTypes
    <2>1. StepTypes
      BY <1>1, <1>2, Constants DEF StepTypes
    <2>4. settings \in [Keys -> Values \cup {Unset}]
      BY <1>1
    <2>5. PlayerTypes
      <3>1. active \in BOOLEAN /\ capturesNow \in BOOLEAN
        BY <1>1
      <3>2. startMs \in 0..Wrap-1 /\ captured \in 0..MaxCaptured
        BY <1>1, Constants
      <3> QED
        BY <2>4, <3>1, <3>2 DEF PlayerTypes
    <2>2. CallTypes /\ TickTypes
      BY <1>1, Constants DEF CallTypes, TickTypes, Resting, NoCall
    <2>3. document \in Seq(Objects)
      BY <1>1
    <2>6. time \in 0..MaxTime /\ ticked \in BOOLEAN /\ started \in {-1} \cup 0..time
      <3>1. ticked \in BOOLEAN
        BY <1>1
      <3>2. time \in 0..MaxTime /\ started \in {-1} \cup 0..time
        BY <1>1, Constants
      <3> QED
        BY <3>1, <3>2
    <2>7. firedAt \in [Index -> {-1} \cup 0..time]
      BY <1>1
    <2>8. TimeTypes
      BY <2>6, <2>7 DEF TimeTypes
    <2> QED
      BY <2>1, <2>2, <2>3, <2>5, <2>8, TypesParts
  <1>4. StepsSound
    BY <1>1, <1>2 DEF StepsSound
  <1>5. LoadInv
    <2>1. document \in Seq(Objects)
      BY <1>1
    <2>2. UsableObjects = <<>>
      BY <1>1, <2>1, UsableTyped, OnlyEmpty
    <2>3. nSteps = IF Len(UsableObjects) < MaxSteps THEN Len(UsableObjects) ELSE MaxSteps
      BY <1>1, <2>2, Constants
    <2>4. \E origin \in [Loaded -> Loaded] : Arrangement(origin)
      <3>1. [p \in Loaded |-> p] \in [Loaded -> Loaded]
        OBVIOUS
      <3>2. Arrangement([p \in Loaded |-> p])
        BY <1>1, <2>3 DEF Arrangement
      <3> QED
        BY <3>1, <3>2
    <2> QED
      BY <1>1, <2>4 DEF LoadInv, NoCall
  <1>6. PlayInv
    BY <1>1 DEF PlayInv, Apart, FrontFirst, Passed, LastSet, Completed, Resting, NoCall
  <1>7. Timing
    BY <1>1, <1>2 DEF Timing, StartShown, NoneEarly, NextShown, FiredWhenDue, Fired
  <1> QED
    BY <1>3, <1>4, <1>5, <1>6, <1>7 DEF ScenarioInv

\* Every step keeps it.
LEMMA ScenarioKept == ScenarioInv /\ [ScenarioNext]_scenarioVars => ScenarioInv'
  <1> SUFFICES ASSUME ScenarioInv, [ScenarioNext]_scenarioVars
               PROVE  ScenarioInv'
    OBVIOUS
  <1>1. ScenarioTypes' /\ StepsSound'
    BY SoundKept DEF ScenarioInv
  <1>2. LoadInv'
    BY LoadKept DEF ScenarioInv
  <1>3. ASSUME ~overlapped' PROVE PlayInv'
    BY <1>3, PlayKept DEF ScenarioInv
  <1>4. ASSUME ~overlapped' PROVE Timing'
    BY <1>3, <1>4, TimingKept DEF ScenarioInv
  <1> QED
    BY <1>1, <1>2, <1>3, <1>4 DEF ScenarioInv

\* Whatever calls and ticks overlap, no step is fired more often than its fires are
\* limited to and the table is the one the document asks for; unless they overlapped
\* in the last load or start, plays go from the front of the table to its end, and
\* fires come at the times the clock can tell.
THEOREM ScenarioInductive == ScenarioSpec => [](ScenarioInv)
  BY ScenarioInitially, ScenarioKept, PTL DEF ScenarioSpec

\* The table holds the objects of use, sorted by their second and in the order of
\* the file where these agree.
LEMMA LoadsInOrder == ASSUME ScenarioInv PROVE LoadedInOrder
  <1>1. CASE call.pc = "idle"
    <2> DEFINE U == UsableObjects
               kept == IF Len(U) < MaxSteps THEN Len(U) ELSE MaxSteps
               Ki(i) == SortKey(StepOf(U[i]))
               Rank(i) == Cardinality({j \in 1..kept : Ki(j) < Ki(i) \/ (Ki(j) = Ki(i) /\ j <= i)})
    <2>1. PICK o \in [Loaded -> Loaded] : Arrangement(o)
      BY <1>1 DEF ScenarioInv, LoadInv
    <2>2. /\ nSteps = kept /\ Loaded = 1..kept /\ kept \in Nat /\ kept <= Len(U) /\ Len(U) \in Nat
      BY <2>1, UsableTyped, Constants DEF Arrangement, Loaded, ScenarioInv, ScenarioTypes
    <2>3. \A i \in 1..kept : U[i] \in Objects /\ KeyOf(U[i]) \in Int /\ KeyOf(U[i]) = Ki(i)
      <3>1. \A i \in 1..Len(U) : U[i] \in Objects
        BY UsableTyped DEF ScenarioInv, ScenarioTypes
      <3> HIDE DEF U
      <3>2. \A i \in 1..kept : i \in 1..Len(U)
        BY <2>2
      <3> QED
        BY <3>1, <3>2, StepTyped DEF KeyOf
    <2> DEFINE K == [i \in 1..kept |-> Ki(i)]
    <2>4. /\ K \in [1..kept -> Int] /\ o \in [1..kept -> 1..kept]
          /\ \A i \in 1..kept : \E p \in 1..kept : o[p] = i
          /\ \A p \in 1..kept : o[p] \in 1..kept /\ Plan(steps[p]) = StepOf(U[o[p]])
      BY <2>1, <2>2, <2>3 DEF Arrangement
    <2>5. \A p, q \in 1..kept : p < q => K[o[p]] < K[o[q]] \/ (K[o[p]] = K[o[q]] /\ o[p] < o[q])
      <3>1. \A p \in 1..kept : K[o[p]] = KeyOf(U[o[p]])
        <4>1. \A i \in 1..kept : K[i] = KeyOf(U[i])
          BY <2>3
        <4> HIDE DEF K, kept
        <4> QED
          BY <2>4, <4>1
      <3>2. \A p, q \in 1..kept : p < q => Before(U, o[p], o[q])
        BY <2>1, <2>2 DEF Arrangement
      <3> HIDE DEF K, kept, U
      <3> QED
        BY <3>1, <3>2 DEF Before
    <2>6. ASSUME NEW i \in 1..kept PROVE Plan(steps[Rank(i)]) = StepOf(U[i])
      <3>1. PICK p \in 1..kept : o[p] = i
        BY <2>4
      <3>2. RankIn(K, kept, o[p]) = p
        <4>1. kept \in Nat
          BY <2>2
        <4> HIDE DEF K, kept, Ki, Rank, U
        <4>2. Ranked(K, kept, o)
          BY <2>4, <2>5, <4>1 DEF Ranked
        <4> QED
          BY <3>1, <4>2, RankIs
      <3>3. RankIn(K, kept, o[p]) = Rank(i)
        <4>1. \A j \in 1..kept : K[j] = Ki(j)
          OBVIOUS
        <4>2. {j \in 1..kept : K[j] < K[i] \/ (K[j] = K[i] /\ j <= i)} =
                {j \in 1..kept : Ki(j) < Ki(i) \/ (Ki(j) = Ki(i) /\ j <= i)}
          <5> HIDE DEF kept, Ki, K
          <5> QED
            BY <4>1
        <4> HIDE DEF kept, Ki, K
        <4> QED
          BY <3>1, <4>2 DEF RankIn
      <3>4. Rank(i) = p
        BY <3>2, <3>3
      <3> HIDE DEF Rank
      <3> QED
        BY <2>4, <3>1, <3>4
    <2> HIDE DEF K
    <2> QED
      BY <1>1, <2>2, <2>6 DEF LoadedInOrder
  <1> QED
    BY <1>1 DEF LoadedInOrder

\* Timed steps are fired in the order of their seconds, because they stand in it
\* and are fired from the front.
LEMMA PlaysInOrder == ASSUME ScenarioInv PROVE PlayedInOrder
  <1> SUFFICES ASSUME call.pc = "idle", ~overlapped, NEW i \in Loaded, NEW j \in Loaded, Timed(i), Timed(j),
                      steps[i].at < steps[j].at, Fired(j)
               PROVE  Fired(i)
    BY DEF PlayedInOrder, Timed, Fired
  <1>1. /\ i \in Int /\ j \in Int /\ steps[i].at \in Int /\ steps[j].at \in Int
        /\ \A p, q \in Loaded : p < q /\ Timed(p) /\ Timed(q) => steps[p].at <= steps[q].at
    <2>1. LoadInv /\ ScenarioTypes /\ i \in Int /\ j \in Int
      BY DEF ScenarioInv, Loaded
    <2>2. /\ \A p \in Loaded : steps[p] \in Step
          /\ \A p, q \in Loaded : p < q /\ Timed(p) /\ Timed(q) => steps[p].at <= steps[q].at
      BY <2>1, Arranged
    <2> QED
      BY <2>1, <2>2, StepFields
  <1>2. i < j
    <2>1. CASE j < i
      BY <1>1, <2>1
    <2>2. CASE i = j
      BY <1>1, <2>2
    <2> QED
      BY <1>1, <2>1, <2>2
  <1> QED
    BY <1>2 DEF ScenarioInv, PlayInv, FrontFirst

\* The count of fires stays within what "repeat" and "times" say.
LEMMA FiresLimited == ASSUME ScenarioInv PROVE FiredAtMostTimes
  <1>1. Loaded \subseteq Index
    BY Constants DEF ScenarioInv, ScenarioTypes, Loaded, Index
  <1> QED
    BY <1>1 DEF ScenarioInv, StepsSound, StepSound, Limited, Limit, FiredAtMostTimes

\* The types the variables are declared with follow from the sharper ones.
LEMMA ScenarioTyped == ASSUME ScenarioInv PROVE ScenarioTypeOK
  <1>1. \A i \in Index : steps[i].fireCount \in Nat /\ steps[i].nextFireMs \in 0..Wrap-1
    BY StepFields DEF ScenarioInv, ScenarioTypes
  <1> QED
    BY <1>1 DEF ScenarioInv, ScenarioTypes, ScenarioTypeOK

\* Once all are spent, the last step for a parameter is the last that was fired.
LEMMA SettlesLast == ASSUME ScenarioInv PROVE FinalSettings
  <1> DEFINE U == UsableObjects
             Naming(k) == {i \in DOMAIN U : U[i].key = k}
             Later(i, j) == U[i].at > U[j].at \/ (U[i].at = U[j].at /\ i >= j)
  <1> SUFFICES ASSUME call.pc = "idle", ~overlapped, nSteps = Len(U),
                      \A i \in Loaded : steps[i].done /\ steps[i].trigger = "time" /\ steps[i].repeat <= 0,
                      NEW k \in Keys, NEW i \in Naming(k), \A j \in Naming(k) : Later(i, j)
               PROVE  settings[k] = U[i].set
    BY DEF FinalSettings
  <1>1. PICK o \in [Loaded -> Loaded] : Arrangement(o)
    BY DEF ScenarioInv, LoadInv
  <1>2. /\ U \in Seq(Objects) /\ DOMAIN U = Loaded
        /\ \A p \in Loaded : U[p] \in Objects
    BY UsableTyped DEF ScenarioInv, ScenarioTypes, Loaded
  <1>3. /\ \A p \in Loaded : /\ o[p] \in Loaded /\ steps[p] \in Step /\ StepSound(steps[p])
                             /\ Plan(steps[p]) = StepOf(U[o[p]])
        /\ \A p, q \in Loaded : p < q => Before(U, o[p], o[q])
        /\ \E m \in Loaded : o[m] = i
    <2>1. Loaded \subseteq Index
      BY Constants DEF ScenarioInv, ScenarioTypes, Loaded, Index
    <2>2. \A p \in Loaded : steps[p] \in Step /\ StepSound(steps[p])
      BY <2>1 DEF ScenarioInv, ScenarioTypes, StepsSound
    <2>3. i \in Loaded
      BY <1>2
    <2> HIDE DEF U
    <2> QED
      BY <1>1, <2>2, <2>3 DEF Arrangement, U
  <1>4. PICK m \in Loaded : o[m] = i
    BY <1>3
  <1> HIDE DEF U
  <1>5. ASSUME NEW p \in Loaded
        PROVE  /\ steps[p].key = U[o[p]].key /\ steps[p].set = U[o[p]].set
               /\ KeyOf(U[o[p]]) = U[o[p]].at /\ U[o[p]].at \in Int
    <2>1. U[o[p]] \in Objects /\ steps[p] \in Step /\ Plan(steps[p]) = StepOf(U[o[p]])
      BY <1>2, <1>3
    <2>2. Alike(Plan(steps[p]), steps[p])
      BY <2>1, PlanFields
    <2>3. /\ StepOf(U[o[p]]).set = U[o[p]].set /\ StepOf(U[o[p]]).key = U[o[p]].key
          /\ StepOf(U[o[p]]).trigger = "time" => KeyOf(U[o[p]]) = U[o[p]].at
          /\ KeyOf(U[o[p]]) \in Int
      BY <2>1, StepTyped
    <2> QED
      BY <2>1, <2>2, <2>3 DEF Alike
  <1>6. Fired(m)
    BY <1>3 DEF StepSound, Fired
  <1>7. ASSUME NEW j \in Loaded, j > m, steps[j].key = steps[m].key
        PROVE  FALSE
    <2>1. o[j] \in Naming(k) /\ o[j] \in Int /\ i \in Int
      BY <1>2, <1>3, <1>4, <1>5, <1>7 DEF Loaded
    <2>2. Later(i, o[j])
      BY <2>1
    <2>3. Before(U, i, o[j])
      BY <1>3, <1>4, <1>7 DEF Loaded
    <2>4. KeyOf(U[i]) = U[i].at /\ KeyOf(U[o[j]]) = U[o[j]].at /\ U[i].at \in Int /\ U[o[j]].at \in Int
      BY <1>4, <1>5
    <2> DEFINE a == U[i].at
               b == U[o[j]].at
               n == o[j]
    <2>5. a \in Int /\ b \in Int /\ n \in Int /\ (a > b \/ (a = b /\ i >= n)) /\ (a < b \/ (a = b /\ i < n))
      BY <2>1, <2>2, <2>3, <2>4 DEF Before
    <2> HIDE DEF a, b, n
    <2> QED
      BY <2>1, <2>5
  <1>8. settings[steps[m].key] = steps[m].set
    BY <1>6, <1>7 DEF ScenarioInv, PlayInv, LastSet, Plain, Timed
  <1> QED
    BY <1>4, <1>5, <1>8

\* For all documents, tables and clocks, and whatever overlaps: the table is the
\* document's, and, unless a tick ran while it was loaded or started, is played from
\* its front, each step as often as asked.
THEOREM ScenarioIsConsistent == ScenarioSpec => []ScenarioConsistent
  <1>1. ScenarioInv => ScenarioConsistent
    BY LoadsInOrder, PlaysInOrder, FiresLimited, ScenarioTyped DEF ScenarioConsistent
  <1> QED
    BY <1>1, ScenarioInductive, PTL

\* A play that no tick overlapped when it was loaded or started has, once it has
\* ended, spent all its steps, also when it is the second one, and has left each
\* parameter at the value of the last step that names it.
THEOREM PlaysOut == ScenarioSpec => []PlayedOut
  <1>1. ScenarioInv => PlayedOut
    BY SettlesLast DEF PlayedOut, ScenarioInv, PlayInv, Completed, RestartPlays
  <1> QED
    BY <1>1, ScenarioInductive, PTL

\* Unless a tick overlapped its load or start, no step is fired before its second has
\* come, also across a wrap of the clock, no repetition before its time, but for those
\* behind the wrap, and every tick leaves behind no step that is due.
THEOREM PlaysPunctually == ScenarioSpec => Punctual
  <1>1. /\ ScenarioInv /\ ScenarioInv' /\ [ScenarioNext]_scenarioVars
        => [FiredNotEarly /\ FiredWhenDue']_scenarioVars
    <2> SUFFICES ASSUME ScenarioInv, ScenarioInv', [ScenarioNext]_scenarioVars
                 PROVE  FiredNotEarly /\ FiredWhenDue'
      OBVIOUS
    <2>1. FiredNotEarly
      BY FiresNotEarly DEF ScenarioInv
    <2>2. FiredWhenDue'
      <3>1. CASE overlapped'
        BY <3>1 DEF FiredWhenDue
      <3>2. CASE ~overlapped'
        BY <3>2 DEF ScenarioInv, Timing
      <3> QED
        BY <3>1, <3>2
    <2> QED
      BY <2>1, <2>2
  <1> QED
    BY <1>1, ScenarioInductive, PTL DEF ScenarioSpec, Punctual

------------------------------------------------------------------------------
(* Profiles: the inductive invariant.                                       *)

\* What the array can hold of a profile, and a file.
Profile == [name : {n \in Names : Cut[n] = n}, params : {s \in Seq(Params) : Len(s) <= MaxParams}]
FileEntry == [name : Names, params : Seq(Params)]
Setting == [on : BOOLEAN, val : ParamValues]

\* Entries of one name are one, unless a longer name is cut to it.
Once(entries) ==
  \A i, j \in 1..Len(entries) :
    entries[i].name = entries[j].name /\ Own(entries[i].name) => i = j

\* An array, as a load or a program leaves it.
Table(entries) ==
  entries \in Seq(Profile) /\ Len(entries) <= MaxProfiles /\ Once(entries)

\* The types of the state; the lock is held for a save, behind its slot, or a delete.
ProfilesTypes ==
  /\ Table(profiles) /\ Table(stored)
  /\ file \in Seq(FileEntry) /\ Once(file)
  /\ phase \in {"idle", "collect", "open", "write"}
  /\ IF phase = "collect"
     THEN at \in [slot : 1..Len(profiles), next : 1..Len(Modules)] ELSE at = Nowhere
  /\ live \in [ModuleSet -> Setting] /\ applying \in Seq(Params)
  /\ running \in BOOLEAN /\ whole \in BOOLEAN
  /\ ~running => phase = "idle" /\ applied = "none"
  /\ applied \in Names \cup {"none"}
  /\ saved \in [Names -> [ModuleSet -> Setting]]

\* A table is the beginning of another, in which only its last profile may differ.
Begins(entries, all) ==
  /\ Len(entries) <= Len(all)
  /\ \A i \in 1..Len(entries) : entries[i].name = all[i].name
  /\ \A i \in 1..Len(entries)-1 : entries[i] = all[i]

\* And what is read of such a beginning, as far as no name has a quote.
Starts(entries, all) ==
  /\ Len(entries) <= Len(all)
  /\ \A i \in 1..Len(entries) : UnquotedTo(all, i) => entries[i].name = all[i].name
  /\ \A i \in 1..Len(entries)-1 : UnquotedTo(all, i) => entries[i] = all[i]

\* What a start would load, now and while the file is written.
FileInv ==
  /\ whole => running /\ phase = "idle" /\ file = profiles
  /\ phase = "write" => stored = profiles
  /\ Starts(LoadedFrom(file), stored)

\* The places taken by the first n modules of which these were on.
Cost(modules) ==
  [j \in DOMAIN Modules |-> IF modules[Modules[j]].on THEN 1 + Size[Modules[j]] ELSE 0]
Taken(modules, n) == SumTo(Cost(modules), n)

\* A parameter agrees with what a module was.
Agrees(p, modules) ==
  modules[p.module].on =>
    p.val = IF p.kind = "on" THEN 1 ELSE Printed(p.module, modules[p.module].val)
\* Among the parameters are those that bring the module back.
Restores(params, m, was) ==
  was.on => /\ \E k \in 1..Len(params) : params[k] = Param(m, "on", 1)
            /\ \E k \in 1..Len(params) : params[k] = Param(m, "val", Printed(m, was.val))

\* A profile tells the first n modules as they were, if it had room for them.
Tells(params, modules, n) ==
  Taken(modules, n) <= MaxParams =>
    /\ \A k \in 1..Len(params) : Agrees(params[k], modules)
    /\ \A j \in 1..n : Restores(params, Modules[j], modules[Modules[j]])

\* What the parameters of a profile tell of the first modules, and how many they are.
Collects(params, was, n) ==
  /\ \A k \in 1..Len(params) : \E i \in 1..n : params[k].module = Modules[i]
  /\ Tells(params, was, n)
  /\ Taken(was, n) <= MaxParams => Len(params) <= Taken(was, n)

\* The profile that is collected tells the modules read so far; it is not one that
\* is being applied.
Collected ==
  phase = "collect" =>
    /\ applied = "none" \/ applied # profiles[at.slot].name
    /\ Collects(profiles[at.slot].params, saved[profiles[at.slot].name], at.next - 1)

\* Every profile that nobody is writing tells what its save has read; so do those
\* a start would load.
Told(entries) ==
  \A i \in 1..Len(entries) :
    Own(entries[i].name) /\ ~(phase = "collect" /\ i = at.slot) =>
      Tells(entries[i].params, saved[entries[i].name], Len(Modules))
SavedInv == Told(profiles) /\ (~running => Told(LoadedFrom(file)))

\* A profile that is being applied will have brought back what was saved.
AppliedInv ==
  (applied # "none" /\ Own(applied) /\ Room(saved[applied]) <= MaxParams) =>
    /\ \A k \in 1..Len(applying) : Agrees(applying[k], saved[applied])
    /\ \A m \in ModuleSet :
         saved[applied][m].on =>
           /\ live[m].on \/ \E k \in 1..Len(applying) : applying[k] = Param(m, "on", 1)
           /\ live[m].val = Printed(m, saved[applied][m].val)
              \/ \E k \in 1..Len(applying) : applying[k] = Param(m, "val", Printed(m, saved[applied][m].val))

ProfilesInv == ProfilesTypes /\ FileInv /\ Collected /\ SavedInv /\ AppliedInv

------------------------------------------------------------------------------
(* What a load makes of a file.                                             *)

\* The constants have values the code can have, and each module is in the list once.
LEMMA ProfilesConstants ==
  /\ Cut \in [Names -> Names] /\ \A n \in Names : Cut[Cut[n]] = Cut[n] /\ Cut[n] \in Names
  /\ MaxParams \in Nat \ {0} /\ MaxProfiles \in Nat \ {0}
  /\ Len(Modules) \in Nat \ {0} /\ DOMAIN Modules = 1..Len(Modules)
  /\ \A j \in 1..Len(Modules) : Modules[j] \in ModuleSet
  /\ \A m \in ModuleSet : Size[m] \in Nat \ {0} /\ \E j \in 1..Len(Modules) : m = Modules[j]
  /\ \A i, j \in 1..Len(Modules) : Modules[i] = Modules[j] => i = j
  /\ \A m \in ModuleSet, v \in ParamValues : Printed(m, v) \in ParamValues
  <1> DEFINE S == ModuleSet
  <1>1. Modules \in Seq(S) /\ Modules # <<>>
    BY ProfilesAssumption
  <1>2. \A m \in S : \E j \in DOMAIN Modules : m = Modules[j]
    BY DEF ModuleSet, ToSet
  <1> HIDE DEF S
  <1>3. /\ Len(Modules) \in Nat \ {0} /\ DOMAIN Modules = 1..Len(Modules)
        /\ \A j \in 1..Len(Modules) : Modules[j] \in S
    BY <1>1, EmptySeq, LenProperties
  <1>4. \A m \in S : \E j \in 1..Len(Modules) : m = Modules[j]
    BY <1>2, <1>3
  <1>5. \A i, j \in 1..Len(Modules) : Modules[i] = Modules[j] => i = j
    BY <1>3, ProfilesAssumption
  <1>6. \A m \in S : Size[m] \in Nat \ {0}
    BY ProfilesAssumption DEF S
  <1>7. /\ Cut \in [Names -> Names] /\ \A n \in Names : Cut[Cut[n]] = Cut[n] /\ Cut[n] \in Names
    BY ProfilesAssumption
  <1>8. MaxParams \in Nat \ {0} /\ MaxProfiles \in Nat \ {0}
    BY ProfilesAssumption
  <1>9. ASSUME NEW m \in S, NEW v \in ParamValues PROVE Printed(m, v) \in ParamValues
    <2>1. CASE m \in Chances
      BY <2>1, ProfilesAssumption
    <2>2. CASE m \notin Chances
      BY <2>2 DEF Printed
    <2> QED
      BY <2>1, <2>2
  <1> QED
    BY <1>3, <1>4, <1>5, <1>6, <1>7, <1>8, <1>9 DEF S

\* The facts about sequences that are needed of entries and of parameters.
LEMMA EntriesAre ==
  ASSUME NEW s \in Seq(FileEntry)
  PROVE  Len(s) \in Nat /\ DOMAIN s = 1..Len(s) /\ \A i \in 1..Len(s) : s[i] \in FileEntry
  <1> DEFINE S == FileEntry
  <1>1. s \in Seq(S)
    OBVIOUS
  <1> HIDE DEF S
  <1>2. Len(s) \in Nat /\ DOMAIN s = 1..Len(s) /\ \A i \in 1..Len(s) : s[i] \in S
    BY <1>1, LenProperties
  <1> QED
    BY <1>2 DEF S

LEMMA ProfilesAre ==
  ASSUME NEW s \in Seq(Profile)
  PROVE  Len(s) \in Nat /\ DOMAIN s = 1..Len(s) /\ \A i \in 1..Len(s) : s[i] \in Profile
  <1> DEFINE S == Profile
  <1>1. s \in Seq(S)
    OBVIOUS
  <1> HIDE DEF S
  <1>2. Len(s) \in Nat /\ DOMAIN s = 1..Len(s) /\ \A i \in 1..Len(s) : s[i] \in S
    BY <1>1, LenProperties
  <1> QED
    BY <1>2 DEF S

LEMMA ParamsAre ==
  ASSUME NEW s \in Seq(Params)
  PROVE  Len(s) \in Nat /\ DOMAIN s = 1..Len(s) /\ \A i \in 1..Len(s) : s[i] \in Params
  <1> DEFINE S == Params
  <1>1. s \in Seq(S)
    OBVIOUS
  <1> HIDE DEF S
  <1>2. Len(s) \in Nat /\ DOMAIN s = 1..Len(s) /\ \A i \in 1..Len(s) : s[i] \in S
    BY <1>1, LenProperties
  <1> QED
    BY <1>2 DEF S

LEMMA IsProfiles ==
  ASSUME NEW n \in Nat, NEW s, s \in [1..n -> Profile]
  PROVE  s \in Seq(Profile) /\ Len(s) = n
  <1> DEFINE S == Profile
  <1>1. s \in [1..n -> S]
    OBVIOUS
  <1> HIDE DEF S
  <1>2. s \in Seq(S) /\ Len(s) = n
    BY <1>1, SeqDef
  <1> QED
    BY <1>2 DEF S

\* An array is a file as well.
LEMMA TableIsFile ==
  ASSUME NEW t, Table(t)
  PROVE  t \in Seq(FileEntry) /\ Once(t)
  <1> DEFINE S == Profile
             T == FileEntry
  <1>1. t \in Seq(S) /\ S \subseteq T
    BY DEF Table, Profile, FileEntry
  <1> HIDE DEF S, T
  <1>2. t \in Seq(T)
    BY <1>1, SeqMonotonic
  <1> QED
    BY <1>2 DEF T, Table

\* A chance is printed as a multiple of a tenth that is next to it.
LEMMA PrintedIs ==
  ASSUME NEW m \in Chances, NEW v \in Nat
  PROVE  Printed(m, v) % 10 = 0 /\ Printed(m, v) - v \in -5..5
  <1> DEFINE r == v % 10
             w == v - r
  <1>1. r \in 0..9
    OBVIOUS
  <1>2. w \in Int /\ w % 10 = 0 /\ (w + 10) % 10 = 0
    OBVIOUS
  <1>3. Printed(m, v) = IF r > 5 \/ (r = 5 /\ v \in TiesUp[m]) THEN v + (10 - r) ELSE w
    BY DEF Printed
  <1> HIDE DEF r
  <1>4. CASE r > 5 \/ (r = 5 /\ v \in TiesUp[m])
    <2>1. Printed(m, v) = v + (10 - r) /\ r >= 5
      BY <1>1, <1>3, <1>4
    <2>2. Printed(m, v) = w + 10
      BY <1>1, <2>1
    <2>3. Printed(m, v) - v \in -5..5
      BY <1>1, <2>1
    <2> HIDE DEF w
    <2> QED
      BY <1>2, <2>2, <2>3
  <1>5. CASE ~ (r > 5 \/ (r = 5 /\ v \in TiesUp[m]))
    <2>1. Printed(m, v) = w /\ r <= 5
      BY <1>1, <1>3, <1>5
    <2>2. Printed(m, v) - v \in -5..5
      BY <1>1, <2>1
    <2> QED
      BY <1>2, <2>1, <2>2
  <1> QED
    BY <1>4, <1>5

\* What is read of an entry: what its parameters exceed is left out.
Read(e) == [name |-> Behind[e.name], params |-> Fitting(e.params)]

\* What is fitted is a profile if its name is one, and a profile with a plain name is
\* left as it is.
LEMMA ReadIs ==
  ASSUME NEW e \in FileEntry
  PROVE  /\ Read(e).name = Behind[e.name]
         /\ Behind[e.name] \in Names /\ Cut[Behind[e.name]] = Behind[e.name] => Read(e) \in Profile
         /\ e \in Profile => Read(e).params = e.params
         /\ e \in Profile /\ Unquoted(e.name) => Read(e) = e
  <1> DEFINE n == IF Len(e.params) < MaxParams THEN Len(e.params) ELSE MaxParams
             q == SubSeq(e.params, 1, n)
             S == Params
  <1>1. e = [name |-> e.name, params |-> e.params] /\ e.name \in Names /\ e.params \in Seq(S)
    BY DEF FileEntry
  <1>2. Len(e.params) \in Nat /\ MaxParams \in Nat /\ \A k \in 1..Len(e.params) : e.params[k] \in S
    BY <1>1, ParamsAre, ProfilesConstants
  <1>3. n \in Nat /\ n <= MaxParams /\ n <= Len(e.params)
    BY <1>2
  <1>4. Read(e) = [name |-> Behind[e.name], params |-> q]
    BY DEF Read, Fitting
  <1> HIDE DEF n, S
  <1>5. q \in Seq(S) /\ Len(q) = n
    <2>1. \A k \in 1..n : e.params[k] \in S
      BY <1>2, <1>3
    <2>2. q \in Seq(S) /\ Len(q) = IF 1 <= n THEN n - 1 + 1 ELSE 0
      BY <1>3, <2>1, SubSeqProperties
    <2> QED
      BY <1>3, <2>2
  <1>6. ASSUME e \in Profile PROVE q = e.params
    <2>1. n = Len(e.params)
      BY <1>2, <1>6 DEF Profile, n
    <2> QED
      BY <1>1, <2>1, SubSeqFull
  <1> HIDE DEF q
  <1>7. Read(e).name = Behind[e.name] /\ Read(e).params = q
    BY <1>4
  <1>8. ASSUME Behind[e.name] \in Names, Cut[Behind[e.name]] = Behind[e.name] PROVE Read(e) \in Profile
    BY <1>3, <1>4, <1>5, <1>8 DEF Profile, S
  <1>9. ASSUME e \in Profile, Unquoted(e.name) PROVE Read(e) = e
    BY <1>1, <1>4, <1>6, <1>9 DEF Unquoted
  <1> QED
    BY <1>6, <1>7, <1>8, <1>9

\* How far the reading of a file has come.
ReadState == [profiles : Seq(Profile), inStep : BOOLEAN, over : BOOLEAN]

\* One entry more: its profile is added, or none, and certainly that of an entry with
\* a plain name that has a place, if reading is in step.
LEMMA OneIsRead ==
  ASSUME NEW s \in ReadState, NEW e \in FileEntry, Len(s.profiles) <= MaxProfiles
  PROVE  /\ ReadEntry(s, e) \in ReadState
         /\ \/ ReadEntry(s, e).profiles = s.profiles
            \/ /\ ReadEntry(s, e).profiles = Append(s.profiles, Read(e))
               /\ Len(s.profiles) < MaxProfiles /\ Read(e) \in Profile
         /\ s.inStep /\ ~s.over /\ Len(s.profiles) < MaxProfiles /\ Unquoted(e.name) /\ Cut[e.name] = e.name =>
              /\ ReadEntry(s, e).profiles = Append(s.profiles, Read(e)) /\ Read(e) \in Profile
              /\ ReadEntry(s, e).inStep = TRUE /\ ReadEntry(s, e).over = FALSE
  <1> DEFINE inStep == s.inStep # (e.name \in OddQuotes)
             name == Behind[e.name]
             done == s.over \/ Len(s.profiles) = MaxProfiles
             usable == name \in Names /\ Cut[name] = name
             t == ReadEntry(s, e)
             S == Profile
             a == Append(s.profiles, Read(e))
  <1>0. /\ s = [profiles |-> s.profiles, inStep |-> s.inStep, over |-> s.over]
        /\ s.profiles \in Seq(S) /\ s.inStep \in BOOLEAN /\ s.over \in BOOLEAN
        /\ Len(s.profiles) \in Nat /\ MaxProfiles \in Nat /\ e.name \in Names
    BY ProfilesAre, ProfilesConstants DEF ReadState, FileEntry
  <1>1. t = IF done THEN s
            ELSE IF ~inStep THEN [s EXCEPT !.inStep = FALSE]
            ELSE IF usable THEN [profiles |-> a, inStep |-> TRUE, over |-> FALSE]
            ELSE [s EXCEPT !.over = TRUE]
    BY DEF ReadEntry, Read
  <1>2. usable => Read(e) \in S
    BY ReadIs
  <1>3. usable => a \in Seq(S)
    <2> DEFINE x == Read(e)
    <2> HIDE DEF x, S
    <2> SUFFICES ASSUME usable PROVE Append(s.profiles, x) \in Seq(S)
      BY DEF x
    <2>1. x \in S
      BY <1>2 DEF x
    <2> QED
      BY <1>0, <2>1, AppendProperties
  <1>4. ASSUME s.inStep, ~s.over, Len(s.profiles) < MaxProfiles, Unquoted(e.name), Cut[e.name] = e.name
        PROVE  ~done /\ inStep /\ usable
    <2>1. ~done
      BY <1>0, <1>4
    <2>2. inStep
      BY <1>0, <1>4 DEF Unquoted
    <2>3. usable
      BY <1>0, <1>4 DEF Unquoted
    <2> QED
      BY <2>1, <2>2, <2>3
  <1> HIDE DEF inStep, usable, t, a, S, name
  <1>5. CASE done
    <2>1. t = s
      BY <1>1, <1>5
    <2> QED
      BY <1>4, <1>5, <2>1 DEF t, a, S
  <1>6. CASE ~done /\ ~inStep
    <2>1. t = [profiles |-> s.profiles, inStep |-> FALSE, over |-> s.over]
      BY <1>0, <1>1, <1>6
    <2>2. t \in ReadState /\ t.profiles = s.profiles
      BY <1>0, <2>1 DEF ReadState, S
    <2> QED
      BY <1>4, <1>6, <2>2 DEF t, a, S
  <1>7. CASE ~done /\ inStep /\ usable
    <2>1. t = [profiles |-> a, inStep |-> TRUE, over |-> FALSE]
      BY <1>1, <1>7
    <2>2. t \in ReadState /\ t.profiles = a /\ t.inStep = TRUE /\ t.over = FALSE
      BY <1>3, <1>7, <2>1 DEF ReadState, S
    <2>3. Len(s.profiles) < MaxProfiles /\ Read(e) \in S
      BY <1>0, <1>2, <1>7
    <2> QED
      BY <2>2, <2>3 DEF t, a, S
  <1>8. CASE ~done /\ inStep /\ ~usable
    <2>1. t = [profiles |-> s.profiles, inStep |-> s.inStep, over |-> TRUE]
      BY <1>0, <1>1, <1>8
    <2>2. t \in ReadState /\ t.profiles = s.profiles
      BY <1>0, <2>1 DEF ReadState, S
    <2> QED
      BY <1>4, <1>8, <2>2 DEF t, a, S
  <1> QED
    BY <1>5, <1>6, <1>7, <1>8

\* The states of reading the first n entries.
Reading(r, entries, n) ==
  r = [i \in 0..n |-> IF i = 0 THEN Start ELSE ReadEntry(r[i - 1], entries[i])]

\* There are such, though the definition refers to itself.
LEMMA ReadingExists ==
  ASSUME NEW entries, NEW n \in Nat
  PROVE  \E r : Reading(r, entries, n)
  <1> DEFINE S == {m \in Nat : \E r : Reading(r, entries, m)}
  <1>1. 0 \in S
    <2> DEFINE r == [i \in 0..0 |-> Start]
    <2>1. Reading(r, entries, 0)
      BY DEF Reading
    <2> QED
      BY <2>1
  <1>2. ASSUME NEW m \in Nat, m \in S PROVE m + 1 \in S
    <2>1. PICK r : Reading(r, entries, m)
      BY <1>2
    <2> DEFINE h == [i \in 0..m+1 |-> IF i = m + 1 THEN ReadEntry(r[m], entries[m + 1]) ELSE r[i]]
    <2>2. ASSUME NEW i \in 0..m+1
          PROVE  h[i] = IF i = 0 THEN Start ELSE ReadEntry(h[i - 1], entries[i])
      <3>1. CASE i = 0
        BY <2>1, <3>1 DEF Reading
      <3>2. CASE i \in 1..m
        <4>1. h[i] = r[i] /\ h[i - 1] = r[i - 1]
          BY <3>2
        <4>2. i \in 0..m /\ i # 0
          BY <3>2
        <4> HIDE DEF h
        <4> QED
          BY <2>1, <4>1, <4>2 DEF Reading
      <3>3. CASE i = m + 1
        <4>1. h[i] = ReadEntry(r[m], entries[m + 1]) /\ h[i - 1] = r[m] /\ i # 0
          BY <3>3
        <4> HIDE DEF h
        <4> QED
          BY <3>3, <4>1
      <3> QED
        BY <3>1, <3>2, <3>3
    <2>3. h = [i \in 0..m+1 |-> h[i]]
      OBVIOUS
    <2> HIDE DEF h
    <2>4. Reading(h, entries, m + 1)
      BY <2>2, <2>3 DEF Reading
    <2> QED
      BY <2>4
  <1> HIDE DEF S
  <1>3. Nat \subseteq S
    BY <1>1, <1>2, Induction
  <1> QED
    BY <1>3 DEF S

\* The first m entries have plain names, short enough, and there is room for them.
Readable(entries, m) ==
  m <= MaxProfiles /\ UnquotedTo(entries, m) /\ \A j \in 1..m : Cut[entries[j].name] = entries[j].name

\* What has been read of the first i entries: profiles of theirs, one of each name of
\* its own, and all that are readable.
ReadOf(s, entries, i) ==
  /\ s \in ReadState /\ Len(s.profiles) <= MaxProfiles /\ Len(s.profiles) <= i
  /\ Once(s.profiles)
  /\ \A p \in 1..Len(s.profiles) : \E k \in 1..i : s.profiles[p] = Read(entries[k])
  /\ \A m \in 0..i : Readable(entries, m) =>
       m <= Len(s.profiles) /\ \A k \in 1..m : s.profiles[k] = Read(entries[k])
  /\ Readable(entries, i) => s.inStep /\ ~s.over

LEMMA ReadOfNothing ==
  ASSUME NEW entries
  PROVE  ReadOf(Start, entries, 0)
  <1> DEFINE S == Profile
  <1>1. <<>> \in Seq(S) /\ Len(<<>>) = 0
    BY EmptySeq
  <1>2. Once(<<>>)
    BY <1>1 DEF Once
  <1>3. /\ Start \in ReadState /\ Start.profiles = <<>> /\ Start.inStep = TRUE /\ Start.over = FALSE
    BY <1>1 DEF Start, ReadState
  <1>4. MaxProfiles \in Nat
    BY ProfilesConstants
  <1> QED
    BY <1>1, <1>2, <1>3, <1>4 DEF ReadOf

LEMMA ReadOfNext ==
  ASSUME NEW entries \in Seq(FileEntry), Once(entries),
         NEW i \in Nat, i + 1 \in 1..Len(entries), NEW s, ReadOf(s, entries, i)
  PROVE  ReadOf(ReadEntry(s, entries[i + 1]), entries, i + 1)
  <1> DEFINE t == ReadEntry(s, entries[i + 1])
             e == entries[i + 1]
             l == Len(s.profiles)
             S == Profile
  <1>0. /\ s \in ReadState /\ e \in FileEntry /\ s.profiles \in Seq(S) /\ l \in Nat /\ l <= MaxProfiles /\ l <= i
        /\ MaxProfiles \in Nat /\ \A k \in 1..Len(entries) : entries[k] \in FileEntry
    <2>1. s \in ReadState /\ l <= MaxProfiles /\ l <= i
      BY DEF ReadOf
    <2>2. s.profiles \in Seq(S) /\ l \in Nat
      BY <2>1, ProfilesAre DEF ReadState
    <2> QED
      BY <2>1, <2>2, EntriesAre, ProfilesConstants
  <1>1. /\ t \in ReadState
        /\ \/ t.profiles = s.profiles
           \/ t.profiles = Append(s.profiles, Read(e)) /\ l < MaxProfiles /\ Read(e) \in S
        /\ s.inStep /\ ~s.over /\ l < MaxProfiles /\ Unquoted(e.name) /\ Cut[e.name] = e.name =>
             t.profiles = Append(s.profiles, Read(e)) /\ Read(e) \in S /\ t.inStep = TRUE /\ t.over = FALSE
    BY <1>0, OneIsRead
  <1>2. Readable(entries, i + 1) =>
          /\ Readable(entries, i) /\ l = i /\ s.inStep /\ ~s.over /\ l < MaxProfiles
          /\ Unquoted(e.name) /\ Cut[e.name] = e.name
    <2> SUFFICES ASSUME Readable(entries, i + 1)
                 PROVE  /\ Readable(entries, i) /\ l = i /\ s.inStep /\ ~s.over /\ l < MaxProfiles
                        /\ Unquoted(e.name) /\ Cut[e.name] = e.name
      OBVIOUS
    <2>1. i + 1 \in 1..i+1 /\ \A j \in 1..i : j \in 1..i+1
      OBVIOUS
    <2>2. Unquoted(e.name) /\ Cut[e.name] = e.name
      BY <2>1 DEF Readable, UnquotedTo
    <2>3. Readable(entries, i)
      BY <1>0, <2>1 DEF Readable, UnquotedTo
    <2>4. i + 1 <= MaxProfiles
      BY DEF Readable
    <2>5. i <= l /\ s.inStep /\ ~s.over
      BY <2>3 DEF ReadOf
    <2> QED
      BY <1>0, <2>2, <2>3, <2>4, <2>5
  <1> HIDE DEF t, e, l, S
  <1>3. CASE t.profiles = Append(s.profiles, Read(e)) /\ l < MaxProfiles /\ Read(e) \in S
    <2> DEFINE x == Read(e)
               q == Append(s.profiles, x)
    <2> HIDE DEF x
    <2>1. /\ q \in Seq(S) /\ Len(q) = l + 1 /\ q[l + 1] = x /\ \A p \in 1..l : q[p] = s.profiles[p]
      BY <1>0, <1>3, AppendProperties DEF l, x
    <2> HIDE DEF q
    <2>2. t.profiles = q
      BY <1>3 DEF q, x
    <2>3. \A p \in 1..l : \E k \in 1..i : s.profiles[p] = Read(entries[k])
      BY DEF ReadOf, l
    <2>4. \A p \in 1..l+1 : \E k \in 1..i+1 : q[p] = Read(entries[k])
      <3>1. \A p \in 1..l : \E k \in 1..i+1 : q[p] = Read(entries[k])
        <4> TAKE p \in 1..l
        <4>1. PICK k \in 1..i : s.profiles[p] = Read(entries[k])
          BY <2>3
        <4>2. k \in 1..i+1
          OBVIOUS
        <4> QED
          BY <2>1, <4>1, <4>2
      <3>2. i + 1 \in 1..i+1 /\ q[l + 1] = Read(entries[i + 1])
        BY <2>1 DEF x, e
      <3>3. \A p \in 1..l+1 : p \in 1..l \/ p = l + 1
        BY <1>0
      <3> QED
        BY <3>1, <3>2, <3>3
    <2>5. ASSUME NEW p \in 1..l, s.profiles[p].name = x.name, Own(x.name) PROVE FALSE
      <3>1. PICK k \in 1..i : s.profiles[p] = Read(entries[k])
        BY <2>3
      <3>2. k \in 1..Len(entries) /\ k # i + 1
        BY <1>0
      <3>3. Behind[entries[k].name] = x.name /\ entries[k].name \in Names
        BY <1>0, <2>5, <3>1, <3>2, ReadIs DEF FileEntry
      <3>4. Behind[e.name] = x.name /\ e.name \in Names
        BY <1>0, ReadIs DEF x, FileEntry
      <3>5. entries[k].name = x.name /\ e.name = x.name
        BY <2>5, <3>3, <3>4 DEF Own
      <3> QED
        BY <2>5, <3>2, <3>5 DEF Once, e
    <2>6. Once(q)
      <3> SUFFICES ASSUME NEW p \in 1..l+1, NEW o \in 1..l+1, q[p].name = q[o].name, Own(q[p].name), p # o
                   PROVE  FALSE
        BY <2>1 DEF Once
      <3>1. (p \in 1..l \/ p = l + 1) /\ (o \in 1..l \/ o = l + 1)
        BY <1>0
      <3>2. CASE p \in 1..l /\ o \in 1..l
        <4>1. s.profiles[p].name = s.profiles[o].name /\ Own(s.profiles[p].name)
          BY <2>1, <3>2
        <4> QED
          BY <3>2, <4>1 DEF ReadOf, Once, l
      <3>3. CASE p = l + 1 /\ o \in 1..l
        <4>1. s.profiles[o].name = x.name /\ Own(x.name)
          BY <2>1, <3>3
        <4> QED
          BY <2>5, <3>3, <4>1
      <3>4. CASE o = l + 1 /\ p \in 1..l
        <4>1. s.profiles[p].name = x.name /\ Own(x.name)
          BY <2>1, <3>4
        <4> QED
          BY <2>5, <3>4, <4>1
      <3> QED
        BY <3>1, <3>2, <3>3, <3>4
    <2>7. ASSUME NEW m \in 0..i+1, Readable(entries, m)
          PROVE  m <= l + 1 /\ \A k \in 1..m : q[k] = Read(entries[k])
      <3>1. CASE m \in 0..i
        <4>1. m <= l /\ \A k \in 1..m : s.profiles[k] = Read(entries[k])
          BY <2>7, <3>1 DEF ReadOf, l
        <4>2. \A k \in 1..m : k \in 1..l
          BY <1>0, <4>1
        <4> QED
          BY <1>0, <2>1, <4>1, <4>2
      <3>2. CASE m = i + 1
        <4>1. l = i /\ Readable(entries, i)
          BY <1>2, <2>7, <3>2
        <4>2. \A k \in 1..i : s.profiles[k] = Read(entries[k])
          BY <4>1 DEF ReadOf
        <4>3. \A k \in 1..i+1 : k \in 1..l \/ k = l + 1
          BY <4>1
        <4>4. q[l + 1] = Read(entries[i + 1])
          BY <2>1 DEF x, e
        <4> QED
          BY <2>1, <3>2, <4>1, <4>2, <4>3, <4>4
      <3> QED
        BY <3>1, <3>2
    <2>8. Readable(entries, i + 1) => t.inStep /\ ~t.over
      BY <1>1, <1>2
    <2>9. l + 1 <= MaxProfiles /\ l + 1 <= i + 1
      BY <1>0, <1>3
    <2> QED
      BY <1>1, <2>1, <2>2, <2>4, <2>6, <2>7, <2>8, <2>9 DEF ReadOf, t
  <1>4. CASE t.profiles = s.profiles /\ ~ (t.profiles = Append(s.profiles, Read(e)) /\ Read(e) \in S)
    <2>1. ~Readable(entries, i + 1)
      BY <1>1, <1>2, <1>4
    <2>2. \A m \in 0..i+1 : Readable(entries, m) => m \in 0..i
      BY <2>1
    <2>3. \A m \in 0..i+1 : Readable(entries, m) =>
            m <= l /\ \A k \in 1..m : s.profiles[k] = Read(entries[k])
      BY <2>2 DEF ReadOf, l
    <2>4. \A p \in 1..l : \E k \in 1..i+1 : s.profiles[p] = Read(entries[k])
      <3> TAKE p \in 1..l
      <3>1. PICK k \in 1..i : s.profiles[p] = Read(entries[k])
        BY DEF ReadOf, l
      <3>2. k \in 1..i+1
        OBVIOUS
      <3> QED
        BY <3>1, <3>2
    <2>5. Once(s.profiles) /\ l <= i + 1
      BY <1>0 DEF ReadOf
    <2> QED
      BY <1>0, <1>1, <1>4, <2>1, <2>3, <2>4, <2>5 DEF ReadOf, t, l
  <1>5. \/ t.profiles = Append(s.profiles, Read(e)) /\ l < MaxProfiles /\ Read(e) \in S
        \/ t.profiles = s.profiles /\ ~ (t.profiles = Append(s.profiles, Read(e)) /\ Read(e) \in S)
    <2>1. CASE t.profiles = Append(s.profiles, Read(e)) /\ Read(e) \in S
      <3> DEFINE x == Read(e)
      <3> HIDE DEF x
      <3>1. Len(Append(s.profiles, x)) = l + 1
        BY <1>0, <2>1, AppendProperties DEF l, x
      <3>2. t.profiles # s.profiles
        BY <1>0, <2>1, <3>1 DEF l, x
      <3> QED
        BY <1>1, <2>1, <3>2
    <2> QED
      BY <1>1, <2>1
  <1> QED
    BY <1>3, <1>4, <1>5

\* A load makes an array of some of the file's entries, and has those that are readable.
LEMMA Loads ==
  ASSUME NEW entries \in Seq(FileEntry), Once(entries)
  PROVE  /\ Table(LoadedFrom(entries)) /\ Len(LoadedFrom(entries)) <= Len(entries)
         /\ \A p \in 1..Len(LoadedFrom(entries)) :
              \E k \in 1..Len(entries) : LoadedFrom(entries)[p] = Read(entries[k])
         /\ \A m \in 0..Len(entries) : Readable(entries, m) =>
              /\ m <= Len(LoadedFrom(entries))
              /\ \A k \in 1..m : LoadedFrom(entries)[k] = Read(entries[k])
  <1> DEFINE n == Len(entries)
             r == CHOOSE f : f = [i \in 0..n |-> IF i = 0 THEN Start ELSE ReadEntry(f[i - 1], entries[i])]
  <1>0. n \in Nat
    BY EntriesAre
  <1>1. Reading(r, entries, n)
    <2> HIDE DEF n
    <2> QED
      BY <1>0, ReadingExists DEF Reading
  <1>2. LoadedFrom(entries) = r[n].profiles
    BY DEF LoadedFrom
  <1> HIDE DEF r
  <1>3. /\ r[0] = Start
        /\ \A i \in Nat : i + 1 \in 1..n => r[i + 1] = ReadEntry(r[i], entries[i + 1])
    <2> HIDE DEF n
    <2>1. \A i \in 0..n : r[i] = IF i = 0 THEN Start ELSE ReadEntry(r[i - 1], entries[i])
      BY <1>1 DEF Reading
    <2>2. r[0] = Start
      BY <1>0, <2>1
    <2>3. ASSUME NEW i \in Nat, i + 1 \in 1..n PROVE r[i + 1] = ReadEntry(r[i], entries[i + 1])
      <3>1. i + 1 \in 0..n /\ i + 1 # 0 /\ (i + 1) - 1 = i
        BY <1>0, <2>3
      <3>2. r[i + 1] = ReadEntry(r[(i + 1) - 1], entries[i + 1])
        BY <2>1, <3>1
      <3> QED
        BY <3>1, <3>2
    <2> QED
      BY <2>2, <2>3
  <1> DEFINE S == {i \in Nat : i <= n => ReadOf(r[i], entries, i)}
  <1>4. 0 \in S
    BY <1>3, ReadOfNothing
  <1>5. ASSUME NEW i \in Nat, i \in S PROVE i + 1 \in S
    <2> SUFFICES ASSUME i + 1 <= n PROVE ReadOf(r[i + 1], entries, i + 1)
      OBVIOUS
    <2>1. i + 1 \in 1..n /\ ReadOf(r[i], entries, i)
      BY <1>0, <1>5
    <2>2. ReadOf(ReadEntry(r[i], entries[i + 1]), entries, i + 1)
      BY <2>1, ReadOfNext
    <2> QED
      BY <1>3, <2>1, <2>2
  <1> HIDE DEF S
  <1>6. Nat \subseteq S
    BY <1>4, <1>5, Induction
  <1>7. ReadOf(r[n], entries, n)
    BY <1>0, <1>6 DEF S
  <1> HIDE DEF n
  <1>8. Table(r[n].profiles)
    BY <1>7 DEF ReadOf, ReadState, Table
  <1> QED
    BY <1>2, <1>7, <1>8 DEF ReadOf, n

\* What is loaded of an array: those of its own names are as they were, and so are all
\* before the first name with a quote.
LEMMA LoadsTable ==
  ASSUME NEW t, Table(t)
  PROVE  /\ Table(LoadedFrom(t)) /\ Len(LoadedFrom(t)) <= Len(t)
         /\ \A p \in 1..Len(LoadedFrom(t)) : Own(LoadedFrom(t)[p].name) =>
              \E k \in 1..Len(t) : /\ LoadedFrom(t)[p].name = t[k].name
                                   /\ LoadedFrom(t)[p].params = t[k].params
         /\ \A i \in 1..Len(t) : UnquotedTo(t, i) => i <= Len(LoadedFrom(t)) /\ LoadedFrom(t)[i] = t[i]
         /\ UnquotedTo(t, Len(t)) => LoadedFrom(t) = t
  <1> DEFINE r == LoadedFrom(t)
             S == Profile
  <1>0. /\ t \in Seq(S) /\ t \in Seq(FileEntry) /\ Once(t) /\ Len(t) \in Nat
        /\ \A k \in 1..Len(t) : t[k] \in S /\ t[k] \in FileEntry
        /\ Len(t) <= MaxProfiles /\ MaxProfiles \in Nat
    BY TableIsFile, ProfilesAre, EntriesAre, ProfilesConstants DEF Table
  <1>1. /\ Table(r) /\ Len(r) <= Len(t)
        /\ \A p \in 1..Len(r) : \E k \in 1..Len(t) : r[p] = Read(t[k])
        /\ \A m \in 0..Len(t) : Readable(t, m) => m <= Len(r) /\ \A k \in 1..m : r[k] = Read(t[k])
    BY <1>0, Loads
  <1> HIDE DEF r
  <1>2. Len(r) \in Nat /\ r \in Seq(S) /\ \A p \in 1..Len(r) : r[p] \in S
    BY <1>1, ProfilesAre DEF Table
  <1>3. ASSUME NEW p \in 1..Len(r), Own(r[p].name)
        PROVE  \E k \in 1..Len(t) : r[p].name = t[k].name /\ r[p].params = t[k].params
    <2>1. PICK k \in 1..Len(t) : r[p] = Read(t[k])
      BY <1>1
    <2>2. t[k] \in Profile /\ t[k] \in FileEntry
      BY <1>0
    <2>3. r[p].name = Behind[t[k].name] /\ r[p].params = t[k].params
      BY <2>1, <2>2, ReadIs
    <2>4. t[k].name \in Names
      BY <2>2 DEF Profile
    <2>5. t[k].name = r[p].name
      BY <1>3, <2>3, <2>4 DEF Own
    <2> QED
      BY <2>3, <2>5
  <1>4. ASSUME NEW i \in 0..Len(t), UnquotedTo(t, i)
        PROVE  i <= Len(r) /\ \A k \in 1..i : r[k] = t[k]
    <2>1. \A k \in 1..i : k \in 1..Len(t)
      BY <1>0
    <2>2. \A k \in 1..i : Cut[t[k].name] = t[k].name
      BY <1>0, <2>1 DEF Profile
    <2>3. Readable(t, i)
      BY <1>0, <1>4, <2>2 DEF Readable
    <2>4. i <= Len(r) /\ \A k \in 1..i : r[k] = Read(t[k])
      BY <1>1, <2>3
    <2>5. ASSUME NEW k \in 1..i PROVE Read(t[k]) = t[k]
      <3>1. t[k] \in Profile /\ t[k] \in FileEntry /\ Unquoted(t[k].name)
        BY <1>0, <1>4, <2>1 DEF UnquotedTo
      <3> QED
        BY <3>1, ReadIs
    <2> QED
      BY <2>4, <2>5
  <1>5. ASSUME NEW i \in 1..Len(t), UnquotedTo(t, i) PROVE i <= Len(r) /\ r[i] = t[i]
    <2>1. i \in 0..Len(t) /\ i \in 1..i
      OBVIOUS
    <2> QED
      BY <1>4, <1>5, <2>1
  <1>6. ASSUME UnquotedTo(t, Len(t)) PROVE r = t
    <2>1. Len(r) = Len(t) /\ \A k \in 1..Len(t) : r[k] = t[k]
      BY <1>0, <1>1, <1>2, <1>4, <1>6
    <2> HIDE DEF S
    <2> QED
      BY <1>0, <1>2, <2>1, SeqEqual
  <1> QED
    BY <1>1, <1>3, <1>5, <1>6 DEF r

\* What is loaded of a beginning of an array starts as the array does.
LEMMA LoadsBeginning ==
  ASSUME NEW t, Table(t), NEW b, Table(b), Begins(b, t)
  PROVE  Starts(LoadedFrom(b), t)
  <1> DEFINE r == LoadedFrom(b)
  <1>1. /\ Table(r) /\ Len(r) <= Len(b)
        /\ \A i \in 1..Len(b) : UnquotedTo(b, i) => i <= Len(r) /\ r[i] = b[i]
    BY LoadsTable
  <1> HIDE DEF r
  <1>2. Len(r) \in Nat /\ Len(b) \in Nat /\ Len(t) \in Nat
    BY <1>1, ProfilesAre DEF Table
  <1>3. /\ Len(b) <= Len(t) /\ \A i \in 1..Len(b) : b[i].name = t[i].name
        /\ \A i \in 1..Len(b)-1 : b[i] = t[i]
    BY DEF Begins
  <1>4. ASSUME NEW i \in 1..Len(r), UnquotedTo(t, i) PROVE i \in 1..Len(b) /\ r[i] = b[i]
    <2>1. i \in 1..Len(b) /\ \A j \in 1..i : j \in 1..Len(b)
      BY <1>1, <1>2
    <2>2. UnquotedTo(b, i)
      BY <1>3, <1>4, <2>1 DEF UnquotedTo
    <2> QED
      BY <1>1, <2>1, <2>2
  <1>5. ASSUME NEW i \in 1..Len(r), UnquotedTo(t, i) PROVE r[i].name = t[i].name
    BY <1>3, <1>4, <1>5
  <1>6. ASSUME NEW i \in 1..Len(r)-1, UnquotedTo(t, i) PROVE r[i] = t[i]
    <2>1. i \in 1..Len(r) /\ i \in 1..Len(b)-1
      BY <1>1, <1>2
    <2> QED
      BY <1>3, <1>4, <1>6, <2>1
  <1>7. Len(r) <= Len(t)
    BY <1>1, <1>2, <1>3
  <1> QED
    BY <1>5, <1>6, <1>7 DEF Starts, r

------------------------------------------------------------------------------
(* What a write leaves that stops.                                          *)

\* An entry that was cut is a profile of the same name.
LEMMA CutEntriesAre ==
  ASSUME NEW e \in Profile, NEW c \in CutEntries(e)
  PROVE  c \in Profile /\ c.name = e.name
  <1> DEFINE S == Params
             l == Len(e.params)
  <1>0. /\ e = [name |-> e.name, params |-> e.params] /\ e.name \in Names /\ Cut[e.name] = e.name
        /\ e.params \in Seq(S) /\ l <= MaxParams
    BY DEF Profile
  <1>1. l \in Nat /\ \A k \in 1..l : e.params[k] \in S
    BY <1>0, ParamsAre
  <1>2. CASE c = [e EXCEPT !.params = <<>>]
    <2>1. c = [name |-> e.name, params |-> <<>>]
      BY <1>0, <1>2
    <2>2. <<>> \in Seq(S) /\ Len(<<>>) = 0
      BY EmptySeq
    <2> QED
      BY <1>0, <2>1, <2>2, ProfilesConstants DEF Profile
  <1>3. CASE \E k \in DOMAIN e.params : \E p \in CutParam(e.params[k]) :
               c = [e EXCEPT !.params = Append(SubSeq(e.params, 1, k - 1), p)]
    <2>0. PICK k \in 1..l : \E p \in CutParam(e.params[k]) :
                 c = [e EXCEPT !.params = Append(SubSeq(e.params, 1, k - 1), p)]
      BY <1>0, <1>3, ParamsAre
    <2>1. PICK p \in CutParam(e.params[k]) :
                 c = [e EXCEPT !.params = Append(SubSeq(e.params, 1, k - 1), p)]
      BY <2>0
    <2>2. p \in S
      <3>1. e.params[k] \in Params
        BY <1>1
      <3>2. PICK v \in IF e.params[k].kind = "on" THEN {0, 1} ELSE ParamValues :
                   p = [e.params[k] EXCEPT !.val = v]
        BY <2>1 DEF CutParam
      <3>3. CASE e.params[k] \in [module : ModuleSet, kind : {"on"}, val : {0, 1}]
        BY <3>2, <3>3 DEF Params
      <3>4. CASE e.params[k] \in [module : ModuleSet, kind : {"val"}, val : ParamValues]
        BY <3>2, <3>4 DEF Params
      <3> QED
        BY <3>1, <3>3, <3>4 DEF Params
    <2> DEFINE b == SubSeq(e.params, 1, k - 1)
               q == Append(b, p)
    <2> HIDE DEF S
    <2>3. b \in Seq(S) /\ Len(b) = k - 1
      <3>1. k - 1 \in 0..l /\ k \in Nat /\ \A i \in 1..k-1 : e.params[i] \in S
        BY <1>1
      <3>2. /\ b \in Seq(S) /\ Len(b) = IF 1 <= k - 1 THEN (k - 1) - 1 + 1 ELSE 0
        BY <1>1, <3>1, SubSeqProperties
      <3> QED
        BY <1>1, <3>2
    <2> HIDE DEF b, l
    <2>4. q \in Seq(S) /\ Len(q) = (k - 1) + 1
      BY <2>2, <2>3, AppendProperties
    <2>5. c = [name |-> e.name, params |-> q]
      <3>1. c = [e EXCEPT !.params = q]
        BY <2>1 DEF b
      <3> HIDE DEF q
      <3> QED
        BY <1>0, <3>1
    <2> HIDE DEF q
    <2>6. Len(q) <= MaxParams
      BY <1>0, <1>1, <2>4, ProfilesConstants
    <2> QED
      BY <1>0, <2>4, <2>5, <2>6 DEF Profile, S
  <1> QED
    BY <1>2, <1>3 DEF CutEntries

\* What begins an array is an array.
LEMMA BeginIsTable ==
  ASSUME NEW t, Table(t), NEW b \in Seq(Profile), Begins(b, t)
  PROVE  Table(b)
  <1>1. Len(b) \in Nat /\ Len(t) \in Nat /\ MaxProfiles \in Nat
    BY ProfilesAre, ProfilesConstants DEF Table
  <1>2. Once(b)
    BY <1>1 DEF Table, Once, Begins
  <1> QED
    BY <1>1, <1>2 DEF Table, Begins

\* A write that stops leaves an array, which begins the one it was to write.
LEMMA BeginningsAre ==
  ASSUME NEW t, Table(t), NEW b \in Beginnings(t)
  PROVE  Table(b) /\ Begins(b, t)
  <1> DEFINE S == Profile
             l == Len(t)
  <1>0. l \in Nat /\ t \in Seq(S) /\ \A i \in 1..l : t[i] \in S
    BY ProfilesAre DEF Table
  <1>1. PICK n \in 0..l : \/ b = SubSeq(t, 1, n)
                          \/ n # l /\ \E e \in CutEntries(t[n + 1]) : b = Append(SubSeq(t, 1, n), e)
    BY DEF Beginnings
  <1> DEFINE a == SubSeq(t, 1, n)
  <1>2. a \in Seq(S) /\ Len(a) = n /\ \A i \in 1..n : a[i] = t[i]
    <2> HIDE DEF S
    <2>1. \A i \in 1..n : t[i] \in S
      BY <1>0
    <2>2. /\ a \in Seq(S) /\ Len(a) = IF 1 <= n THEN n - 1 + 1 ELSE 0
          /\ \A i \in 1..n-1+1 : a[i] = t[1 + i - 1]
      BY <1>0, <2>1, SubSeqProperties
    <2> HIDE DEF a, l
    <2> QED
      BY <1>0, <2>2
  <1> HIDE DEF a
  <1>3. CASE b = a
    <2>1. Begins(b, t)
      BY <1>0, <1>2, <1>3 DEF Begins
    <2> QED
      BY <1>2, <1>3, <2>1, BeginIsTable
  <1>4. ASSUME n # l, NEW e \in CutEntries(t[n + 1]), b = Append(a, e)
        PROVE  Table(b) /\ Begins(b, t)
    <2>1. n + 1 \in 1..l /\ t[n + 1] \in Profile /\ n \in Nat
      BY <1>0, <1>4
    <2>2. e \in S /\ e.name = t[n + 1].name
      BY <1>4, <2>1, CutEntriesAre
    <2> HIDE DEF S
    <2>3. b \in Seq(S) /\ Len(b) = n + 1 /\ b[n + 1] = e /\ \A i \in 1..n : b[i] = a[i]
      BY <1>2, <1>4, <2>2, AppendProperties
    <2>4. Begins(b, t)
      <3> HIDE DEF l
      <3>1. Len(b) <= l
        BY <1>0, <2>1, <2>3
      <3>2. \A i \in 1..n : b[i] = t[i]
        BY <1>2, <2>3
      <3>3. \A i \in 1..n+1 : b[i].name = t[i].name
        BY <2>1, <2>2, <2>3, <3>2
      <3>4. \A i \in 1..(n+1)-1 : b[i] = t[i]
        BY <2>1, <3>2
      <3> QED
        BY <2>3, <3>1, <3>3, <3>4 DEF Begins, l
    <2> QED
      BY <2>3, <2>4, BeginIsTable DEF S
  <1> QED
    BY <1>1, <1>3, <1>4 DEF a, l

------------------------------------------------------------------------------
(* What saving, collecting and deleting make of the array.                  *)

\* The slot of a name is the first with it.
LEMMA SlotIs ==
  ASSUME Table(profiles), NEW n
  PROVE  /\ Slots(n) # {} => /\ FirstSlot(n) \in 1..Len(profiles)
                             /\ profiles[FirstSlot(n)].name = n /\ n \in Names /\ Cut[n] = n
         /\ Slots(n) = {} => \A i \in 1..Len(profiles) : profiles[i].name # n
  <1>1. /\ DOMAIN profiles = 1..Len(profiles) /\ Len(profiles) \in Nat
        /\ \A i \in 1..Len(profiles) : profiles[i] \in Profile
    BY ProfilesAre DEF Table
  <1>2. ASSUME Slots(n) # {}
        PROVE  /\ FirstSlot(n) \in 1..Len(profiles) /\ profiles[FirstSlot(n)].name = n
               /\ n \in Names /\ Cut[n] = n
    <2> DEFINE S == Slots(n)
    <2>1. S \subseteq Nat /\ S # {}
      BY <1>1, <1>2 DEF Slots
    <2>2. FirstSlot(n) \in S
      <3> HIDE DEF S
      <3>1. \E i \in S : \A j \in S : i <= j
        BY <2>1, LeastNumber
      <3> QED
        BY <3>1 DEF FirstSlot, S
    <2> QED
      BY <1>1, <2>2 DEF Slots, Profile
  <1>3. ASSUME Slots(n) = {} PROVE \A i \in 1..Len(profiles) : profiles[i].name # n
    BY <1>1, <1>3 DEF Slots
  <1> QED
    BY <1>2, <1>3

\* A save makes a profile of a name empty, or appends one.
LEMMA SaveIs ==
  ASSUME Table(profiles), NEW n \in Names, Save(n)
  PROVE  /\ Slot(n) \in 1..Len(profiles')
         /\ profiles' \in Seq(Profile)
         /\ profiles'[Slot(n)] = [name |-> Cut[n], params |-> <<>>]
         /\ \A i \in 1..Len(profiles') : i # Slot(n) => i \in 1..Len(profiles) /\ profiles'[i] = profiles[i]
         /\ IF Slot(n) \in 1..Len(profiles)
            THEN Len(profiles') = Len(profiles) /\ profiles[Slot(n)].name = n /\ Cut[n] = n
            ELSE /\ profiles' = Append(profiles, [name |-> Cut[n], params |-> <<>>])
                 /\ \A i \in 1..Len(profiles) : profiles[i].name # n
  <1> DEFINE k == Slot(n)
             l == Len(profiles)
             e == [name |-> Cut[n], params |-> <<>>]
             S == Profile
  <1>0. l \in Nat /\ profiles \in Seq(S) /\ DOMAIN profiles = 1..l
    BY ProfilesAre DEF Table
  <1>1. e \in S
    <2> DEFINE T == Params
    <2>1. <<>> \in Seq(T) /\ Len(<<>>) = 0
      BY EmptySeq
    <2> QED
      BY <2>1, ProfilesConstants DEF Profile
  <1>2. profiles' = IF k <= l THEN [profiles EXCEPT ![k] = e] ELSE Append(profiles, e)
    BY Zenon DEF Save
  <1>3. CASE Slots(n) # {}
    <2>1. k = FirstSlot(n) /\ k \in 1..l /\ profiles[k].name = n /\ Cut[n] = n
      BY <1>3, SlotIs DEF Slot
    <2> HIDE DEF k, l, e, S
    <2>2. profiles' = [profiles EXCEPT ![k] = e]
      BY <1>0, <1>2, <2>1
    <2>3. profiles' \in Seq(S) /\ Len(profiles') = Len(profiles)
      BY <1>0, <1>1, <2>1, <2>2, ExceptSeq DEF l
    <2>4. \A i \in 1..l : profiles'[i] = IF i = k THEN e ELSE profiles[i]
      BY <1>0, <2>2
    <2> QED
      BY <2>1, <2>3, <2>4 DEF k, l, e, S
  <1>4. CASE Slots(n) = {}
    <2>1. k = l + 1 /\ \A i \in 1..l : profiles[i].name # n
      BY <1>4, SlotIs DEF Slot
    <2> HIDE DEF k, e, S
    <2>2. profiles' = Append(profiles, e)
      <3> HIDE DEF l
      <3> QED
        BY <1>0, <1>2, <2>1
    <2>3. profiles' \in Seq(S) /\ Len(profiles') = l + 1 /\ profiles'[l + 1] = e
          /\ \A i \in 1..l : profiles'[i] = profiles[i]
      BY <1>0, <1>1, <2>2, AppendProperties
    <2> HIDE DEF l
    <2>4. k \in 1..l+1 /\ k \notin 1..l /\ \A i \in 1..l+1 : i # k => i \in 1..l
      BY <1>0, <2>1
    <2> QED
      BY <2>1, <2>2, <2>3, <2>4 DEF k, l, e, S
  <1> QED
    BY <1>3, <1>4

\* The array is still one.
LEMMA SaveKeepsTable ==
  ASSUME Table(profiles), NEW n \in Names, Save(n)
  PROVE  Table(profiles') /\ at' \in [slot : 1..Len(profiles'), next : 1..Len(Modules)]
  <1> DEFINE k == Slot(n)
  <1>0. Len(profiles) \in Nat /\ Len(profiles') \in Nat
    BY SaveIs, ProfilesAre DEF Table
  <1>1. Len(profiles') <= MaxProfiles
    <2>1. k <= MaxProfiles
      BY DEF Save
    <2>2. CASE k \in 1..Len(profiles)
      BY <2>2, SaveIs DEF Table
    <2>3. CASE k \notin 1..Len(profiles)
      <3>1. k \in 1..Len(profiles') /\ Len(profiles') = Len(profiles) + 1
        <4> DEFINE S == Profile
                   e == [name |-> Cut[n], params |-> <<>>]
        <4>1. profiles' = Append(profiles, e) /\ profiles \in Seq(S) /\ k \in 1..Len(profiles')
          BY <2>3, SaveIs DEF Table
        <4> HIDE DEF S, e, k
        <4> QED
          BY <4>1
      <3> HIDE DEF k
      <3> QED
        BY <1>0, <2>1, <2>3, <3>1, ProfilesConstants
    <2> QED
      BY <2>2, <2>3
  <1>2. Once(profiles')
    <2> SUFFICES ASSUME NEW i \in 1..Len(profiles'), NEW j \in 1..Len(profiles'),
                        profiles'[i].name = profiles'[j].name, Own(profiles'[i].name), i # j
                 PROVE  FALSE
      BY DEF Once
    <2>1. ASSUME NEW h \in 1..Len(profiles'), h # k, profiles'[k].name = profiles'[h].name,
                 Own(profiles'[k].name)
          PROVE  FALSE
      <3>0. profiles'[k] = [name |-> Cut[n], params |-> <<>>]
        BY SaveIs
      <3>1. profiles'[k].name = Cut[n]
        BY <3>0
      <3>2. n = Cut[n]
        BY <2>1, <3>1, ProfilesConstants DEF Own
      <3>3. h \in 1..Len(profiles) /\ profiles[h].name = n
        BY <2>1, <3>1, <3>2, SaveIs
      <3>4. k \in 1..Len(profiles) /\ profiles[k].name = n
        BY <3>3, SaveIs
      <3> QED
        BY <2>1, <3>1, <3>2, <3>3, <3>4 DEF Table, Once
    <2>2. CASE i = k
      BY <2>1, <2>2
    <2>3. CASE j = k
      BY <2>1, <2>3
    <2>4. CASE i # k /\ j # k
      BY <2>4, SaveIs DEF Table, Once
    <2> QED
      BY <2>2, <2>3, <2>4
  <1>3. at' \in [slot : 1..Len(profiles'), next : 1..Len(Modules)]
    <2>1. at' = [slot |-> k, next |-> 1] /\ k \in 1..Len(profiles')
      BY SaveIs DEF Save
    <2>2. 1 \in 1..Len(Modules)
      BY ProfilesConstants
    <2> QED
      BY <2>1, <2>2
  <1> QED
    BY <1>1, <1>2, <1>3, SaveIs DEF Table

\* What is behind an element that is removed moves down.
LEMMA RemovedIs ==
  ASSUME NEW S, NEW s \in Seq(S), NEW k \in 1..Len(s)
  PROVE  /\ RemoveAt(s, k) \in Seq(S) /\ Len(RemoveAt(s, k)) = Len(s) - 1
         /\ \A i \in 1..Len(s)-1 : RemoveAt(s, k)[i] = IF i < k THEN s[i] ELSE s[i + 1]
  BY OneLeftOut DEF RemoveAt

\* A delete leaves the others, and nothing else.
LEMMA DeleteIs ==
  ASSUME Table(profiles), NEW n, Delete(n)
  PROVE  /\ Table(profiles')
         /\ \A i \in 1..Len(profiles') : \E j \in 1..Len(profiles) : profiles'[i] = profiles[j]
  <1> DEFINE k == FirstSlot(n)
             l == Len(profiles)
             S == Profile
  <1>0. l \in Nat /\ profiles \in Seq(S) /\ k \in 1..l /\ l <= MaxProfiles /\ MaxProfiles \in Nat
    BY SlotIs, ProfilesAre, ProfilesConstants DEF Table, Delete
  <1>1. profiles' = RemoveAt(profiles, k)
    BY DEF Delete
  <1> HIDE DEF k, S
  <1>2. /\ profiles' \in Seq(S) /\ Len(profiles') = l - 1
        /\ \A i \in 1..l-1 : profiles'[i] = IF i < k THEN profiles[i] ELSE profiles[i + 1]
    BY <1>0, <1>1, RemovedIs
  <1> HIDE DEF l
  <1>3. \A i \in 1..l-1 : /\ (IF i < k THEN i ELSE i + 1) \in 1..l
                          /\ profiles'[i] = profiles[IF i < k THEN i ELSE i + 1]
    BY <1>0, <1>2
  <1>4. Once(profiles')
    <2> SUFFICES ASSUME NEW i \in 1..l-1, NEW j \in 1..l-1,
                        profiles'[i].name = profiles'[j].name, Own(profiles'[i].name)
                 PROVE  i = j
      BY <1>2 DEF Once
    <2>1. (IF i < k THEN i ELSE i + 1) = (IF j < k THEN j ELSE j + 1)
      BY <1>3 DEF Table, Once, l
    <2> QED
      BY <1>0, <2>1
  <1>5. Len(profiles') <= MaxProfiles
    BY <1>0, <1>2
  <1> QED
    BY <1>2, <1>3, <1>4, <1>5 DEF Table, l, S

\* A module adds its flag if it is on, and its parameters if they fit.
LEMMA WithIs ==
  ASSUME live \in [ModuleSet -> Setting], NEW m \in ModuleSet,
         NEW p \in Seq(Params), Len(p) <= MaxParams
  PROVE  /\ With(p, m) \in Seq(Params) /\ Len(With(p, m)) <= MaxParams
         /\ Len(p) <= Len(With(p, m)) /\ \A i \in 1..Len(p) : With(p, m)[i] = p[i]
         /\ \A i \in 1..Len(With(p, m)) :
              i \in 1..Len(p) \/ With(p, m)[i] \in {Param(m, "on", 1), Param(m, "val", Printed(m, live[m].val))}
         /\ ~live[m].on => With(p, m) = p
         /\ live[m].on /\ Len(p) + 1 + Size[m] <= MaxParams =>
              /\ Len(With(p, m)) = Len(p) + 1 + Size[m]
              /\ With(p, m)[Len(p) + 1] = Param(m, "on", 1)
              /\ With(p, m)[Len(p) + 2] = Param(m, "val", Printed(m, live[m].val))
  <1> DEFINE S == Params
             l == Len(p)
             on == Param(m, "on", 1)
             was == live[m].val
             val == Param(m, "val", Printed(m, was))
             z == Size[m]
             q == Append(p, on)
             fits == MaxParams - l - 1 >= z
             r == IF fits THEN [i \in 1..z |-> val] ELSE <<>>
             w == With(p, m)
  <1>0. l \in Nat /\ l <= MaxParams /\ MaxParams \in Nat /\ z \in Nat \ {0} /\ p \in Seq(S)
    BY ParamsAre, ProfilesConstants
  <1>1. on \in S /\ val \in S
    <2>1. was \in ParamValues
      BY DEF Setting
    <2> HIDE DEF was
    <2>2. Printed(m, was) \in ParamValues
      BY <2>1, ProfilesConstants
    <2> QED
      BY <2>2 DEF Param, Params
  <1>2. w = IF ~live[m].on \/ l >= MaxParams THEN p ELSE q \o r
    BY Zenon DEF With
  <1> HIDE DEF S, l, on, val, z, w
  <1>3. CASE ~live[m].on \/ l >= MaxParams
    <2>1. w = p
      BY <1>2, <1>3
    <2>2. ~ (l + 1 + z <= MaxParams) \/ ~live[m].on
      BY <1>0, <1>3
    <2> QED
      BY <1>0, <2>1, <2>2 DEF S, l, z, w
  <1>4. CASE live[m].on /\ ~ (l >= MaxParams)
    <2>1. w = q \o r
      BY <1>2, <1>4
    <2>2. q \in Seq(S) /\ Len(q) = l + 1 /\ q[l + 1] = on /\ \A i \in 1..l : q[i] = p[i]
      BY <1>0, <1>1, AppendProperties DEF l
    <2>3. r \in Seq(S) /\ Len(r) = IF fits THEN z ELSE 0
      <3>1. CASE fits
        <4>1. [i \in 1..z |-> val] \in [1..z -> S]
          BY <1>1
        <4> QED
          BY <1>0, <3>1, <4>1, IsASeq
      <3>2. CASE ~fits
        BY <3>2, EmptySeq
      <3> QED
        BY <3>1, <3>2
    <2>4. \A i \in 1..Len(r) : r[i] = val
      BY <1>0, <2>3
    <2> HIDE DEF q, r
    <2>5. /\ w \in Seq(S) /\ Len(w) = Len(q) + Len(r)
          /\ \A i \in 1..Len(q)+Len(r) : w[i] = IF i <= Len(q) THEN q[i] ELSE r[i - Len(q)]
      BY <2>1, <2>2, <2>3, ConcatProperties
    <2>6. Len(r) \in Nat /\ l + 1 + Len(r) <= MaxParams
      BY <1>0, <1>4, <2>3
    <2>7. Len(w) = l + 1 + Len(r) /\ Len(w) <= MaxParams /\ l <= Len(w)
      BY <1>0, <2>2, <2>5, <2>6
    <2>8. \A i \in 1..l : w[i] = p[i]
      BY <1>0, <2>2, <2>5, <2>6
    <2>9. w[l + 1] = on
      BY <1>0, <2>2, <2>5, <2>6
    <2>10. ASSUME NEW i \in 1..Len(w), i > l + 1 PROVE w[i] = val
      <3>1. i - Len(q) \in 1..Len(r) /\ w[i] = r[i - Len(q)]
        BY <1>0, <2>2, <2>5, <2>6, <2>7, <2>10
      <3> QED
        BY <2>4, <3>1
    <2>11. \A i \in 1..Len(w) : i \in 1..l \/ w[i] \in {on, val}
      <3> TAKE i \in 1..Len(w)
      <3>1. i \in 1..l \/ i = l + 1 \/ i > l + 1
        BY <1>0, <2>6, <2>7
      <3> QED
        BY <2>9, <2>10, <3>1
    <2>12. ASSUME l + 1 + z <= MaxParams
           PROVE  Len(w) = l + 1 + z /\ w[l + 2] = val
      <3>1. fits
        BY <1>0, <2>12
      <3>2. Len(r) = z
        BY <2>3, <3>1
      <3>3. l + 2 \in 1..Len(w) /\ l + 2 > l + 1
        BY <1>0, <2>7, <3>2
      <3> QED
        BY <2>7, <2>10, <3>2, <3>3
    <2> QED
      BY <1>4, <2>5, <2>7, <2>8, <2>9, <2>11, <2>12 DEF S, l, z, w, on, val
  <1> QED
    BY <1>3, <1>4

------------------------------------------------------------------------------
(* What a profile tells of the modules.                                     *)

\* The places that modules take, one module after the other.
LEMMA TakenIs ==
  ASSUME NEW w \in [ModuleSet -> Setting]
  PROVE  /\ Taken(w, 0) = 0
         /\ \A n \in 0..Len(Modules) : Taken(w, n) \in Nat
         /\ \A n \in 0..Len(Modules)-1 :
              Taken(w, n + 1) = Taken(w, n) + IF w[Modules[n + 1]].on THEN 1 + Size[Modules[n + 1]] ELSE 0
  <1> DEFINE c == Cost(w)
             l == Len(Modules)
  <1>0. l \in Nat /\ DOMAIN Modules = 1..l
    BY ProfilesConstants
  <1>1. \A i \in 1..l : c[i] = IF w[Modules[i]].on THEN 1 + Size[Modules[i]] ELSE 0
    BY <1>0 DEF Cost
  <1>2. \A i \in 1..l : c[i] \in Nat
    <2> TAKE i \in 1..l
    <2>1. Size[Modules[i]] \in Nat
      BY ProfilesConstants
    <2> QED
      BY <1>1, <2>1
  <1> HIDE DEF c, l
  <1>3. SumTo(c, 0) = 0
    BY SumZero
  <1>4. ASSUME NEW n \in 0..l PROVE SumTo(c, n) \in Nat
    <2>1. n \in Nat /\ \A i \in 1..n : c[i] \in Nat
      BY <1>0, <1>2
    <2> QED
      BY <2>1, SumNat
  <1>5. ASSUME NEW n \in 0..l-1 PROVE SumTo(c, n + 1) = SumTo(c, n) + c[n + 1] /\ n + 1 \in 1..l
    <2>1. n \in Nat /\ n + 1 \in 1..l
      BY <1>0
    <2> QED
      BY <2>1, SumNext
  <1> QED
    BY <1>1, <1>3, <1>4, <1>5 DEF Taken, c, l

\* They are those of the modules so far.
LEMMA TakenSame ==
  ASSUME NEW n \in 0..Len(Modules), NEW v, NEW w,
         \A i \in 1..n : v[Modules[i]] = w[Modules[i]]
  PROVE  Taken(v, n) = Taken(w, n)
  <1> DEFINE c == Cost(v)
             d == Cost(w)
  <1>1. n \in Nat /\ \A i \in 1..n : c[i] = d[i]
    BY ProfilesConstants DEF Cost
  <1> HIDE DEF c, d
  <1>2. SumTo(c, n) = SumTo(d, n)
    BY <1>1, SumAgree
  <1> QED
    BY <1>2 DEF Taken, c, d

\* An empty profile tells nothing.
LEMMA CollectsNone ==
  ASSUME NEW w \in [ModuleSet -> Setting]
  PROVE  Collects(<<>>, w, 0)
  <1>1. Len(<<>>) = 0 /\ Taken(w, 0) = 0
    BY EmptySeq, TakenIs
  <1> QED
    BY <1>1 DEF Collects, Tells

\* The next module is told as it is now, and those before as they were.
LEMMA CollectsNext ==
  ASSUME live \in [ModuleSet -> Setting],
         NEW j \in 1..Len(Modules), NEW m, m = Modules[j],
         NEW was \in [ModuleSet -> Setting], NEW now \in [ModuleSet -> Setting],
         now[m] = live[m], \A o \in ModuleSet : o # m => now[o] = was[o],
         NEW p \in Seq(Params), Len(p) <= MaxParams, Collects(p, was, j - 1)
  PROVE  Collects(With(p, m), now, j)
  <1> DEFINE q == With(p, m)
             l == Len(p)
  <1>0. /\ l \in Nat /\ Len(q) \in Nat /\ m \in ModuleSet /\ j \in Nat /\ j - 1 \in 0..Len(Modules)
        /\ j - 1 \in 0..Len(Modules)-1 /\ (j - 1) + 1 = j
        /\ \A i \in 1..j-1 : i \in 1..j /\ i \in 1..Len(Modules) /\ Modules[i] # m /\ Modules[i] \in ModuleSet
        /\ \A i \in 1..j : i = j \/ i \in 1..j-1
        /\ MaxParams \in Nat /\ Size[m] \in Nat
    <2>1. m \in ModuleSet /\ MaxParams \in Nat /\ Size[m] \in Nat /\ Len(Modules) \in Nat
      BY ProfilesConstants
    <2>2. Len(p) \in Nat /\ Len(q) \in Nat
      BY <2>1, WithIs, ParamsAre
    <2>3. \A i \in 1..j-1 : i \in 1..j /\ i \in 1..Len(Modules) /\ i # j
      BY <2>1
    <2>4. \A i \in 1..j-1 : Modules[i] # m /\ Modules[i] \in ModuleSet
      BY <2>3, ProfilesConstants
    <2> QED
      BY <2>1, <2>2, <2>3, <2>4
  <1>1. /\ l <= Len(q) /\ \A i \in 1..l : q[i] = p[i]
        /\ \A i \in 1..Len(q) : i \in 1..l \/ q[i] \in {Param(m, "on", 1), Param(m, "val", Printed(m, live[m].val))}
    BY <1>0, WithIs
  <1>2. Taken(now, j - 1) = Taken(was, j - 1)
    <2>1. \A i \in 1..j-1 : now[Modules[i]] = was[Modules[i]]
      BY <1>0
    <2> QED
      BY <1>0, <2>1, TakenSame
  <1>3. /\ Taken(now, j) = Taken(was, j - 1) + IF live[m].on THEN 1 + Size[m] ELSE 0
        /\ Taken(was, j - 1) \in Nat
    <2>1. Taken(now, (j - 1) + 1) =
            Taken(now, j - 1) + IF now[Modules[(j - 1) + 1]].on THEN 1 + Size[Modules[(j - 1) + 1]] ELSE 0
      BY <1>0, TakenIs
    <2>2. Taken(was, j - 1) \in Nat
      BY <1>0, TakenIs
    <2> QED
      BY <1>0, <1>2, <2>1, <2>2
  <1> HIDE DEF q, l
  <1>4. \A k \in 1..Len(q) : \E i \in 1..j : q[k].module = Modules[i]
    <2> TAKE k \in 1..Len(q)
    <2>1. CASE k \in 1..l
      <3>1. PICK i \in 1..j-1 : p[k].module = Modules[i]
        BY <2>1 DEF Collects, l
      <3> QED
        BY <1>0, <1>1, <2>1, <3>1
    <2>2. CASE k \notin 1..l
      <3>1. q[k] = Param(m, "on", 1) \/ q[k] = Param(m, "val", Printed(m, live[m].val))
        BY <1>1, <2>2
      <3>2. q[k].module = Modules[j] /\ j \in 1..j
        BY <1>0, <3>1 DEF Param
      <3> QED
        BY <3>2
    <2> QED
      BY <2>1, <2>2
  <1>5. ASSUME Taken(now, j) <= MaxParams
        PROVE  /\ Tells(p, was, j - 1) /\ Taken(was, j - 1) <= MaxParams /\ l <= Taken(was, j - 1)
               /\ live[m].on => l + 1 + Size[m] <= Taken(now, j) /\ l + 1 + Size[m] <= MaxParams
    <2>1. Taken(was, j - 1) <= MaxParams
      BY <1>0, <1>3, <1>5
    <2>2. Tells(p, was, j - 1) /\ l <= Taken(was, j - 1)
      BY <2>1 DEF Collects, l
    <2>3. ASSUME live[m].on PROVE l + 1 + Size[m] <= Taken(now, j)
      <3>1. Taken(now, j) = Taken(was, j - 1) + (1 + Size[m])
        BY <1>3, <2>3
      <3> QED
        BY <1>0, <1>3, <2>2, <3>1
    <2>4. Taken(now, j) \in Nat
      BY <1>0, <1>3
    <2>5. ASSUME live[m].on PROVE l + 1 + Size[m] <= MaxParams
      BY <1>0, <1>5, <2>3, <2>4, <2>5
    <2> QED
      BY <2>1, <2>2, <2>3, <2>5
  <1>6. ASSUME Taken(now, j) <= MaxParams PROVE Len(q) <= Taken(now, j)
    <2>1. CASE live[m].on
      <3>1. l + 1 + Size[m] <= MaxParams /\ l + 1 + Size[m] <= Taken(now, j)
        BY <1>5, <1>6, <2>1
      <3>2. Len(q) = l + 1 + Size[m]
        BY <1>0, <2>1, <3>1, WithIs DEF q, l
      <3> QED
        BY <3>1, <3>2
    <2>2. CASE ~live[m].on
      <3>1. q = p /\ Taken(now, j) = Taken(was, j - 1)
        <4>1. q = p
          BY <1>0, <2>2, WithIs DEF q
        <4>2. Taken(now, j) = Taken(was, j - 1) + 0
          BY <1>3, <2>2
        <4> QED
          BY <1>3, <4>1, <4>2
      <3> QED
        BY <1>5, <1>6, <3>1 DEF l
    <2> QED
      BY <2>1, <2>2
  <1>7. ASSUME Taken(now, j) <= MaxParams, NEW k \in 1..Len(q) PROVE Agrees(q[k], now)
    <2>1. CASE k \in 1..l
      <3>1. Agrees(p[k], was)
        BY <1>5, <1>7, <2>1 DEF Tells, l
      <3>2. PICK i \in 1..j-1 : p[k].module = Modules[i]
        BY <2>1 DEF Collects, l
      <3>3. now[p[k].module] = was[p[k].module]
        BY <1>0, <3>2
      <3> QED
        BY <1>1, <2>1, <3>1, <3>3 DEF Agrees
    <2>2. CASE k \notin 1..l
      <3>1. q[k] = Param(m, "on", 1) \/ q[k] = Param(m, "val", Printed(m, live[m].val))
        BY <1>1, <2>2
      <3> QED
        BY <3>1 DEF Agrees, Param
    <2> QED
      BY <2>1, <2>2
  <1>8. ASSUME Taken(now, j) <= MaxParams, NEW i \in 1..j
        PROVE  Restores(q, Modules[i], now[Modules[i]])
    <2>1. CASE i \in 1..j-1
      <3>1. Restores(p, Modules[i], was[Modules[i]]) /\ now[Modules[i]] = was[Modules[i]]
        BY <1>0, <1>5, <1>8, <2>1 DEF Tells
      <3>2. \A k \in 1..Len(p) : k \in 1..Len(q) /\ q[k] = p[k]
        BY <1>0, <1>1 DEF l
      <3> QED
        BY <3>1, <3>2 DEF Restores
    <2>2. CASE i = j
      <3> SUFFICES ASSUME now[m].on PROVE Restores(q, m, now[m])
        BY <2>2 DEF Restores
      <3>1. /\ Len(q) = l + 1 + Size[m] /\ q[l + 1] = Param(m, "on", 1)
            /\ q[l + 2] = Param(m, "val", Printed(m, live[m].val))
        BY <1>0, <1>5, <1>8, WithIs DEF q, l
      <3>2. l + 1 \in 1..Len(q) /\ l + 2 \in 1..Len(q)
        BY <1>0, <3>1, ProfilesConstants
      <3>3. now[m] = live[m]
        OBVIOUS
      <3> HIDE DEF q
      <3>4. \E k \in 1..Len(q) : q[k] = Param(m, "on", 1)
        BY ONLY <3>1, <3>2
      <3>5. \E k \in 1..Len(q) : q[k] = Param(m, "val", Printed(m, now[m].val))
        BY ONLY <3>1, <3>2, <3>3
      <3> QED
        BY <3>4, <3>5 DEF Restores
    <2> QED
      BY <1>0, <2>1, <2>2
  <1>9. Tells(q, now, j)
    BY <1>7, <1>8 DEF Tells
  <1> QED
    BY <1>4, <1>6, <1>9 DEF Collects, q

------------------------------------------------------------------------------
(* The invariant, action by action.                                         *)

\* Who does not touch the array, its file or the lock disturbs nothing of them.
LEMMA UsersKeep ==
  ASSUME ProfilesInv, UNCHANGED <<profiles, phase, at, running, file, saved, stored, whole>>
  PROVE  FileInv' /\ SavedInv'
         /\ (phase # "collect" \/ applied' \in {"none", applied} => Collected')
  <1>1. FileInv'
    BY DEF ProfilesInv, FileInv
  <1>2. SavedInv'
    BY DEF ProfilesInv, SavedInv, Told
  <1>3. ASSUME phase # "collect" \/ applied' \in {"none", applied} PROVE Collected'
    BY <1>3 DEF ProfilesInv, Collected
  <1> QED
    BY <1>1, <1>2, <1>3

\* Nor does who writes the file disturb what is saved or applied.
LEMMA WritersKeep ==
  ASSUME ProfilesInv, phase # "collect", phase' # "collect", running,
         UNCHANGED <<profiles, live, applying, applied, running, saved>>
  PROVE  Collected' /\ SavedInv' /\ AppliedInv'
  <1>1. Collected'
    BY DEF Collected
  <1>2. SavedInv'
    BY DEF ProfilesInv, SavedInv, Told
  <1>3. AppliedInv'
    BY DEF ProfilesInv, AppliedInv
  <1> QED
    BY <1>1, <1>2, <1>3

\* What is being applied is disturbed by none who saves another.
LEMMA OthersSavedKeep ==
  ASSUME ProfilesInv, UNCHANGED <<live, applying>>, applied' \in {"none", applied},
         applied' # "none" => saved'[applied] = saved[applied]
  PROVE  AppliedInv'
  BY DEF ProfilesInv, AppliedInv

\* A module that is set is not one that was just restored.
LEMMA SetModuleKeeps ==
  ASSUME ProfilesInv, NEW m \in ModuleSet, SetModule(m)
  PROVE  ProfilesInv'
  <1>1. UNCHANGED <<profiles, phase, at, running, file, saved, stored, whole, applying>>
        /\ applied' = "none" /\ running
    BY DEF SetModule
  <1>2. live' \in [ModuleSet -> Setting]
    <2>1. PICK on \in BOOLEAN, v \in ParamValues : live' = [live EXCEPT ![m] = [on |-> on, val |-> v]]
      BY DEF SetModule
    <2>2. [on |-> on, val |-> v] \in Setting
      BY DEF Setting
    <2>3. live \in [ModuleSet -> Setting]
      BY DEF ProfilesInv, ProfilesTypes
    <2> QED
      BY <2>1, <2>2, <2>3
  <1>3. ProfilesTypes'
    BY <1>1, <1>2 DEF ProfilesInv, ProfilesTypes
  <1>4. AppliedInv'
    BY <1>1 DEF AppliedInv
  <1> QED
    BY <1>1, <1>3, <1>4, UsersKeep DEF ProfilesInv

\* A save has emptied the slot, and nobody else has its name.
LEMMA SaveKeeps ==
  ASSUME ProfilesInv, NEW n \in Names, Save(n)
  PROVE  ProfilesInv'
  <1> DEFINE off == [m \in ModuleSet |-> Off]
  <1>0. /\ UNCHANGED <<live, applying, running, file, stored>> /\ running /\ phase = "idle"
        /\ phase' = "collect" /\ whole' = FALSE
        /\ saved' = [saved EXCEPT ![Cut[n]] = off]
        /\ applied' = IF applied = Cut[n] THEN "none" ELSE applied
        /\ at' = [slot |-> Slot(n), next |-> 1]
    BY DEF Save, Locking
  <1>1. Table(profiles) /\ saved \in [Names -> [ModuleSet -> Setting]] /\ Cut[n] \in Names
    BY ProfilesConstants DEF ProfilesInv, ProfilesTypes
  <1>2. off \in [ModuleSet -> Setting]
    BY ProfilesAssumption DEF Off, Setting
  <1> HIDE DEF off
  <1>3. saved' \in [Names -> [ModuleSet -> Setting]] /\ saved'[Cut[n]] = off
        /\ \A o \in Names : o # Cut[n] => saved'[o] = saved[o]
    BY <1>0, <1>1, <1>2
  <1>4. Table(profiles') /\ at' \in [slot : 1..Len(profiles'), next : 1..Len(Modules)]
    BY <1>1, SaveKeepsTable
  <1>5. ProfilesTypes'
    BY <1>0, <1>3, <1>4 DEF ProfilesInv, ProfilesTypes
  <1>6. FileInv'
    BY <1>0 DEF ProfilesInv, FileInv
  <1>7. /\ profiles'[Slot(n)] = [name |-> Cut[n], params |-> <<>>]
        /\ \A i \in 1..Len(profiles') : i # Slot(n) => i \in 1..Len(profiles) /\ profiles'[i] = profiles[i]
        /\ \A i \in 1..Len(profiles') : profiles'[i].name \in Names
    <2>1. \A i \in 1..Len(profiles') : profiles'[i].name \in Names
      BY <1>4, ProfilesAre DEF Table, Profile
    <2> QED
      BY <1>1, <2>1, SaveIs
  <1>8. Collected'
    <2>1. Collects(<<>>, off, 0)
      BY <1>2, CollectsNone
    <2>2. profiles'[at'.slot].name = Cut[n] /\ profiles'[at'.slot].params = <<>> /\ at'.next - 1 = 0
      BY <1>0, <1>7
    <2>3. Collects(profiles'[at'.slot].params, saved'[profiles'[at'.slot].name], at'.next - 1)
      BY <1>3, <2>1, <2>2
    <2> QED
      BY <1>0, <2>2, <2>3 DEF Collected
  <1>9. SavedInv'
    <2>1. ASSUME NEW i \in 1..Len(profiles'), Own(profiles'[i].name), i # Slot(n)
          PROVE  Tells(profiles'[i].params, saved'[profiles'[i].name], Len(Modules))
      <3>1. profiles'[i] = profiles[i] /\ i \in 1..Len(profiles) /\ profiles[i].name \in Names
        BY <1>7, <2>1
      <3>2. profiles'[i].name # Cut[n]
        <4>1. Slot(n) \in 1..Len(profiles') /\ Once(profiles')
          BY <1>1, <1>4, SaveIs DEF Table
        <4>2. profiles'[Slot(n)].name = Cut[n]
          BY <1>7
        <4> QED
          BY <2>1, <4>1, <4>2 DEF Once
      <3>3. saved'[profiles'[i].name] = saved[profiles[i].name]
        BY <1>3, <3>1, <3>2
      <3>4. Tells(profiles[i].params, saved[profiles[i].name], Len(Modules))
        BY <1>0, <2>1, <3>1 DEF ProfilesInv, SavedInv, Told
      <3> QED
        BY <3>1, <3>3, <3>4
    <2>2. at'.slot = Slot(n)
      BY <1>0
    <2>3. Told(profiles)'
      BY <1>0, <2>1, <2>2 DEF Told
    <2> QED
      BY <1>0, <2>3 DEF SavedInv
  <1>10. AppliedInv'
    <2>1. applied \in Names \cup {"none"}
      BY DEF ProfilesInv, ProfilesTypes
    <2>2. applied' # "none" => applied \in Names /\ applied # Cut[n]
      BY <1>0, <2>1
    <2> QED
      BY <1>0, <1>3, <2>2, OthersSavedKeep
  <1> QED
    BY <1>5, <1>6, <1>8, <1>9, <1>10 DEF ProfilesInv

\* A module is read into the profile, and into no other.
LEMMA CollectKeeps ==
  ASSUME ProfilesInv, Collect
  PROVE  ProfilesInv'
  <1> DEFINE k == at.slot
             j == at.next
             m == Modules[j]
             l == Len(profiles)
             name == profiles[k].name
             p == profiles[k].params
             e == [name |-> name, params |-> With(p, m)]
             now == [saved[name] EXCEPT ![m] = live[m]]
             S == Profile
             T == Params
  <1>0. /\ UNCHANGED <<live, applying, running, file, applied, stored, whole>> /\ running
        /\ phase = "collect"
        /\ IF j = Len(Modules) THEN at' = Nowhere /\ phase' = "open"
           ELSE at' = [at EXCEPT !.next = @ + 1] /\ phase' = phase
    BY DEF Collect
  <1>1. /\ Table(profiles) /\ profiles \in Seq(S) /\ l \in Nat /\ \A i \in 1..l : profiles[i] \in S
        /\ at \in [slot : 1..l, next : 1..Len(Modules)]
        /\ saved \in [Names -> [ModuleSet -> Setting]] /\ live \in [ModuleSet -> Setting]
    BY <1>0, ProfilesAre DEF ProfilesInv, ProfilesTypes, Table
  <1>2. /\ k \in 1..l /\ j \in 1..Len(Modules) /\ m \in ModuleSet
        /\ at = [slot |-> k, next |-> j]
    BY <1>1, ProfilesConstants
  <1>3. /\ profiles[k] = [name |-> name, params |-> p] /\ p \in Seq(T) /\ Len(p) <= MaxParams
        /\ name \in Names /\ Cut[name] = name
    BY <1>1, <1>2 DEF Profile
  <1>4. e \in S
    <2>1. With(p, m) \in Seq(T) /\ Len(With(p, m)) <= MaxParams
      BY <1>1, <1>2, <1>3, WithIs
    <2> HIDE DEF p, m, name
    <2> QED
      BY <1>3, <2>1 DEF Profile
  <1>5. profiles' = [profiles EXCEPT ![k] = e]
    <2>1. profiles' = [profiles EXCEPT ![k] = [profiles[k] EXCEPT !.params = With(p, m)]]
      BY Zenon DEF Collect
    <2>2. [profiles[k] EXCEPT !.params = With(p, m)] = e
      <3> DEFINE w == With(p, m)
      <3> HIDE DEF w, p, name
      <3>1. [profiles[k] EXCEPT !.params = w] = [name |-> name, params |-> w]
        BY <1>3
      <3> QED
        BY <3>1 DEF w
    <2> QED
      BY <2>1, <2>2
  <1>6. saved' = [saved EXCEPT ![name] = now]
    BY Zenon DEF Collect
  <1>7. now \in [ModuleSet -> Setting] /\ now[m] = live[m]
        /\ \A o \in ModuleSet : o # m => now[o] = saved[name][o]
    <2>1. saved[name] \in [ModuleSet -> Setting] /\ live[m] \in Setting
      BY <1>1, <1>2, <1>3
    <2> HIDE DEF m, name
    <2> QED
      BY <1>2, <2>1
  <1> HIDE DEF k, j, m, l, name, p, e, now, S, T
  <1>8. /\ profiles' \in Seq(S) /\ Len(profiles') = l /\ profiles'[k] = e
        /\ \A i \in 1..l : i # k => profiles'[i] = profiles[i]
    <2>1. profiles' \in Seq(S) /\ Len(profiles') = l
      BY <1>1, <1>2, <1>4, <1>5, ExceptSeq DEF l
    <2>2. \A i \in 1..l : profiles'[i] = IF i = k THEN e ELSE profiles[i]
      BY <1>1, <1>2, <1>4, <1>5, ExceptSeq DEF l
    <2> QED
      BY <1>2, <2>1, <2>2
  <1>9. e.name = name /\ e.params = With(p, m) /\ \A i \in 1..l : profiles'[i].name = profiles[i].name
    <2>1. e.name = name /\ e.params = With(p, m)
      BY DEF e
    <2> QED
      BY <1>8, <2>1 DEF name
  <1>10. Table(profiles')
    <2>1. Once(profiles')
      BY <1>1, <1>8, <1>9 DEF Table, Once, l
    <2> QED
      BY <1>1, <1>8, <2>1 DEF Table, l, S
  <1>11. saved' \in [Names -> [ModuleSet -> Setting]] /\ saved'[name] = now
         /\ \A o \in Names : o # name => saved'[o] = saved[o]
    BY <1>1, <1>3, <1>6, <1>7
  <1>12. j # Len(Modules) => at' = [slot |-> k, next |-> j + 1] /\ j + 1 \in 1..Len(Modules)
    BY <1>0, <1>2, ProfilesConstants
  <1>13. ProfilesTypes'
    <2>1. CASE j = Len(Modules)
      BY <1>0, <1>10, <1>11, <2>1 DEF ProfilesInv, ProfilesTypes
    <2>2. CASE j # Len(Modules)
      <3>1. at' \in [slot : 1..Len(profiles'), next : 1..Len(Modules)] /\ phase' = "collect"
        BY <1>0, <1>2, <1>8, <1>12, <2>2
      <3> QED
        BY <1>0, <1>10, <1>11, <3>1 DEF ProfilesInv, ProfilesTypes
    <2> QED
      BY <2>1, <2>2
  <1>14. FileInv'
    <2>1. ~whole /\ phase' # "write"
      BY <1>0 DEF ProfilesInv, FileInv
    <2> QED
      BY <1>0, <2>1 DEF ProfilesInv, FileInv
  <1>15. Collects(With(p, m), now, j)
    <2>1. Collects(p, saved[name], j - 1)
      BY <1>0 DEF ProfilesInv, Collected, k, j, name, p
    <2>2. saved[name] \in [ModuleSet -> Setting]
      BY <1>1, <1>3
    <2>3. m = Modules[j]
      BY DEF m
    <2>4. p \in Seq(Params)
      BY <1>3 DEF T
    <2> QED
      BY <1>1, <1>2, <1>3, <1>7, <2>1, <2>2, <2>3, <2>4, CollectsNext
  <1>16. applied = "none" \/ applied # name
    BY <1>0 DEF ProfilesInv, Collected, k, name
  <1>17. Collected'
    <2>1. CASE j = Len(Modules)
      BY <1>0, <2>1 DEF Collected
    <2>2. CASE j # Len(Modules)
      <3>1. at'.slot = k /\ at'.next - 1 = j
        BY <1>2, <1>12, <2>2
      <3>2. profiles'[at'.slot].name = name /\ profiles'[at'.slot].params = With(p, m)
        BY <1>8, <1>9, <3>1
      <3>3. Collects(profiles'[at'.slot].params, saved'[profiles'[at'.slot].name], at'.next - 1)
        BY <1>11, <1>15, <3>1, <3>2
      <3> QED
        BY <1>0, <1>16, <3>2, <3>3 DEF Collected
    <2> QED
      BY <2>1, <2>2
  <1>18. SavedInv'
    <2>1. ASSUME NEW i \in 1..l, Own(profiles'[i].name), i # k
          PROVE  Tells(profiles'[i].params, saved'[profiles'[i].name], Len(Modules))
      <3>1. profiles'[i] = profiles[i] /\ profiles[i].name \in Names
        BY <1>1, <1>8, <2>1 DEF Profile, S
      <3>2. profiles'[i].name # name
        BY <1>1, <1>2, <2>1, <3>1 DEF Table, Once, l, name
      <3>3. saved'[profiles'[i].name] = saved[profiles[i].name]
        BY <1>11, <3>1, <3>2
      <3>4. Tells(profiles[i].params, saved[profiles[i].name], Len(Modules))
        BY <2>1, <3>1 DEF ProfilesInv, SavedInv, Told, l, k
      <3> QED
        BY <3>1, <3>3, <3>4
    <2>2. ASSUME j = Len(Modules) PROVE Tells(profiles'[k].params, saved'[profiles'[k].name], Len(Modules))
      BY <1>8, <1>9, <1>11, <1>15, <2>2 DEF Collects
    <2>3. j # Len(Modules) => phase' = "collect" /\ at'.slot = k
      BY <1>0, <1>12
    <2>4. Told(profiles)'
      BY <1>8, <2>1, <2>2, <2>3 DEF Told
    <2> QED
      BY <1>0, <2>4 DEF SavedInv
  <1>19. AppliedInv'
    <2>1. applied \in Names \cup {"none"}
      BY DEF ProfilesInv, ProfilesTypes
    <2> QED
      BY <1>0, <1>11, <1>16, <2>1, OthersSavedKeep
  <1> QED
    BY <1>13, <1>14, <1>17, <1>18, <1>19 DEF ProfilesInv

\* What is left after a delete was there before.
LEMMA DeleteKeeps ==
  ASSUME ProfilesInv, NEW n \in Names, Delete(n)
  PROVE  ProfilesInv'
  <1>0. /\ UNCHANGED <<at, live, applying, running, file, applied, saved, stored>>
        /\ running /\ phase = "idle" /\ phase' = "open" /\ whole' = FALSE
    BY DEF Delete, Locking
  <1>1. /\ Table(profiles) /\ Table(profiles')
        /\ \A i \in 1..Len(profiles') : \E j \in 1..Len(profiles) : profiles'[i] = profiles[j]
    BY DeleteIs DEF ProfilesInv, ProfilesTypes
  <1>2. ProfilesTypes'
    BY <1>0, <1>1 DEF ProfilesInv, ProfilesTypes
  <1>3. FileInv'
    BY <1>0 DEF ProfilesInv, FileInv
  <1>4. SavedInv'
    <2>1. ASSUME NEW i \in 1..Len(profiles'), Own(profiles'[i].name)
          PROVE  Tells(profiles'[i].params, saved[profiles'[i].name], Len(Modules))
      <3>1. PICK j \in 1..Len(profiles) : profiles'[i] = profiles[j]
        BY <1>1
      <3> QED
        BY <1>0, <2>1, <3>1 DEF ProfilesInv, SavedInv, Told
    <2>2. Told(profiles)'
      BY <1>0, <2>1 DEF Told
    <2> QED
      BY <1>0, <2>2 DEF SavedInv
  <1>5. Collected' /\ AppliedInv'
    BY <1>0, OthersSavedKeep DEF Collected
  <1> QED
    BY <1>2, <1>3, <1>4, <1>5 DEF ProfilesInv

\* An empty file begins any array.
LEMMA OpenFileKeeps ==
  ASSUME ProfilesInv, OpenFile
  PROVE  ProfilesInv'
  <1>0. /\ UNCHANGED <<profiles, at, live, applying, running, applied, saved, whole>>
        /\ running /\ phase = "open" /\ phase' = "write" /\ file' = <<>> /\ stored' = profiles
    BY DEF OpenFile
  <1> DEFINE S == FileEntry
             T == Profile
  <1>1. <<>> \in Seq(S) /\ <<>> \in Seq(T) /\ Len(<<>>) = 0
    BY EmptySeq
  <1>2. Once(<<>>) /\ Table(<<>>)
    <2>1. Once(<<>>)
      BY <1>1 DEF Once
    <2> QED
      BY <1>1, <2>1, ProfilesConstants DEF Table
  <1>3. ProfilesTypes'
    BY <1>0, <1>1, <1>2 DEF ProfilesInv, ProfilesTypes
  <1>4. FileInv'
    <2>1. ~whole /\ Len(profiles) \in Nat
      BY <1>0, ProfilesAre DEF ProfilesInv, FileInv, ProfilesTypes, Table
    <2>2. Begins(<<>>, profiles) /\ Table(profiles)
      BY <1>1, <2>1 DEF Begins, ProfilesInv, ProfilesTypes
    <2>3. Starts(LoadedFrom(<<>>), profiles)
      BY <1>2, <2>2, LoadsBeginning
    <2> QED
      BY <1>0, <2>1, <2>3 DEF FileInv
  <1> QED
    BY <1>0, <1>3, <1>4, WritersKeep DEF ProfilesInv

\* A file that is not opened stays as it was.
LEMMA OpenFailsKeeps ==
  ASSUME ProfilesInv, OpenFails
  PROVE  ProfilesInv'
  <1>0. /\ UNCHANGED <<profiles, at, live, applying, running, applied, saved, whole, stored, file>>
        /\ running /\ phase = "open" /\ phase' = "idle"
    BY DEF OpenFails, known
  <1>1. ProfilesTypes' /\ FileInv'
    BY <1>0 DEF ProfilesInv, ProfilesTypes, FileInv
  <1> QED
    BY <1>0, <1>1, WritersKeep DEF ProfilesInv

\* What is written to its end is loaded as it is.
LEMMA CloseFileKeeps ==
  ASSUME ProfilesInv, CloseFile
  PROVE  ProfilesInv'
  <1>0. /\ UNCHANGED <<profiles, at, live, applying, running, applied, saved, stored>>
        /\ running /\ phase = "write" /\ phase' = "idle" /\ whole' = TRUE /\ file' = profiles
    BY DEF CloseFile
  <1>1. Table(profiles) /\ profiles \in Seq(FileEntry) /\ Once(profiles) /\ stored = profiles
    BY <1>0, TableIsFile DEF ProfilesInv, ProfilesTypes, FileInv
  <1>2. ProfilesTypes'
    BY <1>0, <1>1 DEF ProfilesInv, ProfilesTypes
  <1>3. FileInv'
    <2>1. Begins(profiles, profiles)
      BY <1>1, EntriesAre DEF Begins
    <2>2. Starts(LoadedFrom(profiles), profiles)
      BY <1>1, <2>1, LoadsBeginning
    <2> QED
      BY <1>0, <1>1, <2>2 DEF FileInv
  <1> QED
    BY <1>0, <1>2, <1>3, WritersKeep DEF ProfilesInv

\* The file after a write that stopped.
LEMMA StoppedIs ==
  ASSUME ProfilesInv, phase = "write", NEW f \in Beginnings(profiles)
  PROVE  f \in Seq(FileEntry) /\ Once(f) /\ Starts(LoadedFrom(f), stored) /\ ~whole
  <1>1. Table(profiles) /\ stored = profiles /\ ~whole
    BY DEF ProfilesInv, ProfilesTypes, FileInv
  <1>2. Table(f) /\ Begins(f, profiles)
    BY <1>1, BeginningsAre
  <1>3. f \in Seq(FileEntry) /\ Once(f)
    BY <1>2, TableIsFile
  <1>4. Starts(LoadedFrom(f), profiles)
    BY <1>1, <1>2, LoadsBeginning
  <1> QED
    BY <1>1, <1>3, <1>4

\* What is written in part begins the array that was to be written.
LEMMA WriteFailsKeeps ==
  ASSUME ProfilesInv, WriteFails
  PROVE  ProfilesInv'
  <1>0. /\ UNCHANGED <<profiles, at, live, applying, running, applied, saved, stored, whole>>
        /\ running /\ phase = "write" /\ phase' = "idle" /\ file' \in Beginnings(profiles)
    BY DEF WriteFails, known
  <1>1. file' \in Seq(FileEntry) /\ Once(file') /\ Starts(LoadedFrom(file'), stored) /\ ~whole
    BY <1>0, StoppedIs
  <1>2. ProfilesTypes'
    BY <1>0, <1>1 DEF ProfilesInv, ProfilesTypes
  <1>3. FileInv'
    BY <1>0, <1>1 DEF FileInv
  <1> QED
    BY <1>0, <1>2, <1>3, WritersKeep DEF ProfilesInv

\* What is copied brings back what was saved.
LEMMA ApplyKeeps ==
  ASSUME ProfilesInv, NEW n \in Names, Apply(n)
  PROVE  ProfilesInv'
  <1> DEFINE k == FirstSlot(n)
             T == Params
  <1>0. /\ UNCHANGED <<profiles, phase, at, live, running, file, saved, stored, whole>>
        /\ running /\ phase = "idle" /\ applied' = n /\ applying' = profiles[k].params
    BY DEF Apply, Locking
  <1>1. /\ Table(profiles) /\ k \in 1..Len(profiles) /\ profiles[k].name = n /\ profiles[k] \in Profile
        /\ live \in [ModuleSet -> Setting]
        /\ saved \in [Names -> [ModuleSet -> Setting]]
    BY SlotIs, ProfilesAre DEF Apply, ProfilesInv, ProfilesTypes, Table
  <1> HIDE DEF k
  <1>2. ProfilesTypes'
    <2>1. applying' \in Seq(Params)
      BY <1>0, <1>1 DEF Profile
    <2> QED
      BY <1>0, <2>1 DEF ProfilesInv, ProfilesTypes
  <1>3. AppliedInv'
    <2> SUFFICES ASSUME Own(n), Room(saved[n]) <= MaxParams
                 PROVE  /\ \A i \in 1..Len(applying') : Agrees(applying'[i], saved[n])
                        /\ \A m \in ModuleSet :
                             saved[n][m].on =>
                               /\ \E i \in 1..Len(applying') : applying'[i] = Param(m, "on", 1)
                               /\ \E i \in 1..Len(applying') : applying'[i] = Param(m, "val", Printed(m, saved[n][m].val))
      BY <1>0 DEF AppliedInv
    <2>1. Tells(profiles[k].params, saved[n], Len(Modules))
      BY <1>0, <1>1 DEF ProfilesInv, SavedInv, Told
    <2>2. Taken(saved[n], Len(Modules)) <= MaxParams
      BY DEF Room, Taken, Cost
    <2>3. ASSUME NEW m \in ModuleSet PROVE Restores(applying', m, saved[n][m])
      <3>1. PICK j \in 1..Len(Modules) : m = Modules[j]
        BY ProfilesConstants
      <3> QED
        BY <1>0, <2>1, <2>2, <3>1 DEF Tells
    <2>4. \A i \in 1..Len(applying') : Agrees(applying'[i], saved[n])
      BY <1>0, <2>1, <2>2 DEF Tells
    <2> QED
      BY <2>3, <2>4 DEF Restores
  <1> QED
    BY <1>0, <1>2, <1>3, UsersKeep DEF ProfilesInv

\* What has been applied need not be applied again, and nothing behind it undoes it.
LEMMA ApplyOneKeeps ==
  ASSUME ProfilesInv, ApplyOne
  PROVE  ProfilesInv'
  <1> DEFINE p == Head(applying)
             l == Len(applying)
             o == p.module
             T == Params
             was == saved[applied]
  <1>0. /\ UNCHANGED <<profiles, phase, at, running, file, saved, stored, whole, applied>> /\ running
        /\ applying # <<>> /\ applying' = Tail(applying)
        /\ live' = [live EXCEPT ![o] =
                      IF p.kind = "on" THEN [live[o] EXCEPT !.on = p.val = 1] ELSE [live[o] EXCEPT !.val = p.val]]
    BY Zenon DEF ApplyOne, known
  <1>1. live \in [ModuleSet -> Setting] /\ applying \in Seq(T)
    BY DEF ProfilesInv, ProfilesTypes
  <1>2. /\ l \in Nat /\ l >= 1 /\ p \in T /\ p = applying[1] /\ applying' \in Seq(T) /\ Len(applying') = l - 1
        /\ \A i \in 1..l-1 : applying'[i] = applying[i + 1]
    <2> HIDE DEF T
    <2>1. l \in Nat /\ l >= 1 /\ p \in T /\ p = applying[1]
      BY <1>0, <1>1, EmptySeq, LenProperties
    <2>2. applying' \in Seq(T) /\ Len(applying') = l - 1 /\ \A i \in 1..l-1 : applying'[i] = applying[i + 1]
      BY <1>0, <1>1, HeadTailProperties
    <2> QED
      BY <2>1, <2>2
  <1>3. o \in ModuleSet /\ \/ p.kind = "on" /\ p.val \in {0, 1}
                           \/ p.kind = "val" /\ p.val \in ParamValues
    BY <1>2 DEF Params
  <1>4. live[o] = [on |-> live[o].on, val |-> live[o].val] /\ live[o].on \in BOOLEAN /\ live[o].val \in ParamValues
    BY <1>1, <1>3 DEF Setting
  <1> HIDE DEF p, l, o, was
  <1>5. /\ live' \in [ModuleSet -> Setting]
        /\ \A m \in ModuleSet : m # o => live'[m] = live[m]
        /\ p.kind = "on" => live'[o].val = live[o].val /\ live'[o].on = (p.val = 1)
        /\ p.kind = "val" => live'[o].val = p.val /\ live'[o].on = live[o].on
    <2> DEFINE new == IF p.kind = "on" THEN [on |-> p.val = 1, val |-> live[o].val]
                      ELSE [on |-> live[o].on, val |-> p.val]
    <2>1. live' = [live EXCEPT ![o] = new]
      <3>1. [live[o] EXCEPT !.on = p.val = 1] = [on |-> p.val = 1, val |-> live[o].val]
        BY <1>4
      <3>2. [live[o] EXCEPT !.val = p.val] = [on |-> live[o].on, val |-> p.val]
        BY <1>4
      <3> QED
        BY <1>0, <3>1, <3>2
    <2>2. /\ new \in Setting
          /\ p.kind = "on" => new.val = live[o].val /\ new.on = (p.val = 1)
          /\ p.kind = "val" => new.val = p.val /\ new.on = live[o].on
      BY <1>3, <1>4 DEF Setting
    <2> HIDE DEF new
    <2>3. live' \in [ModuleSet -> Setting] /\ live'[o] = new /\ \A m \in ModuleSet : m # o => live'[m] = live[m]
      BY <1>1, <1>3, <2>1, <2>2
    <2> QED
      BY <2>2, <2>3
  <1>6. ProfilesTypes'
    BY <1>0, <1>2, <1>5 DEF ProfilesInv, ProfilesTypes
  <1>7. AppliedInv'
    <2> SUFFICES ASSUME applied # "none", Own(applied), Room(was) <= MaxParams
                 PROVE  /\ \A i \in 1..Len(applying') : Agrees(applying'[i], was)
                        /\ \A m \in ModuleSet :
                             was[m].on =>
                               /\ live'[m].on \/ \E i \in 1..Len(applying') : applying'[i] = Param(m, "on", 1)
                               /\ live'[m].val = Printed(m, was[m].val)
                                  \/ \E i \in 1..Len(applying') : applying'[i] = Param(m, "val", Printed(m, was[m].val))
      BY <1>0 DEF AppliedInv, was
    <2>1. \A i \in 1..l : Agrees(applying[i], was)
      BY DEF ProfilesInv, AppliedInv, was, l
    <2>2. \A m \in ModuleSet :
            was[m].on =>
              /\ live[m].on \/ \E i \in 1..l : applying[i] = Param(m, "on", 1)
              /\ live[m].val = Printed(m, was[m].val) \/ \E i \in 1..l : applying[i] = Param(m, "val", Printed(m, was[m].val))
      BY DEF ProfilesInv, AppliedInv, was, l
    <2>3. \A i \in 1..l-1 : i + 1 \in 1..l
      BY <1>2
    <2>4. \A i \in 1..l : i = 1 \/ (i - 1 \in 1..l-1 /\ applying'[i - 1] = applying[i])
      BY <1>2
    <2>5. \A i \in 1..Len(applying') : Agrees(applying'[i], was)
      BY <1>2, <2>1, <2>3
    <2>6. Agrees(p, was)
      <3>1. 1 \in 1..l
        BY <1>2
      <3> QED
        BY <1>2, <2>1, <3>1
    <2>7. ASSUME NEW m \in ModuleSet, was[m].on
          PROVE  live'[m].on \/ \E i \in 1..l-1 : applying'[i] = Param(m, "on", 1)
      <3>1. CASE live[m].on
        <4>1. CASE m = o /\ p.kind = "on"
          BY <1>5, <2>6, <2>7, <4>1 DEF Agrees, o
        <4>2. CASE ~ (m = o /\ p.kind = "on")
          BY <1>3, <1>5, <3>1, <4>2
        <4> QED
          BY <4>1, <4>2
      <3>2. CASE \E i \in 1..l : applying[i] = Param(m, "on", 1)
        <4>1. PICK i \in 1..l : applying[i] = Param(m, "on", 1)
          BY <3>2
        <4>2. CASE i = 1
          <5>1. o = m /\ p.kind = "on" /\ p.val = 1
            BY <1>2, <4>1, <4>2 DEF Param, o
          <5> QED
            BY <1>5, <5>1
        <4> QED
          BY <2>4, <4>1, <4>2
      <3> QED
        BY <2>2, <2>7, <3>1, <3>2
    <2>8. ASSUME NEW m \in ModuleSet, was[m].on
          PROVE  live'[m].val = Printed(m, was[m].val) \/ \E i \in 1..l-1 : applying'[i] = Param(m, "val", Printed(m, was[m].val))
      <3>1. CASE live[m].val = Printed(m, was[m].val)
        <4>1. CASE m = o /\ p.kind = "val"
          BY <1>5, <2>6, <2>8, <4>1 DEF Agrees, o
        <4>2. CASE ~ (m = o /\ p.kind = "val")
          BY <1>3, <1>5, <3>1, <4>2
        <4> QED
          BY <4>1, <4>2
      <3>2. CASE \E i \in 1..l : applying[i] = Param(m, "val", Printed(m, was[m].val))
        <4>1. PICK i \in 1..l : applying[i] = Param(m, "val", Printed(m, was[m].val))
          BY <3>2
        <4>2. CASE i = 1
          <5>1. o = m /\ p.kind = "val" /\ p.val = Printed(m, was[m].val)
            BY <1>2, <4>1, <4>2 DEF Param, o
          <5> QED
            BY <1>5, <5>1
        <4> QED
          BY <2>4, <4>1, <4>2
      <3> QED
        BY <2>2, <2>8, <3>1, <3>2
    <2> QED
      BY <1>2, <2>5, <2>7, <2>8
  <1> QED
    BY <1>0, <1>6, <1>7, UsersKeep DEF ProfilesInv

\* A kill leaves a beginning in the file, all of the array if that had been written.
LEMMA DieKeeps ==
  ASSUME ProfilesInv, Die
  PROVE  ProfilesInv'
  <1> DEFINE off == [m \in ModuleSet |-> Off]
             T == Params
             S == Profile
  <1>0. /\ running /\ running' = FALSE
        /\ IF phase = "write" THEN file' \in Beginnings(profiles) ELSE file' = file
        /\ profiles' = <<>> /\ phase' = "idle" /\ at' = Nowhere
        /\ live' = off /\ applying' = <<>> /\ applied' = "none" /\ whole' = FALSE
        /\ saved' = IF whole THEN saved ELSE Nothing
        /\ stored' = stored
    BY DEF Die
  <1>1. off \in [ModuleSet -> Setting] /\ Nothing \in [Names -> [ModuleSet -> Setting]]
        /\ \A n \in Names, m \in ModuleSet : ~Nothing[n][m].on
    BY ProfilesAssumption DEF Off, Setting, Nothing
  <1> HIDE DEF off
  <1>2. /\ <<>> \in Seq(T) /\ Table(<<>>) /\ Len(<<>>) = 0
    <2>1. <<>> \in Seq(T) /\ <<>> \in Seq(S) /\ Len(<<>>) = 0
      BY EmptySeq
    <2>2. Once(<<>>)
      BY <2>1 DEF Once
    <2> QED
      BY <2>1, <2>2, ProfilesConstants DEF Table
  <1>3. file' \in Seq(FileEntry) /\ Once(file') /\ Starts(LoadedFrom(file'), stored)
    <2>1. CASE phase = "write"
      BY <1>0, <2>1, StoppedIs
    <2>2. CASE phase # "write"
      BY <1>0, <2>2 DEF ProfilesInv, ProfilesTypes, FileInv
    <2> QED
      BY <2>1, <2>2
  <1>4. ProfilesTypes'
    BY <1>0, <1>1, <1>2, <1>3 DEF ProfilesInv, ProfilesTypes
  <1>5. FileInv'
    BY <1>0, <1>3 DEF FileInv
  <1>6. SavedInv'
    <2>1. Told(profiles)'
      BY <1>0, <1>2 DEF Told
    <2>2. Told(LoadedFrom(file))'
      <3> DEFINE r == LoadedFrom(file')
      <3>1. CASE whole
        <4>1. file = profiles /\ phase = "idle" /\ file' = file /\ saved' = saved
          BY <1>0, <3>1 DEF ProfilesInv, FileInv
        <4>2. Table(profiles)
          BY DEF ProfilesInv, ProfilesTypes
        <4>3. \A i \in 1..Len(r) : Own(r[i].name) =>
                \E k \in 1..Len(profiles) : /\ r[i].name = profiles[k].name
                                            /\ r[i].params = profiles[k].params
          BY <4>1, <4>2, LoadsTable
        <4> HIDE DEF r
        <4>4. ASSUME NEW i \in 1..Len(r), Own(r[i].name)
              PROVE  Tells(r[i].params, saved'[r[i].name], Len(Modules))
          <5>1. PICK k \in 1..Len(profiles) : /\ r[i].name = profiles[k].name
                                              /\ r[i].params = profiles[k].params
            BY <4>3, <4>4
          <5>2. Tells(profiles[k].params, saved[profiles[k].name], Len(Modules))
            BY <4>1, <4>4, <5>1 DEF ProfilesInv, SavedInv, Told
          <5> QED
            BY <4>1, <5>1, <5>2
        <4> QED
          BY <4>4 DEF Told, r
      <3>2. CASE ~whole
        <4>1. Table(r)
          BY <1>3, Loads
        <4> HIDE DEF r
        <4>2. ASSUME NEW i \in 1..Len(r) PROVE Tells(r[i].params, saved'[r[i].name], Len(Modules))
          <5>1. r[i].name \in Names /\ r[i].params \in Seq(Params)
            BY <4>1, ProfilesAre DEF Table, Profile
          <5>2. \A m \in ModuleSet : ~saved'[r[i].name][m].on
            BY <1>0, <1>1, <3>2, <5>1
          <5>3. \A k \in 1..Len(r[i].params) : r[i].params[k].module \in ModuleSet
            BY <5>1, ParamsAre DEF Params
          <5>4. \A j \in 1..Len(Modules) : Modules[j] \in ModuleSet
            BY ProfilesConstants
          <5> QED
            BY <5>2, <5>3, <5>4 DEF Tells, Agrees, Restores
        <4> QED
          BY <4>2 DEF Told, r
      <3> QED
        BY <3>1, <3>2
    <2> QED
      BY <2>1, <2>2 DEF SavedInv
  <1>7. Collected' /\ AppliedInv'
    BY <1>0 DEF Collected, AppliedInv
  <1> QED
    BY <1>4, <1>5, <1>6, <1>7 DEF ProfilesInv

\* The next start has what the file has.
LEMMA RestartKeeps ==
  ASSUME ProfilesInv, Restart
  PROVE  ProfilesInv'
  <1>0. /\ UNCHANGED <<phase, at, live, applying, file, applied, saved, stored, whole>>
        /\ ~running /\ running' = TRUE /\ profiles' = LoadedFrom(file) /\ phase = "idle"
        /\ applied = "none" /\ ~whole
    BY DEF Restart, known, ProfilesInv, ProfilesTypes, FileInv
  <1>1. Table(profiles')
    BY <1>0, Loads DEF ProfilesInv, ProfilesTypes
  <1>2. ProfilesTypes'
    BY <1>0, <1>1 DEF ProfilesInv, ProfilesTypes
  <1>3. FileInv'
    BY <1>0 DEF ProfilesInv, FileInv
  <1>4. SavedInv'
    BY <1>0 DEF ProfilesInv, SavedInv, Told
  <1>5. Collected' /\ AppliedInv'
    BY <1>0 DEF Collected, AppliedInv
  <1> QED
    BY <1>2, <1>3, <1>4, <1>5 DEF ProfilesInv

\* A program that starts has read its first file.
LEMMA ProfilesStart ==
  ASSUME ProfilesInit
  PROVE  ProfilesInv
  <1> DEFINE T == Params
             off == [m \in ModuleSet |-> Off]
  <1>0. /\ file \in FirstFiles /\ profiles = LoadedFrom(file) /\ phase = "idle" /\ at = Nowhere
        /\ live = off /\ applying = <<>> /\ running = TRUE /\ applied = "none" /\ saved = Nothing
        /\ stored = profiles /\ whole = FALSE
    BY DEF ProfilesInit
  <1>1. /\ file \in Seq([name : Names, params : Seq(Params)])
        /\ \A i, j \in DOMAIN file : i # j => file[i].name # file[j].name
    BY <1>0, ProfilesAssumption
  <1>2. file \in Seq(FileEntry)
    BY <1>1 DEF FileEntry
  <1>3. Once(file)
    BY <1>1, <1>2, EntriesAre DEF Once
  <1>4. Table(profiles) /\ Len(profiles) \in Nat
    BY <1>0, <1>2, <1>3, Loads, ProfilesAre DEF Table
  <1>5. off \in [ModuleSet -> Setting] /\ Nothing \in [Names -> [ModuleSet -> Setting]]
        /\ \A n \in Names, m \in ModuleSet : ~Nothing[n][m].on
    BY ProfilesAssumption DEF Off, Setting, Nothing
  <1>6. <<>> \in Seq(T)
    BY EmptySeq
  <1> HIDE DEF off
  <1>7. ProfilesTypes
    BY <1>0, <1>2, <1>3, <1>4, <1>5, <1>6 DEF ProfilesTypes
  <1>8. FileInv
    <2>1. Starts(profiles, profiles)
      BY <1>4 DEF Starts
    <2> QED
      BY <1>0, <2>1 DEF FileInv
  <1>9. SavedInv
    <2>1. ASSUME NEW i \in 1..Len(profiles)
          PROVE  Tells(profiles[i].params, saved[profiles[i].name], Len(Modules))
      <3>1. profiles[i].name \in Names /\ profiles[i].params \in Seq(Params)
        BY <1>4, ProfilesAre DEF Table, Profile
      <3>2. \A m \in ModuleSet : ~saved[profiles[i].name][m].on
        BY <1>0, <1>5, <3>1
      <3>3. \A k \in 1..Len(profiles[i].params) : profiles[i].params[k].module \in ModuleSet
        BY <3>1, ParamsAre DEF Params
      <3>4. \A j \in 1..Len(Modules) : Modules[j] \in ModuleSet
        BY ProfilesConstants
      <3> QED
        BY <3>2, <3>3, <3>4 DEF Tells, Agrees, Restores
    <2>2. Told(profiles)
      BY <2>1 DEF Told
    <2> QED
      BY <1>0, <2>2 DEF SavedInv
  <1>10. Collected /\ AppliedInv
    BY <1>0 DEF Collected, AppliedInv
  <1> QED
    BY <1>7, <1>8, <1>9, <1>10 DEF ProfilesInv

\* All together.
LEMMA ProfilesNextKeeps ==
  ASSUME ProfilesInv, ProfilesNext
  PROVE  ProfilesInv'
  <1>1. ASSUME NEW n \in Names, Unknown(n) PROVE ProfilesInv'
    BY <1>1 DEF Unknown, profilesVars, program, known, counts,
                ProfilesInv, ProfilesTypes, FileInv, Collected, SavedInv, Told, AppliedInv
  <1> QED
    BY <1>1, SetModuleKeeps, SaveKeeps, DeleteKeeps, ApplyKeeps, CollectKeeps, OpenFileKeeps,
       OpenFailsKeeps, CloseFileKeeps, WriteFailsKeeps, ApplyOneKeeps, DieKeeps, RestartKeeps
       DEF ProfilesNext

\* The profiles, the file and the modules are consistent in the sense of ProfilesInv in
\* every state that saves, deletes, applications, failures and kills lead to.
THEOREM ProfilesInductive == ProfilesSpec => []ProfilesInv
  <1>1. ProfilesInv /\ UNCHANGED profilesVars => ProfilesInv'
    BY DEF profilesVars, program, known, counts,
           ProfilesInv, ProfilesTypes, FileInv, Collected, SavedInv, Told, AppliedInv
  <1> QED
    BY <1>1, ProfilesStart, ProfilesNextKeeps, PTL DEF ProfilesSpec

\* profilesWriteAll() leaves what profilesLoad() reads as the array is, at every release of
\* profileLock after a write that did not fail; a name has one profile, whatever is saved.
THEOREM ProfilesAreConsistent == ProfilesSpec => []ProfilesConsistent
  <1>1. ASSUME ProfilesInv PROVE ProfilesTypeOK
    <2>1. /\ Table(profiles) /\ Len(profiles) \in Nat /\ MaxProfiles \in Nat
          /\ DOMAIN profiles = 1..Len(profiles)
          /\ \A i \in 1..Len(profiles) : profiles[i] \in Profile
      BY <1>1, ProfilesAre, ProfilesConstants DEF ProfilesInv, ProfilesTypes, Table
    <2>2. at \in {Nowhere} \cup [slot : 1..MaxProfiles, next : 1..Len(Modules)]
      BY <1>1, <2>1 DEF ProfilesInv, ProfilesTypes, Table
    <2> QED
      BY <1>1, <2>1, <2>2 DEF ProfilesInv, ProfilesTypes, Table, Profile, ProfilesTypeOK, Setting
  <1>2. ASSUME ProfilesInv PROVE FileMatches
    <2> DEFINE r == LoadedFrom(profiles)
    <2>1. Table(profiles) /\ DOMAIN profiles = 1..Len(profiles)
      BY <1>2, ProfilesAre DEF ProfilesInv, ProfilesTypes, Table
    <2>2. /\ Table(r)
          /\ \A i \in 1..Len(profiles) : UnquotedTo(profiles, i) => i <= Len(r) /\ r[i] = profiles[i]
          /\ UnquotedTo(profiles, Len(profiles)) => r = profiles
      BY <2>1, LoadsTable
    <2> HIDE DEF r
    <2>3. Len(r) \in Nat /\ DOMAIN r = 1..Len(r)
      BY <2>2, ProfilesAre DEF Table
    <2>4. whole => LoadedFrom(file) = r
      BY <1>2 DEF ProfilesInv, FileInv, r
    <2>5. \A i \in DOMAIN profiles : UnquotedTo(profiles, i) => i \in DOMAIN r /\ r[i] = profiles[i]
      BY <2>1, <2>2, <2>3
    <2> QED
      BY <2>2, <2>4, <2>5 DEF FileMatches
  <1>3. ASSUME ProfilesInv PROVE NameOnce
    <2> SUFFICES ASSUME NEW n \in Names, Own(n) PROVE Cardinality(Slots(n)) <= 1
      BY DEF NameOnce
    <2> DEFINE S == Slots(n)
    <2>1. \A i, j \in S : i = j
      BY <1>3, ProfilesAre DEF ProfilesInv, ProfilesTypes, Table, Once, Slots
    <2> HIDE DEF S
    <2>2. S = {} \/ \E i : S = {i}
      BY <2>1
    <2>3. Cardinality(S) = 0 \/ Cardinality(S) = 1
      BY <2>2, FS_EmptySet, FS_Singleton
    <2> QED
      BY <2>3 DEF S
  <1>4. ProfilesInv => ProfilesConsistent
    BY <1>1, <1>2, <1>3 DEF ProfilesConsistent
  <1> QED
    BY <1>4, ProfilesInductive, PTL

\* A profile that is applied brings back every module as its profileSaveCurrent() read it
\* and that had room, after a restart as well if the file was written.
THEOREM AppliedIsRestored == ProfilesSpec => []SavedIsRestored
  <1>1. ASSUME ProfilesInv PROVE SavedIsRestored
    <2> SUFFICES ASSUME applied # "none", Own(applied), applying = <<>>,
                        Room(saved[applied]) <= MaxParams,
                        NEW m \in ModuleSet, saved[applied][m].on
                 PROVE  Restored(m, saved[applied][m])
      BY DEF SavedIsRestored
    <2> DEFINE v == saved[applied][m].val
    <2>1. Len(applying) = 0
      BY EmptySeq
    <2>2. live[m].on /\ live[m].val = Printed(m, v)
      BY <1>1, <2>1 DEF ProfilesInv, AppliedInv
    <2>3. applied \in Names /\ live[m] \in Setting /\ saved[applied][m] \in Setting
      BY <1>1 DEF ProfilesInv, ProfilesTypes
    <2>4. live[m].on = saved[applied][m].on
      BY <2>2, <2>3 DEF Setting
    <2>5. v \in Nat
      BY <2>3, ProfilesAssumption DEF Setting
    <2> HIDE DEF v
    <2>6. m \in Chances => Printed(m, v) % 10 = 0 /\ Printed(m, v) - v \in -5..5
      BY <2>5, PrintedIs
    <2>7. m \notin Chances => Printed(m, v) = v
      BY DEF Printed
    <2> QED
      BY <2>2, <2>4, <2>6, <2>7 DEF Restored, v
  <1> QED
    BY <1>1, ProfilesInductive, PTL

\* Saving or deleting a profile leaves those of other names in their order.
LEMMA OthersStay ==
  ASSUME ProfilesInv, NEW n \in Names, NEW X, \A e \in X : e.name # Cut[n],
         Save(n) \/ Delete(n) \/ (Collect /\ profiles[at.slot].name = Cut[n])
  PROVE  Only(profiles, X) = Only(profiles', X)
  <1> DEFINE S == Profile
             l == Len(profiles)
             e == [name |-> Cut[n], params |-> <<>>]
  <1>0. Table(profiles) /\ profiles \in Seq(S) /\ l \in Nat /\ \A i \in 1..l : profiles[i] \in S
    BY ProfilesAre DEF ProfilesInv, ProfilesTypes, Table
  <1>1. CASE Save(n)
    <2> DEFINE k == Slot(n)
    <2>0. e.name = Cut[n]
      OBVIOUS
    <2>1. CASE k \in 1..l
      <3>1. /\ Len(profiles') = l /\ profiles[k].name = Cut[n] /\ profiles'[k] = e
            /\ \A i \in 1..l : i # k => profiles'[i] = profiles[i]
        BY <1>0, <1>1, <2>1, SaveIs
      <3> HIDE DEF k, e
      <3>2. \A i \in 1..l : profiles[i] = profiles'[i] \/ (profiles[i] \notin X /\ profiles'[i] \notin X)
        BY <2>0, <3>1
      <3> QED
        BY <1>0, <3>1, <3>2, OnlySame
    <2>2. CASE k \notin 1..l
      <3>1. profiles' = Append(profiles, e) /\ profiles' \in Seq(S) /\ k \in 1..Len(profiles') /\ profiles'[k] = e
        BY <1>0, <1>1, <2>2, SaveIs
      <3>2. e \in S
        <4>1. profiles'[k] \in S
          BY <3>1, ProfilesAre
        <4> QED
          BY <3>1, <4>1
      <3> HIDE DEF e, S
      <3>3. e \notin X
        BY <2>0
      <3> QED
        BY <1>0, <3>1, <3>2, <3>3, OnlyAppend
    <2> QED
      BY <2>1, <2>2
  <1>2. CASE Delete(n)
    <2> DEFINE k == FirstSlot(n)
    <2>1. /\ k \in 1..l /\ profiles[k].name = n /\ Cut[n] = n
          /\ profiles' = SubSeq(profiles, 1, k - 1) \o SubSeq(profiles, k + 1, l)
      BY <1>0, <1>2, SlotIs DEF Delete, RemoveAt
    <2> HIDE DEF k, S
    <2>2. profiles[k] \notin X
      BY <2>1
    <2> QED
      BY <1>0, <2>1, <2>2, OnlyWithout
  <1>3. CASE Collect /\ profiles[at.slot].name = Cut[n]
    <2> DEFINE k == at.slot
               w == With(profiles[k].params, Modules[at.next])
    <2>1. phase = "collect" /\ profiles' = [profiles EXCEPT ![k] = [profiles[k] EXCEPT !.params = w]]
      BY <1>3, Zenon DEF Collect
    <2>2. k \in 1..l /\ profiles[k].name = Cut[n] /\ profiles[k] \in S
      BY <1>0, <1>3, <2>1 DEF ProfilesInv, ProfilesTypes
    <2>3. profiles[k] = [name |-> Cut[n], params |-> profiles[k].params]
      BY <2>2 DEF Profile
    <2> DEFINE f == [profiles[k] EXCEPT !.params = w]
    <2> HIDE DEF w
    <2>4. f = [name |-> Cut[n], params |-> w]
      BY <2>3
    <2>5. f.name = Cut[n]
      BY <2>4
    <2> HIDE DEF f, k
    <2>6. profiles' = [profiles EXCEPT ![k] = f]
      BY <2>1 DEF f
    <2>7. /\ Len(profiles') = l /\ DOMAIN profiles = 1..l
          /\ \A i \in 1..l : profiles'[i] = IF i = k THEN f ELSE profiles[i]
      BY <1>0, <2>6
    <2>8. \A i \in 1..l : profiles[i] = profiles'[i] \/ (profiles[i] \notin X /\ profiles'[i] \notin X)
      BY <2>2, <2>5, <2>7
    <2> QED
      BY <1>0, <2>7, <2>8, OnlySame
  <1> QED
    BY <1>1, <1>2, <1>3

\* No save and no delete costs another name its profile, and the start after a kill, or a
\* full disk, has a beginning of the array that profilesWriteAll() was writing.
THEOREM OthersAreKept == ProfilesSpec => Kept
  <1>1. ASSUME ProfilesInv, ProfilesNext PROVE OthersKept
    <2> SUFFICES ASSUME NEW n \in Names,
                        Save(n) \/ Delete(n) \/ (Collect /\ profiles[at.slot].name = Cut[n])
                 PROVE  LET others == {e \in ToSet(profiles) \cup ToSet(profiles') : e.name # Cut[n]}
                        IN Only(profiles, others) = Only(profiles', others)
      BY Zenon DEF OthersKept
    <2> DEFINE others == {e \in ToSet(profiles) \cup ToSet(profiles') : e.name # Cut[n]}
    <2>1. \A e \in others : e.name # Cut[n]
      OBVIOUS
    <2> HIDE DEF others
    <2>2. Only(profiles, others) = Only(profiles', others)
      BY <1>1, <2>1, OthersStay
    <2> QED
      BY <2>2 DEF others
  <1>2. ASSUME ProfilesInv, ProfilesNext PROVE RestartsWithBeginning
    <2> SUFFICES ASSUME ~running, running' PROVE RestartsWithBeginning
      BY DEF RestartsWithBeginning
    <2>1. Restart
      BY <1>2 DEF ProfilesNext, SetModule, Save, Delete, Apply, Unknown, Locking, Collect, OpenFile,
                  OpenFails, CloseFile, WriteFails, ApplyOne, Die
    <2>2. profiles' = LoadedFrom(file) /\ Starts(profiles', stored) /\ Table(profiles') /\ Table(stored)
      BY <1>2, <2>1, Loads DEF ProfilesInv, ProfilesTypes, FileInv, Restart
    <2> DEFINE n == Len(profiles')
    <2>3. n \in Nat /\ n <= Len(stored)
      BY <2>2, ProfilesAre DEF Table, Starts
    <2>4. \A i \in 1..n : UnquotedTo(stored, i) => profiles'[i].name = stored[i].name
      BY <2>2 DEF Starts
    <2> HIDE DEF n
    <2>5. \A i \in 1..n : i < n /\ UnquotedTo(stored, i) => profiles'[i] = stored[i]
      <3>1. \A i \in 1..n : i < n => i \in 1..n-1
        BY <2>3
      <3> QED
        BY <2>2, <3>1 DEF Starts, n
    <2> QED
      BY <2>3, <2>4, <2>5 DEF RestartsWithBeginning, n
  <1>3. ProfilesInv /\ [ProfilesNext]_profilesVars => [OthersKept /\ RestartsWithBeginning]_profilesVars
    BY <1>1, <1>2
  <1> QED
    BY <1>3, ProfilesInductive, PTL DEF ProfilesSpec, Kept

------------------------------------------------------------------------------
(* App and Servers.                                                         *)

USE AppAssumption

\* A thread is either the main thread or a worker, never both.
LEMMA Procs == Main \in Proc /\ Main \notin Worker /\ \A w \in Worker : w \in Proc /\ w # Main
  BY DEF Proc, Worker

\* The places to go on to after a start or a stop are outside the lock.
LEMMA AfterPlaces ==
  ASSUME NEW p \in Proc
  PROVE  /\ AfterStop(p) \in {"startLock", "httpStop", "idle"}
         /\ AfterStart(p) \in {"loop", "idle"}
         /\ AfterStop(p) = "httpStop" <=> goal[p] = "exit"
         /\ AfterStop(p) = "startLock" <=> goal[p] = "filter"
         /\ AfterStart(p) = "loop" <=> goal[p] = "boot"
  BY DEF AfterStop, AfterStart

\* No session, no log, nobody inside the lock.
THEOREM InitIInv == Init => IInv
  <1> SUFFICES ASSUME Init PROVE IInv
    OBVIOUS
  <1> USE Procs DEF Init
  <1>1. PICK filterGiven \in BOOLEAN :
          pc = [p \in Proc |-> IF p # Main THEN "idle"
                               ELSE IF filterGiven THEN "startLock" ELSE "loop"]
    OBVIOUS
  <1>2. \A p \in Proc : pc[p] \in {"idle", "startLock", "loop"}
    BY <1>1
  <1>3. TypeOK
    <2>1. pc \in [Proc -> Place]
      BY <1>1 DEF Place
    <2>2. goal \in [Proc -> Goal]
      BY DEF Goal
    <2>3. requests \in 0..MaxRequests /\ opens \in Nat
      OBVIOUS
    <2> QED
      BY <2>1, <2>2, <2>3 DEF TypeOK
  <1>4. LockInv
    BY <1>1, <1>2 DEF LockInv, Excluded, Inside
  <1> QED
    BY <1>1, <1>2, <1>3, <1>4 DEF IInv, SessionInv, OneSession, LogWithSession, TickOnOpenLog, LeftByLate, CleanedUp

\* A stop keeps the invariant: only its body changes the session, inside the lock.
LEMMA StopKeeps ==
  ASSUME IInv, NEW p \in Proc, StopStep(p)
  PROVE  IInv'
  <1> USE Procs, AfterPlaces DEF IInv, TypeOK, Place, Goal, Goto
  <1> DEFINE Rest == SessionInv /\ OneSession /\ LogWithSession /\ TickOnOpenLog /\ LeftByLate
  <1>1. CASE StopLock(p)
    <2>1. TypeOK'
      BY <1>1 DEF StopLock
    <2>2. LockInv'
      BY <1>1 DEF StopLock, LockInv, Excluded, Inside
    <2>3. Rest'
      BY <1>1 DEF StopLock, SessionInv, OneSession, LogWithSession, TickOnOpenLog, LeftByLate, CleanedUp
    <2> QED
      BY <2>1, <2>2, <2>3
  <1>2. CASE StopBody(p)
    <2>0. appLock = p /\ \A q \in Proc : q # p => pc[q] \notin Inside
      BY <1>2 DEF StopBody, LockInv, Excluded, Inside
    <2>1. TypeOK'
      <3>1. opens' \in Nat
        BY <1>2 DEF StopBody, OneSession
      <3>2. pc' \in [Proc -> Place]
        BY <1>2 DEF StopBody
      <3> QED
        BY <1>2, <3>1, <3>2 DEF StopBody
    <2>2. LockInv'
      BY <1>2 DEF StopBody, LockInv, Excluded, Inside
    <2>3. Rest'
      BY <1>2, <2>0 DEF StopBody, SessionInv, OneSession, LogWithSession, TickOnOpenLog, LeftByLate, CleanedUp, Inside
    <2> QED
      BY <2>1, <2>2, <2>3
  <1>3. CASE StopReset(p)
    <2>1. TypeOK'
      BY <1>3 DEF StopReset
    <2>2. LockInv'
      BY <1>3 DEF StopReset, LockInv, Excluded, Inside
    <2>3. Rest'
      BY <1>3 DEF StopReset, SessionInv, OneSession, LogWithSession, TickOnOpenLog, LeftByLate, CleanedUp
    <2> QED
      BY <2>1, <2>2, <2>3
  <1> QED
    BY <1>1, <1>2, <1>3 DEF StopStep

\* A start keeps it: the flag is looked at inside the lock and stays as it is
\* until the session is open.
LEMMA StartKeeps ==
  ASSUME IInv, NEW p \in Proc, StartStep(p)
  PROVE  IInv'
  <1> USE Procs, AfterPlaces DEF IInv, TypeOK, Place, Goal, Goto
  <1> DEFINE Rest == SessionInv /\ OneSession /\ LogWithSession /\ TickOnOpenLog /\ LeftByLate
  <1>1. CASE StartLock(p)
    <2>1. TypeOK'
      BY <1>1 DEF StartLock, MayStart
    <2>2. LockInv'
      BY <1>1 DEF StartLock, MayStart, LockInv, Excluded, Inside
    <2>3. Rest'
      BY <1>1 DEF StartLock, MayStart, SessionInv, OneSession, LogWithSession, TickOnOpenLog, LeftByLate, CleanedUp
    <2> QED
      BY <2>1, <2>2, <2>3
  <1>2. CASE StartRefused(p) \/ StartDenied(p)
    <2>1. CASE StartRefused(p)
      <3>1. TypeOK'
        BY <2>1 DEF StartRefused
      <3>2. LockInv'
        BY <2>1 DEF StartRefused, LockInv, Excluded, Inside
      <3>3. Rest'
        BY <2>1 DEF StartRefused, SessionInv, OneSession, LogWithSession, TickOnOpenLog, LeftByLate, CleanedUp
      <3> QED
        BY <3>1, <3>2, <3>3
    <2>2. CASE StartDenied(p)
      <3>1. TypeOK'
        BY <2>2 DEF StartDenied
      <3>2. LockInv'
        BY <2>2 DEF StartDenied, LockInv, Excluded, Inside
      <3>3. Rest'
        BY <2>2 DEF StartDenied, SessionInv, OneSession, LogWithSession, TickOnOpenLog, LeftByLate, CleanedUp
      <3> QED
        BY <3>1, <3>2, <3>3
    <2> QED
      BY <1>2, <2>1, <2>2
  <1>3. CASE StartBody(p) \/ StartFails(p)
    <2>0. appLock = p /\ \A q \in Proc : q # p => pc[q] \notin Inside
      BY <1>3 DEF StartBody, StartFails, LockInv, Excluded, Inside
    <2>1. TypeOK'
      <3>1. opens' \in Nat
        BY <1>3 DEF StartBody, StartFails
      <3>2. pc' \in [Proc -> Place]
        BY <1>3 DEF StartBody, StartFails
      <3> QED
        BY <1>3, <3>1, <3>2 DEF StartBody, StartFails
    <2>2. LockInv'
      BY <1>3 DEF StartBody, StartFails, LockInv, Excluded, Inside
    <2>3. (SessionInv /\ OneSession /\ LogWithSession /\ TickOnOpenLog)'
      BY <1>3, <2>0 DEF StartBody, StartFails, SessionInv, OneSession, LogWithSession, TickOnOpenLog, Inside
    <2>4. LeftByLate'
      <3>1. CASE StartBody(p)
        <4>1. CleanedUp' => CleanedUp
          BY <3>1 DEF StartBody, CleanedUp
        <4>2. CleanedUp => late'
          BY <3>1 DEF StartBody
        <4> QED
          BY <4>1, <4>2 DEF LeftByLate
      <3>2. CASE StartFails(p)
        <4>1. CleanedUp' => CleanedUp
          BY <3>2 DEF StartFails, CleanedUp
        <4>2. late' = late /\ capturing' = capturing
          BY <3>2 DEF StartFails
        <4> QED
          BY <4>1, <4>2 DEF LeftByLate
      <3> QED
        BY <1>3, <3>1, <3>2
    <2> QED
      BY <2>1, <2>2, <2>3, <2>4
  <1>4. CASE StartFiles(p)
    <2>0. appLock = p /\ \A q \in Proc : q # p => pc[q] \notin Inside
      BY <1>4 DEF StartFiles, LockInv, Excluded, Inside
    <2>1. TypeOK'
      BY <1>4 DEF StartFiles
    <2>2. LockInv'
      BY <1>4 DEF StartFiles, LockInv, Excluded, Inside
    <2>3. Rest'
      BY <1>4, <2>0 DEF StartFiles, SessionInv, OneSession, LogWithSession, TickOnOpenLog, LeftByLate, CleanedUp, Inside
    <2> QED
      BY <2>1, <2>2, <2>3
  <1> QED
    BY <1>1, <1>2, <1>3, <1>4 DEF StartStep

\* So does the main thread, whose tick writes to the log inside the lock.
LEMMA MainKeeps ==
  ASSUME IInv, MainStep
  PROVE  IInv'
  <1> USE Procs DEF IInv, TypeOK, Place, Goal, Goto
  <1> DEFINE Rest == SessionInv /\ OneSession /\ LogWithSession /\ TickOnOpenLog /\ LeftByLate
  <1>1. CASE Tick \/ TickDone
    <2>1. TypeOK'
      BY <1>1 DEF Tick, TickDone
    <2>2. LockInv'
      BY <1>1 DEF Tick, TickDone, LockInv, Excluded, Inside
    <2>3. Rest'
      BY <1>1 DEF Tick, TickDone, SessionInv, OneSession, LogWithSession, TickOnOpenLog, LeftByLate, CleanedUp
    <2> QED
      BY <2>1, <2>2, <2>3
  <1>2. CASE LeaveLoop \/ HttpJoin \/ PipeJoin
    <2>1. TypeOK'
      BY <1>2 DEF LeaveLoop, HttpJoin, PipeJoin
    <2>2. LockInv'
      BY <1>2 DEF LeaveLoop, HttpJoin, PipeJoin, LockInv, Excluded, Inside
    <2>3. Rest'
      BY <1>2 DEF LeaveLoop, HttpJoin, PipeJoin, SessionInv, OneSession, LogWithSession, TickOnOpenLog, LeftByLate, CleanedUp
    <2> QED
      BY <2>1, <2>2, <2>3
  <1> QED
    BY <1>1, <1>2 DEF MainStep

\* Requests and checks touch neither the lock nor the session.
LEMMA WorldKeeps ==
  ASSUME IInv,
         \/ \E w \in Worker : Check(w) \/ \E g \in {"filter", "stop"} : Request(w, g)
         \/ QuitRequest
  PROVE  IInv'
  <1> USE Procs DEF IInv, TypeOK, Place, Goal, Goto
  <1> DEFINE Rest == SessionInv /\ OneSession /\ LogWithSession /\ TickOnOpenLog /\ LeftByLate
  <1>1. ASSUME NEW w \in Worker, Check(w) PROVE IInv'
    <2>1. AfterStop(w) \in {"startLock", "idle"}
      BY <1>1, AfterPlaces DEF LockInv
    <2>2. TypeOK'
      BY <1>1, <2>1 DEF Check
    <2>3. LockInv'
      BY <1>1, <2>1 DEF Check, LockInv, Excluded, Inside
    <2>4. Rest'
      BY <1>1, <2>1 DEF Check, SessionInv, OneSession, LogWithSession, TickOnOpenLog, LeftByLate, CleanedUp
    <2> QED
      BY <2>2, <2>3, <2>4
  <1>2. ASSUME NEW w \in Worker, NEW g \in {"filter", "stop"}, Request(w, g) PROVE IInv'
    <2>1. TypeOK'
      BY <1>2 DEF Request
    <2>2. LockInv'
      BY <1>2 DEF Request, LockInv, Excluded, Inside
    <2>3. Rest'
      BY <1>2 DEF Request, SessionInv, OneSession, LogWithSession, TickOnOpenLog, LeftByLate, CleanedUp
    <2> QED
      BY <2>1, <2>2, <2>3
  <1>3. CASE QuitRequest
    <2>1. TypeOK'
      BY <1>3 DEF QuitRequest
    <2>2. LockInv' /\ Rest'
      BY <1>3 DEF QuitRequest, LockInv, Excluded, SessionInv, OneSession, LogWithSession,
                  TickOnOpenLog, LeftByLate, CleanedUp
    <2> QED
      BY <2>1, <2>2
  <1> QED
    BY <1>1, <1>2, <1>3

\* Whatever a step does, the invariant stays.
LEMMA StepKeeps == IInv /\ [Next]_vars => IInv'
  <1> SUFFICES ASSUME IInv, [Next]_vars PROVE IInv'
    OBVIOUS
  <1>1. CASE Next
    BY <1>1, StopKeeps, StartKeeps, MainKeeps, WorldKeeps DEF Next
  <1>2. CASE UNCHANGED vars
    BY <1>2 DEF vars, IInv, TypeOK, LockInv, Excluded, SessionInv, OneSession, LogWithSession,
                TickOnOpenLog, LeftByLate, CleanedUp
  <1> QED
    BY <1>1, <1>2

\* The inductive invariant of application control.
THEOREM Inductive == Spec => []IInv
  BY InitIInv, StepKeeps, PTL DEF Spec

\* appLock excludes, whoever starts, stops or ticks.
THEOREM LockExcludes == Spec => []Excluded
  <1>1. IInv => Excluded
    BY DEF IInv, LockInv
  <1> QED
    BY <1>1, Inductive, PTL

\* divertStart and divertStop alternate, and capturing tells which was last.
THEOREM SessionsAlternate == Spec => []OneSession
  <1>1. IInv => OneSession
    BY DEF IInv
  <1> QED
    BY <1>1, Inductive, PTL

\* The statistics log is closed when no session is open.
THEOREM LogEndsWithSession == Spec => []LogWithSession
  <1>1. IInv => LogWithSession
    BY DEF IInv
  <1> QED
    BY <1>1, Inductive, PTL

\* The tick never writes to a file that a stop has closed.
THEOREM TickWritesToOpenFile == Spec => []TickOnOpenLog
  <1>1. IInv => TickOnOpenLog
    BY DEF IInv
  <1> QED
    BY <1>1, Inductive, PTL

\* Whatever runs once the clean-up has stopped the capture was started after that.
THEOREM LeftoversAreLate == Spec => []LeftByLate
  <1>1. IInv => LeftByLate
    BY DEF IInv
  <1> QED
    BY <1>1, Inductive, PTL

------------------------------------------------------------------------------
(* The servers.                                                             *)

USE ServersAssumption

SInv == IInv /\ ServersInv

\* Only a finite number of connection threads exist.
LEMMA FiniteConnected == IsFiniteSet(Connected) /\ Cardinality(Connected) \in Nat
  <1>1. Connected \subseteq Http
    BY DEF Connected
  <1>2. IsFiniteSet(Connected)
    BY <1>1, FS_Subset
  <1> QED
    BY <1>2, FS_CardinalityType

\* With nobody counted, nobody is connected.
LEMMA NobodyLeft ==
  ASSUME Counted, ServersTypeOK, activeConnections = 0
  PROVE  Connected = {}
  <1>1. Cardinality(Connected) = 0
    BY FiniteConnected DEF Counted
  <1> QED
    BY <1>1, FiniteConnected, FS_EmptySet

\* Every step of the servers is one of App, or leaves App alone.
LEMMA StepMaps == SInv /\ [ServersNext]_allVars => [Next]_vars
  <1> SUFFICES ASSUME SInv, [ServersNext]_allVars PROVE [Next]_vars
    OBVIOUS
  <1> USE Procs DEF SInv, ServersInv
  <1>1. CASE UNCHANGED allVars
    BY <1>1 DEF allVars
  <1>2. CASE ServersNext
    <2>0. ~Exited
      BY <1>2 DEF ServersNext
    <2>1. CASE AcceptStep
      BY <2>1 DEF AcceptStep, LoopHead, Accept, AcceptWoken, Cap, SpawnFails, Spawn
    <2>2. ASSUME NEW w \in Worker, Route(w) PROVE Next
      <3>1. pc[w] = "idle"
        BY <2>2 DEF Route, OnBehalf
      <3>2. IF w \in Http THEN "http" \in accepting ELSE "pipe" \in accepting
        <4>1. CASE w \in Http
          BY <2>2, <4>1 DEF Route, JoinedQuiet, Connected
        <4>2. CASE w \notin Http
          BY <2>0, <4>2 DEF StillServed, Exited
        <4> QED
          BY <4>1, <4>2
      <3>3. PICK g \in {"filter", "stop"} : goal' = [goal EXCEPT ![w] = g]
        BY <2>2 DEF Route
      <3>4. Request(w, g)
        BY <2>2, <3>1, <3>2, <3>3 DEF Route, Request
      <3> QED
        BY <2>0, <3>4 DEF Next
    <2>3. ASSUME NEW w \in Worker, RouteQuit(w) PROVE Next
      BY <2>0, <2>3 DEF RouteQuit, Next
    <2>4. ASSUME NEW w \in Worker, ConnectionStep(w), ~Route(w), ~RouteQuit(w) PROVE UNCHANGED vars
      BY <2>4 DEF ConnectionStep, RouteStream, Answer, Deadline, Respond, StreamLost, StreamEnds,
                  Close, PipeAccept
    <2>5. CASE CloseListener \/ JoinAcceptor
      BY <2>5 DEF CloseListener, JoinAcceptor
    <2>6. CASE Drain
      <3>1. activeConnections = 0 => \A w \in Http : pc[w] = "idle"
        <4> SUFFICES ASSUME activeConnections = 0, NEW w \in Http PROVE pc[w] = "idle"
          OBVIOUS
        <4>1. place[w] = "none"
          BY NobodyLeft DEF Connected
        <4> QED
          BY <4>1 DEF OnBehalf, Worker
      <3>2. HttpJoin
        BY <2>6, <3>1 DEF Drain, HttpJoin
      <3> QED
        BY <2>0, <3>2 DEF Next, MainStep
    <2>7. CASE PipeDrain
      <3>1. (\A w \in Pipe : place[w] = "none") => \A w \in Pipe : pc[w] = "idle"
        BY DEF OnBehalf, Worker
      <3>2. PipeJoin
        BY <2>7, <3>1 DEF PipeDrain, PipeJoin
      <3> QED
        BY <2>0, <3>2 DEF Next, MainStep
    <2>8. CASE AppStep
      BY <2>0, <2>8 DEF AppStep, Next, MainStep
    <2> QED
      BY <1>2, <2>1, <2>2, <2>3, <2>4, <2>5, <2>6, <2>7, <2>8 DEF ServersNext
  <1> QED
    BY <1>1, <1>2

\* Nobody is connected when the servers start.
LEMMA InitSInv == ServersInit => SInv
  <1> SUFFICES ASSUME ServersInit PROVE SInv
    OBVIOUS
  <1>1. IInv
    BY InitIInv DEF ServersInit
  <1>2. Connected = {}
    BY DEF ServersInit, Connected, Worker
  <1>3. Cardinality(Connected) = 0
    BY <1>2, FS_EmptySet
  <1>4. ServersTypeOK
    BY DEF ServersInit, ServersTypeOK
  <1>5. Counted
    BY <1>3 DEF ServersInit, Counted
  <1>6. OnBehalf
    BY Procs DEF ServersInit, Init, OnBehalf
  <1>7. JoinedQuiet /\ StillServed
    BY <1>2 DEF ServersInit, Init, JoinedQuiet, StillServed
  <1> QED
    BY <1>1, <1>4, <1>5, <1>6, <1>7 DEF SInv, ServersInv

\* The accept loop: what it counts is a client it is about to give a thread.
LEMMA AcceptKeeps ==
  ASSUME SInv, ~Exited, AcceptStep
  PROVE  ServersInv'
  <1> USE Procs, FiniteConnected DEF SInv, ServersInv, ServersTypeOK
  <1>0. acceptor # "ended"
    BY DEF AcceptStep, LoopHead, Accept, AcceptWoken, Cap, SpawnFails, Spawn
  <1>1. "http" \in accepting /\ listener # "off"
    BY <1>0 DEF JoinedQuiet, StillServed
  <1>2. ServersTypeOK'
    BY DEF AcceptStep, LoopHead, Accept, AcceptWoken, Cap, SpawnFails, Spawn, Put, Counted
  <1>3. UNCHANGED <<vars, listener>>
    BY DEF AcceptStep, LoopHead, Accept, AcceptWoken, Cap, SpawnFails, Spawn
  <1>4. Counted'
    <2>1. CASE LoopHead \/ Accept \/ AcceptWoken \/ Cap \/ SpawnFails
      <3>1. Connected' = Connected
        BY <2>1 DEF LoopHead, Accept, AcceptWoken, Cap, SpawnFails, Connected
      <3> QED
        BY <2>1, <3>1 DEF LoopHead, Accept, AcceptWoken, Cap, SpawnFails, Counted
    <2>2. ASSUME NEW w \in Http, Spawn(w) PROVE Counted'
      <3>1. Connected' = Connected \cup {w} /\ w \notin Connected
        BY <2>2 DEF Spawn, Put, Connected, Worker
      <3>2. Cardinality(Connected') = Cardinality(Connected) + 1
        BY <3>1, FS_AddElement
      <3> QED
        BY <2>2, <3>2 DEF Spawn, Counted
    <2> QED
      BY <2>1, <2>2 DEF AcceptStep
  <1>5. OnBehalf'
    BY <1>3 DEF AcceptStep, LoopHead, Accept, AcceptWoken, Cap, SpawnFails, Spawn, Put, OnBehalf, vars
  <1>6. \A w \in Pipe : place'[w] = place[w]
    BY AppAssumption
       DEF AcceptStep, LoopHead, Accept, AcceptWoken, Cap, SpawnFails, Spawn, Put, Worker
  <1>7. JoinedQuiet' /\ StillServed'
    BY <1>1, <1>3, <1>6 DEF JoinedQuiet, StillServed, vars
  <1> QED
    BY <1>2, <1>4, <1>5, <1>7

\* A connection that goes on stays the one connection it is, until it closes.
LEMMA ConnectionKeeps ==
  ASSUME SInv, ~Exited, NEW w \in Worker, ConnectionStep(w)
  PROVE  ServersInv'
  <1> USE Procs, FiniteConnected DEF SInv, ServersInv, ServersTypeOK
  <1> DEFINE GoesOn ==
        \/ Route(w) \/ RouteQuit(w) \/ RouteStream(w) \/ Answer(w) \/ Deadline(w)
        \/ Respond(w) \/ StreamLost(w) \/ StreamEnds(w)
  <1>0. "pipe" \in accepting
    BY DEF StillServed, Exited
  <1>1. CASE GoesOn
    <2>1. PICK p \in {"none", "app", "streaming", "closing"} :
            place' = [place EXCEPT ![w] = p] /\ (w \in Http => p # "none")
      BY <1>1 DEF Route, RouteQuit, RouteStream, Answer, Deadline, Respond, StreamLost, StreamEnds,
                  Put, LastPlace
    <2>2. place[w] # "none" /\ UNCHANGED <<acceptor, activeConnections, listener, accepting>>
      BY <1>1 DEF Route, RouteQuit, RouteStream, Answer, Deadline, Respond, StreamLost, StreamEnds,
                  QuitRequest, vars
    <2>3. Connected' = Connected
      BY <2>1, <2>2 DEF Connected, Worker
    <2>4. ServersTypeOK' /\ Counted'
      BY <2>1, <2>2, <2>3 DEF Counted
    <2>5. OnBehalf'
      <3>1. CASE Route(w)
        BY <3>1 DEF Route, Put, OnBehalf, IInv, TypeOK
      <3>2. CASE ~Route(w)
        <4>1. pc' = pc /\ pc[w] = "idle"
          BY <1>1, <3>2 DEF Route, RouteQuit, RouteStream, Answer, Deadline, Respond, StreamLost,
                            StreamEnds, QuitRequest, vars, OnBehalf
        <4> QED
          BY <2>1, <4>1 DEF OnBehalf
      <3> QED
        BY <3>1, <3>2
    <2>6. pc'[Main] = pc[Main]
      BY <1>1 DEF Route, RouteQuit, RouteStream, Answer, Deadline, Respond, StreamLost, StreamEnds,
                  QuitRequest, vars, IInv, TypeOK
    <2>7. JoinedQuiet' /\ StillServed'
      BY <1>0, <2>2, <2>3, <2>6 DEF JoinedQuiet, StillServed
    <2> QED
      BY <2>4, <2>5, <2>7
  <1>2. CASE Close(w)
    <2>1. Connected' = Connected \ {w} /\ w \in Connected
      BY <1>2 DEF Close, Put, Connected, Worker
    <2>2. Cardinality(Connected') = Cardinality(Connected) - 1 /\ Cardinality(Connected) # 0
      BY <2>1, FS_RemoveElement, FS_EmptySet
    <2>3. ServersTypeOK' /\ Counted'
      BY <1>2, <2>2 DEF Close, Put, Counted
    <2>4. OnBehalf'
      BY <1>2 DEF Close, Put, OnBehalf, vars
    <2>5. JoinedQuiet' /\ StillServed'
      BY <1>0, <1>2, <2>1 DEF Close, JoinedQuiet, StillServed, vars
    <2> QED
      BY <2>3, <2>4, <2>5
  <1>3. CASE PipeAccept(w)
    <2>1. Connected' = Connected
      BY <1>3, AppAssumption DEF PipeAccept, Put, Connected, Worker
    <2>2. ServersTypeOK' /\ Counted'
      BY <1>3, <2>1 DEF PipeAccept, Put, Counted
    <2>3. OnBehalf'
      BY <1>3 DEF PipeAccept, Put, OnBehalf, vars
    <2>4. JoinedQuiet' /\ StillServed'
      BY <1>0, <1>3, <2>1 DEF PipeAccept, JoinedQuiet, StillServed, vars
    <2> QED
      BY <2>2, <2>3, <2>4
  <1> QED
    BY <1>1, <1>2, <1>3 DEF ConnectionStep

\* The clean-up: a transport is only called joined when nothing of it is left.
LEMMA StopKeepsServers ==
  ASSUME SInv, ~Exited, CloseListener \/ JoinAcceptor \/ Drain \/ PipeDrain
  PROVE  ServersInv'
  <1> USE Procs DEF SInv, ServersInv, ServersTypeOK
  <1>1. UNCHANGED <<place, acceptor, activeConnections>>
    BY DEF CloseListener, JoinAcceptor, Drain, PipeDrain, serverVars
  <1>2. Connected' = Connected
    BY <1>1 DEF Connected
  <1>3. ServersTypeOK' /\ Counted'
    BY <1>1, <1>2 DEF CloseListener, JoinAcceptor, Drain, PipeDrain, serverVars, Counted
  <1>4. OnBehalf'
    BY <1>1 DEF CloseListener, JoinAcceptor, Drain, PipeDrain, vars, OnBehalf, Goto, IInv, TypeOK
  <1>5. CASE CloseListener \/ JoinAcceptor
    <2>1. JoinedQuiet' /\ StillServed'
      BY <1>1, <1>2, <1>5 DEF CloseListener, JoinAcceptor, vars, JoinedQuiet, StillServed
    <2> QED
      BY <1>3, <1>4, <2>1
  <1>6. CASE Drain
    <2>1. pc'[Main] = "pipeStop" /\ UNCHANGED serverVars
      BY <1>6 DEF Drain, Goto, IInv, TypeOK
    <2>2. JoinedQuiet'
      BY <1>2, <1>6, <2>1, NobodyLeft DEF Drain, serverVars, JoinedQuiet
    <2>3. StillServed'
      BY <1>2, <1>6, <2>1 DEF Drain, serverVars, StillServed
    <2> QED
      BY <1>3, <1>4, <2>2, <2>3
  <1>7. CASE PipeDrain
    <2>1. pc'[Main] = "exited" /\ UNCHANGED serverVars
      BY <1>7 DEF PipeDrain, Goto, IInv, TypeOK
    <2>2. JoinedQuiet'
      BY <1>2, <1>7, <2>1 DEF PipeDrain, serverVars, JoinedQuiet
    <2>3. StillServed'
      BY <1>2, <2>1 DEF serverVars, StillServed
    <2> QED
      BY <1>3, <1>4, <2>2, <2>3
  <1> QED
    BY <1>5, <1>6, <1>7

\* What application control does by itself, it does for a connection that waits.
LEMMA AppKeepsServers ==
  ASSUME SInv, ~Exited, AppStep
  PROVE  ServersInv'
  <1> USE Procs DEF SInv, ServersInv, ServersTypeOK
  <1>1. UNCHANGED serverVars
    BY DEF AppStep
  <1>2. Connected' = Connected
    BY <1>1 DEF Connected, serverVars
  <1>3. accepting' = accepting
    BY DEF AppStep, Check, StopStep, StopLock, StopBody, StopReset, StartStep, StartLock,
           StartRefused, StartDenied, StartBody, StartFails, StartFiles, Tick, TickDone, LeaveLoop,
           QuitRequest
  <1>4. \A w \in Worker : pc'[w] # "idle" => pc[w] # "idle"
    BY AfterPlaces
       DEF AppStep, Check, StopStep, StopLock, StopBody, StopReset, StartStep, StartLock,
           StartRefused, StartDenied, StartBody, StartFails, StartFiles, Tick, TickDone, LeaveLoop,
           QuitRequest, Goto, IInv, TypeOK
  <1>5. pc[Main] \in {"pipeStop", "exited"} => pc'[Main] = pc[Main]
    BY DEF AppStep, Check, StopStep, StopLock, StopBody, StopReset, StartStep, StartLock,
           StartRefused, StartDenied, StartBody, StartFails, StartFiles, Tick, TickDone, LeaveLoop,
           QuitRequest, Goto, IInv, TypeOK
  <1>6. ServersTypeOK' /\ Counted'
    BY <1>1, <1>2 DEF serverVars, Counted
  <1>7. OnBehalf'
    BY <1>1, <1>4 DEF serverVars, OnBehalf
  <1>8. JoinedQuiet' /\ StillServed'
    BY <1>1, <1>2, <1>3, <1>5 DEF serverVars, JoinedQuiet, StillServed
  <1> QED
    BY <1>6, <1>7, <1>8

\* The invariant of the servers and of application control under them.
THEOREM ServersInductive == ServersSpec => []SInv
  <1>1. SInv /\ [ServersNext]_allVars => SInv'
    <2> SUFFICES ASSUME SInv, [ServersNext]_allVars PROVE SInv'
      OBVIOUS
    <2>1. IInv'
      BY StepMaps, StepKeeps DEF SInv
    <2>2. ServersInv'
      <3>1. CASE ServersNext
        BY <3>1, AcceptKeeps, ConnectionKeeps, StopKeepsServers, AppKeepsServers DEF ServersNext
      <3>2. CASE UNCHANGED allVars
        BY <3>2 DEF allVars, vars, serverVars, SInv, ServersInv, ServersTypeOK, Counted, Connected,
                    OnBehalf, JoinedQuiet, StillServed
      <3> QED
        BY <3>1, <3>2
    <2> QED
      BY <2>1, <2>2 DEF SInv
  <1> QED
    BY InitSInv, <1>1, PTL DEF ServersSpec

\* The counter counts the connections and never passes the cap; a transport that
\* was joined is quiet.
THEOREM ServersAreCounted == ServersSpec => []ServersInv
  <1>1. SInv => ServersInv
    BY DEF SInv
  <1> QED
    BY <1>1, ServersInductive, PTL

\* The servers implement application control: requests come from threads that
\* are there and idle, and a join that says so has seen the last of them.
THEOREM ServersImplementApp == ServersSpec => AppSpec
  <1>1. ServersInit => Init
    BY DEF ServersInit
  <1> QED
    BY <1>1, StepMaps, ServersInductive, PTL DEF ServersSpec, AppSpec, Spec

\* So whatever application control keeps, it keeps under its servers.
THEOREM AppKept == ServersSpec => []IInv
  BY ServersImplementApp, Inductive, PTL DEF AppSpec
==============================================================================
