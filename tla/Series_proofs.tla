---------------------------- MODULE Series_proofs ----------------------------
(***************************************************************************)
(* Lemmas about the operators of Series.  The induction theorems of the    *)
(* library take a predicate as a parameter; here induction is stated of a  *)
(* set, and follows from the least number that is not in it.               *)
(***************************************************************************)
EXTENDS Series, FiniteSets, FiniteSetTheorems, WellFoundedInduction, SequenceTheorems, TLAPS

\* A set with 0 and with the successor of each of its numbers has all of them.
LEMMA Induction ==
  ASSUME NEW S, 0 \in S, \A n \in Nat : n \in S => n + 1 \in S
  PROVE  Nat \subseteq S
  <1> DEFINE T == Nat \ S
             R == OpToRel(<, Nat)
  <1>0. \A x, y \in Nat : <<x, y>> \in R <=> x < y
    BY DEF OpToRel
  <1> SUFFICES ASSUME T # {} PROVE FALSE
    OBVIOUS
  <1> HIDE DEF R
  <1>1. PICK x \in T : \A y \in T : ~ (<<y, x>> \in R)
    BY NatLessThanWellFounded, WFMin DEF R
  <1>2. x \in Nat /\ x # 0 /\ x - 1 \in Nat /\ (x - 1) + 1 = x /\ x - 1 < x
    OBVIOUS
  <1>3. <<x - 1, x>> \in R
    BY <1>0, <1>2
  <1>4. x - 1 \notin T
    BY <1>1, <1>3
  <1> QED
    BY <1>2, <1>4

\* A set of natural numbers that has one has a least one.
LEMMA LeastNumber ==
  ASSUME NEW S, S \subseteq Nat, S # {}
  PROVE  \E i \in S : \A j \in S : i <= j
  <1> DEFINE R == OpToRel(<, Nat)
  <1>0. \A x, y \in Nat : <<x, y>> \in R <=> x < y
    BY DEF OpToRel
  <1> HIDE DEF R
  <1>1. PICK x \in S : \A y \in S : ~ (<<y, x>> \in R)
    BY NatLessThanWellFounded, WFMin DEF R
  <1>2. \A y \in S : ~ (y < x)
    BY <1>0, <1>1
  <1> QED
    BY <1>2

\* The partial sums of f as far as n.
IsRunningSum(g, f, n) == g = [i \in 0..n |-> IF i = 0 THEN 0 ELSE g[i - 1] + f[i]]

\* There is such a function, though its definition refers to itself.
LEMMA RunningSumExists ==
  ASSUME NEW f, NEW n \in Nat
  PROVE  \E g : IsRunningSum(g, f, n)
  <1> DEFINE S == {m \in Nat : \E g : IsRunningSum(g, f, m)}
  <1>1. 0 \in S
    <2> DEFINE g == [i \in 0..0 |-> 0]
    <2>1. IsRunningSum(g, f, 0)
      BY DEF IsRunningSum
    <2> QED
      BY <2>1
  <1>2. ASSUME NEW m \in Nat, m \in S PROVE m + 1 \in S
    <2>1. PICK g : IsRunningSum(g, f, m)
      BY <1>2
    <2> DEFINE h == [i \in 0..m+1 |-> IF i = m + 1 THEN g[m] + f[m + 1] ELSE g[i]]
    <2>2. ASSUME NEW i \in 0..m+1
          PROVE  h[i] = IF i = 0 THEN 0 ELSE h[i - 1] + f[i]
      <3>1. CASE i = 0
        BY <2>1, <3>1 DEF IsRunningSum
      <3>2. CASE i \in 1..m
        <4>1. h[i] = g[i] /\ h[i - 1] = g[i - 1]
          BY <3>2
        <4>2. i \in 0..m /\ i # 0
          BY <3>2
        <4> HIDE DEF h
        <4> QED
          BY <2>1, <4>1, <4>2 DEF IsRunningSum
      <3>3. CASE i = m + 1
        BY <3>3
      <3> QED
        BY <3>1, <3>2, <3>3
    <2>3. h = [i \in 0..m+1 |-> h[i]]
      OBVIOUS
    <2> HIDE DEF h
    <2>4. IsRunningSum(h, f, m + 1)
      BY <2>2, <2>3 DEF IsRunningSum
    <2> QED
      BY <2>4
  <1> HIDE DEF S
  <1>3. Nat \subseteq S
    BY <1>1, <1>2, Induction
  <1> QED
    BY <1>3 DEF S

\* Equal as far as n.
Agree(s, t, n) == \A i \in 1..n : s[i] = t[i]

\* And only one: equal summands have equal partial sums.
LEMMA RunningSumsAgree ==
  ASSUME NEW n \in Nat, NEW m \in Nat, n <= m,
         NEW e, NEW f, Agree(e, f, n),
         NEW g, IsRunningSum(g, e, n), NEW h, IsRunningSum(h, f, m)
  PROVE  \A i \in 0..n : g[i] = h[i]
  <1> DEFINE S == {i \in Nat : i <= n => g[i] = h[i]}
  <1>0. /\ \A i \in 0..n : g[i] = IF i = 0 THEN 0 ELSE g[i - 1] + e[i]
        /\ \A i \in 0..m : h[i] = IF i = 0 THEN 0 ELSE h[i - 1] + f[i]
    BY DEF IsRunningSum
  <1>1. 0 \in S
    BY <1>0
  <1>2. ASSUME NEW i \in Nat, i \in S PROVE i + 1 \in S
    <2>1. CASE i + 1 <= n
      <3>1. i + 1 \in 0..n /\ i + 1 \in 0..m /\ i + 1 # 0 /\ (i + 1) - 1 = i /\ i + 1 \in 1..n
        BY <2>1
      <3>2. g[i + 1] = g[i] + e[i + 1] /\ h[i + 1] = h[i] + f[i + 1]
        BY <1>0, <3>1
      <3>3. e[i + 1] = f[i + 1] /\ g[i] = h[i]
        BY <1>2, <2>1, <3>1 DEF Agree
      <3> QED
        BY <3>2, <3>3
    <2> QED
      BY <2>1
  <1> HIDE DEF S
  <1>3. Nat \subseteq S
    BY <1>1, <1>2, Induction
  <1> QED
    BY <1>3 DEF S

\* SumTo is the last of the partial sums.
LEMMA SumToIs ==
  ASSUME NEW f, NEW n \in Nat
  PROVE  \E g : IsRunningSum(g, f, n) /\ SumTo(f, n) = g[n]
  <1> DEFINE c == CHOOSE g : g = [i \in 0..n |-> IF i = 0 THEN 0 ELSE g[i - 1] + f[i]]
  <1>1. IsRunningSum(c, f, n)
    BY RunningSumExists DEF IsRunningSum
  <1>2. SumTo(f, n) = c[n]
    BY DEF SumTo
  <1> QED
    BY <1>1, <1>2

\* Nothing sums up to 0.
LEMMA SumZero == ASSUME NEW f PROVE SumTo(f, 0) = 0
  <1>1. PICK g : IsRunningSum(g, f, 0) /\ SumTo(f, 0) = g[0]
    BY SumToIs
  <1> QED
    BY <1>1 DEF IsRunningSum

\* One summand more.
LEMMA SumNext ==
  ASSUME NEW f, NEW n \in Nat
  PROVE  SumTo(f, n + 1) = SumTo(f, n) + f[n + 1]
  <1>1. PICK g : IsRunningSum(g, f, n) /\ SumTo(f, n) = g[n]
    BY SumToIs
  <1>2. PICK h : IsRunningSum(h, f, n + 1) /\ SumTo(f, n + 1) = h[n + 1]
    BY SumToIs
  <1>3. n + 1 \in Nat /\ n <= n + 1 /\ n \in 0..n
    OBVIOUS
  <1>6. \A i \in 0..n : g[i] = h[i]
    <2>1. Agree(f, f, n)
      BY DEF Agree
    <2> QED
      BY <1>1, <1>2, <1>3, <2>1, RunningSumsAgree
  <1>4. n + 1 \in 0..n+1 /\ n + 1 # 0 /\ (n + 1) - 1 = n
    OBVIOUS
  <1>5. h[n + 1] = h[n] + f[n + 1]
    BY <1>2, <1>4 DEF IsRunningSum
  <1> QED
    BY <1>1, <1>2, <1>3, <1>5, <1>6

\* A sum depends on its summands only.
LEMMA SumAgree ==
  ASSUME NEW n \in Nat, NEW e, NEW f, \A i \in 1..n : e[i] = f[i]
  PROVE  SumTo(e, n) = SumTo(f, n)
  <1>0. Agree(e, f, n) /\ n <= n /\ n \in 0..n
    BY DEF Agree
  <1>1. PICK g : IsRunningSum(g, e, n) /\ SumTo(e, n) = g[n]
    BY SumToIs
  <1>2. PICK h : IsRunningSum(h, f, n) /\ SumTo(f, n) = h[n]
    BY SumToIs
  <1>3. \A i \in 0..n : g[i] = h[i]
    BY <1>0, <1>1, <1>2, RunningSumsAgree
  <1> QED
    BY <1>0, <1>1, <1>2, <1>3

\* A sum of natural numbers is one.
LEMMA SumNat ==
  ASSUME NEW n \in Nat, NEW f, \A i \in 1..n : f[i] \in Nat
  PROVE  SumTo(f, n) \in Nat
  <1> DEFINE S == {m \in Nat : m <= n => SumTo(f, m) \in Nat}
  <1>1. 0 \in S
    BY SumZero
  <1>2. ASSUME NEW m \in Nat, m \in S PROVE m + 1 \in S
    BY <1>2, SumNext
  <1> HIDE DEF S
  <1>3. Nat \subseteq S
    BY <1>1, <1>2, Induction
  <1> QED
    BY <1>3 DEF S

------------------------------------------------------------------------------

\* A set with the empty sequence and with each of its sequences also when a
\* element is appended has all sequences.
LEMMA SequenceInduction ==
  ASSUME NEW S, NEW P, <<>> \in P,
         \A s \in Seq(S), e \in S : s \in P => Append(s, e) \in P
  PROVE  Seq(S) \subseteq P
  <1> DEFINE N == {n \in Nat : \A s \in Seq(S) : Len(s) = n => s \in P}
  <1>1. 0 \in N
    BY EmptySeq
  <1>2. ASSUME NEW n \in Nat, n \in N PROVE n + 1 \in N
    <2> SUFFICES ASSUME NEW s \in Seq(S), Len(s) = n + 1 PROVE s \in P
      OBVIOUS
    <2>1. s # <<>>
      BY EmptySeq
    <2>2. PICK t \in Seq(S), e \in S : s = Append(t, e)
      BY <2>1, SequenceEmptyOrAppend
    <2>3. Len(t) = n
      BY <2>2, AppendProperties, LenProperties
    <2> QED
      BY <1>2, <2>2, <2>3
  <1> HIDE DEF N
  <1>3. Nat \subseteq N
    BY <1>1, <1>2, Induction
  <1> QED
    BY <1>3, LenProperties DEF N

\* The selections from s as far as n.
IsSelection(g, s, X, n) ==
  g = [i \in 0..n |-> IF i = 0 THEN <<>>
                      ELSE IF s[i] \in X THEN Append(g[i - 1], s[i]) ELSE g[i - 1]]

\* There is such a function.
LEMMA SelectionExists ==
  ASSUME NEW s, NEW X, NEW n \in Nat
  PROVE  \E g : IsSelection(g, s, X, n)
  <1> DEFINE S == {m \in Nat : \E g : IsSelection(g, s, X, m)}
  <1>1. 0 \in S
    <2> DEFINE g == [i \in 0..0 |-> <<>>]
    <2>1. IsSelection(g, s, X, 0)
      BY DEF IsSelection
    <2> QED
      BY <2>1
  <1>2. ASSUME NEW m \in Nat, m \in S PROVE m + 1 \in S
    <2>1. PICK g : IsSelection(g, s, X, m)
      BY <1>2
    <2> DEFINE last == IF s[m + 1] \in X THEN Append(g[m], s[m + 1]) ELSE g[m]
               h == [i \in 0..m+1 |-> IF i = m + 1 THEN last ELSE g[i]]
    <2>2. ASSUME NEW i \in 0..m+1
          PROVE  h[i] = IF i = 0 THEN <<>>
                        ELSE IF s[i] \in X THEN Append(h[i - 1], s[i]) ELSE h[i - 1]
      <3>1. CASE i = 0
        <4>1. h[0] = g[0]
          BY <3>1
        <4> HIDE DEF h
        <4> QED
          BY <2>1, <3>1, <4>1 DEF IsSelection
      <3>2. CASE i \in 1..m
        <4>1. h[i] = g[i] /\ h[i - 1] = g[i - 1]
          BY <3>2
        <4>2. i \in 0..m /\ i # 0
          BY <3>2
        <4> HIDE DEF h
        <4> QED
          BY <2>1, <4>1, <4>2 DEF IsSelection
      <3>3. CASE i = m + 1
        <4>1. h[i] = last /\ h[i - 1] = g[m] /\ i # 0
          BY <3>3
        <4> HIDE DEF h
        <4> QED
          BY <3>3, <4>1
      <3> QED
        BY <3>1, <3>2, <3>3
    <2>3. h = [i \in 0..m+1 |-> h[i]]
      OBVIOUS
    <2> HIDE DEF h
    <2>4. IsSelection(h, s, X, m + 1)
      BY <2>2, <2>3 DEF IsSelection
    <2> QED
      BY <2>4
  <1> HIDE DEF S
  <1>3. Nat \subseteq S
    BY <1>1, <1>2, Induction
  <1> QED
    BY <1>3 DEF S

\* And only one.
LEMMA SelectionsAgree ==
  ASSUME NEW n \in Nat, NEW m \in Nat, n <= m, NEW X,
         NEW s, NEW t, Agree(s, t, n),
         NEW g, IsSelection(g, s, X, n), NEW h, IsSelection(h, t, X, m)
  PROVE  \A i \in 0..n : g[i] = h[i]
  <1> DEFINE S == {i \in Nat : i <= n => g[i] = h[i]}
  <1>0. /\ \A i \in 0..n : g[i] = IF i = 0 THEN <<>>
                                  ELSE IF s[i] \in X THEN Append(g[i - 1], s[i]) ELSE g[i - 1]
        /\ \A i \in 0..m : h[i] = IF i = 0 THEN <<>>
                                  ELSE IF t[i] \in X THEN Append(h[i - 1], t[i]) ELSE h[i - 1]
    BY DEF IsSelection
  <1>1. 0 \in S
    BY <1>0
  <1>2. ASSUME NEW i \in Nat, i \in S PROVE i + 1 \in S
    <2>1. CASE i + 1 <= n
      <3>1. i + 1 \in 0..n /\ i + 1 \in 0..m /\ i + 1 # 0 /\ (i + 1) - 1 = i /\ i + 1 \in 1..n
        BY <2>1
      <3>2. /\ g[i + 1] = IF s[i + 1] \in X THEN Append(g[i], s[i + 1]) ELSE g[i]
            /\ h[i + 1] = IF t[i + 1] \in X THEN Append(h[i], t[i + 1]) ELSE h[i]
        BY <1>0, <3>1
      <3>3. s[i + 1] = t[i + 1] /\ g[i] = h[i]
        BY <1>2, <2>1, <3>1 DEF Agree
      <3> QED
        BY <3>2, <3>3
    <2> QED
      BY <2>1
  <1> HIDE DEF S
  <1>3. Nat \subseteq S
    BY <1>1, <1>2, Induction
  <1> QED
    BY <1>3 DEF S

\* Only is the last of the selections.
LEMMA OnlyIs ==
  ASSUME NEW s, NEW X, Len(s) \in Nat
  PROVE  \E g : IsSelection(g, s, X, Len(s)) /\ Only(s, X) = g[Len(s)]
  <1> DEFINE n == Len(s)
             c == CHOOSE g : g = [i \in 0..n |->
                    IF i = 0 THEN <<>>
                    ELSE IF s[i] \in X THEN Append(g[i - 1], s[i]) ELSE g[i - 1]]
  <1>1. IsSelection(c, s, X, n)
    <2>1. n \in Nat
      OBVIOUS
    <2> HIDE DEF n
    <2>2. PICK g : IsSelection(g, s, X, n)
      BY <2>1, SelectionExists, Zenon
    <2> QED
      BY <2>2, Zenon DEF IsSelection
  <1>2. Only(s, X) = c[n]
    BY DEF Only
  <1> QED
    BY <1>1, <1>2

\* Nothing is selected from nothing.
LEMMA OnlyEmpty == ASSUME NEW X PROVE Only(<<>>, X) = <<>>
  <1>1. Len(<<>>) = 0
    OBVIOUS
  <1>2. PICK g : IsSelection(g, <<>>, X, 0) /\ Only(<<>>, X) = g[0]
    BY <1>1, OnlyIs
  <1> QED
    BY <1>2 DEF IsSelection

\* One element more.
LEMMA OnlyAppend ==
  ASSUME NEW S, NEW s \in Seq(S), NEW e \in S, NEW X
  PROVE  Only(Append(s, e), X) = IF e \in X THEN Append(Only(s, X), e) ELSE Only(s, X)
  <1> DEFINE t == Append(s, e)
             n == Len(s)
             m == n + 1
  <1>1. /\ n \in Nat /\ m \in Nat /\ n <= m /\ Len(t) = m
        /\ Agree(s, t, n)
        /\ t[m] = e /\ n \in 0..n /\ m \in 0..m /\ m # 0 /\ m - 1 = n
    BY AppendProperties, LenProperties DEF Agree
  <1>2. PICK g : IsSelection(g, s, X, n) /\ Only(s, X) = g[n]
    BY <1>1, OnlyIs
  <1> HIDE DEF m, t, n
  <1>3. PICK h : IsSelection(h, t, X, m) /\ Only(t, X) = h[m]
    BY <1>1, OnlyIs
  <1>4. \A i \in 0..n : g[i] = h[i]
    BY <1>1, <1>2, <1>3, SelectionsAgree
  <1>5. h[m] = IF t[m] \in X THEN Append(h[m - 1], t[m]) ELSE h[m - 1]
    BY <1>1, <1>3 DEF IsSelection
  <1> QED
    BY <1>1, <1>2, <1>3, <1>4, <1>5 DEF t

\* A selection keeps the order of what it selects, and leaves nothing out.
LEMMA OnlyEmbeds ==
  ASSUME NEW S, NEW s \in Seq(S), NEW X
  PROVE  /\ Only(s, X) \in Seq(S)
         /\ \E h \in [1..Len(Only(s, X)) -> 1..Len(s)] :
              /\ \A i, j \in 1..Len(Only(s, X)) : i < j => h[i] < h[j]
              /\ \A i \in 1..Len(Only(s, X)) : Only(s, X)[i] = s[h[i]] /\ s[h[i]] \in X
              /\ \A k \in 1..Len(s) : s[k] \in X => \E i \in 1..Len(Only(s, X)) : h[i] = k
  <1> DEFINE Embeds(t, h) ==
               /\ h \in [1..Len(Only(t, X)) -> 1..Len(t)]
               /\ \A i, j \in 1..Len(Only(t, X)) : i < j => h[i] < h[j]
               /\ \A i \in 1..Len(Only(t, X)) : Only(t, X)[i] = t[h[i]] /\ t[h[i]] \in X
               /\ \A k \in 1..Len(t) : t[k] \in X => \E i \in 1..Len(Only(t, X)) : h[i] = k
             P == {t \in Seq(S) : Only(t, X) \in Seq(S) /\ \E h : Embeds(t, h)}
  <1>1. <<>> \in P
    <2>1. /\ Only(<<>>, X) = <<>> /\ <<>> \in Seq(S) /\ Len(<<>>) = 0
          /\ 1..0 = {}
      BY OnlyEmpty, EmptySeq
    <2>2. Embeds(<<>>, [i \in {} |-> i])
      BY <2>1
    <2> QED
      BY <2>1, <2>2
  <1>2. ASSUME NEW t \in Seq(S), NEW e \in S, t \in P
        PROVE  Append(t, e) \in P
    <2> DEFINE u == Append(t, e)
               o == Only(t, X)
               q == Only(u, X)
               n == Len(t)
               l == Len(o)
    <2>1. PICK h : Embeds(t, h)
      BY <1>2
    <2>2. /\ u \in Seq(S) /\ n \in Nat /\ Len(u) = n + 1
          /\ \A i \in 1..n : u[i] = t[i]
          /\ u[n + 1] = e
      BY AppendProperties, LenProperties
    <2>3. o \in Seq(S) /\ l \in Nat
      BY <1>2, LenProperties
    <2>4. q = IF e \in X THEN Append(o, e) ELSE o
      BY OnlyAppend
    <2>5. /\ h \in [1..l -> 1..n]
          /\ \A i, j \in 1..l : i < j => h[i] < h[j]
          /\ \A i \in 1..l : o[i] = t[h[i]] /\ t[h[i]] \in X
          /\ \A k \in 1..n : t[k] \in X => \E i \in 1..l : h[i] = k
      BY <2>1
    <2>6. CASE e \in X
      <3> DEFINE g == [i \in 1..l+1 |-> IF i = l + 1 THEN n + 1 ELSE h[i]]
      <3>1. /\ q \in Seq(S) /\ Len(q) = l + 1
            /\ \A i \in 1..l : q[i] = o[i]
            /\ q[l + 1] = e
        BY <2>3, <2>4, <2>6, AppendProperties
      <3> HIDE DEF u, o, q, n, l, P, Embeds
      <3>2. g \in [1..l+1 -> 1..n+1]
        BY <2>2, <2>3, <2>5
      <3>3. /\ \A i \in 1..l : g[i] = h[i] /\ g[i] \in 1..n
            /\ g[l + 1] = n + 1
        BY <2>2, <2>3, <2>5
      <3> HIDE DEF g
      <3>4. ASSUME NEW i \in 1..l+1, NEW j \in 1..l+1, i < j
            PROVE  g[i] < g[j]
        <4>1. i \in 1..l /\ g[i] = h[i] /\ g[i] <= n
          BY <2>2, <2>3, <3>3, <3>4
        <4>2. CASE j = l + 1
          BY <2>2, <3>3, <4>1, <4>2
        <4>3. CASE j \in 1..l
          BY <2>5, <3>3, <3>4, <4>1, <4>3
        <4> QED
          BY <2>3, <4>2, <4>3
      <3>5. ASSUME NEW i \in 1..l+1
            PROVE  q[i] = u[g[i]] /\ u[g[i]] \in X
        <4>1. CASE i = l + 1
          BY <2>2, <2>6, <3>1, <3>3, <4>1
        <4>2. CASE i \in 1..l
          <5>1. q[i] = o[i] /\ g[i] = h[i] /\ u[g[i]] = t[g[i]]
            BY <2>2, <3>1, <3>3, <4>2
          <5> QED
            BY <2>5, <4>2, <5>1
        <4> QED
          BY <2>3, <4>1, <4>2
      <3>6. ASSUME NEW k \in 1..n+1, u[k] \in X
            PROVE  \E i \in 1..l+1 : g[i] = k
        <4>1. CASE k = n + 1
          BY <2>3, <3>3, <4>1
        <4>2. CASE k \in 1..n
          <5>1. t[k] \in X
            BY <2>2, <3>6, <4>2
          <5>2. PICK i \in 1..l : h[i] = k
            BY <2>5, <4>2, <5>1
          <5>3. i \in 1..l+1 /\ g[i] = k
            BY <2>3, <3>3, <5>2
          <5> QED
            BY <5>3
        <4> QED
          BY <2>2, <4>1, <4>2
      <3>7. Embeds(u, g)
        BY <2>2, <3>1, <3>2, <3>4, <3>5, <3>6 DEF q, Embeds
      <3> QED
        BY <2>2, <3>1, <3>7 DEF q, u, P
    <2>7. CASE e \notin X
      <3>1. q = o
        BY <2>4, <2>7
      <3> HIDE DEF u, o, q, n, l, P, Embeds
      <3>2. h \in [1..l -> 1..n+1]
        BY <2>2, <2>3, <2>5
      <3>3. \A i \in 1..l : o[i] = u[h[i]] /\ u[h[i]] \in X
        BY <2>2, <2>5
      <3>4. \A k \in 1..n+1 : u[k] \in X => \E i \in 1..l : h[i] = k
        BY <2>2, <2>5, <2>7
      <3>5. Embeds(u, h)
        <4>1. Only(u, X) = o /\ Len(Only(u, X)) = l
          BY <3>1 DEF q, l
        <4> QED
          BY <2>2, <2>5, <3>2, <3>3, <3>4, <4>1 DEF Embeds
      <3> QED
        BY <2>2, <2>3, <3>1, <3>5 DEF u, o, q, P
    <2> QED
      BY <2>6, <2>7
  <1> HIDE DEF P
  <1>3. Seq(S) \subseteq P
    BY <1>1, <1>2, SequenceInduction
  <1> QED
    BY <1>3 DEF P

\* One element more of the beginning of a sequence.
LEMMA BeginningNext ==
  ASSUME NEW S, NEW s \in Seq(S), NEW n \in 0..Len(s)-1
  PROVE  /\ SubSeq(s, 1, n) \in Seq(S) /\ s[n + 1] \in S
         /\ SubSeq(s, 1, n + 1) = Append(SubSeq(s, 1, n), s[n + 1])
  <1>1. /\ Len(s) \in Nat /\ \A i \in 1..Len(s) : s[i] \in S
        /\ n \in Nat /\ n + 1 \in 1..Len(s)
    BY LenProperties
  <1> DEFINE l == Len(s)
             t == SubSeq(s, 1, n)
             u == SubSeq(s, 1, n + 1)
             v == Append(t, s[n + 1])
  <1> HIDE DEF l
  <1>2. t \in Seq(S) /\ Len(t) = n /\ \A i \in 1..n : t[i] = s[i]
    <2>1. n \in Int /\ 1 \in Int /\ \A i \in 1..n : s[i] \in S
      BY <1>1
    <2> QED
      BY <2>1, <1>1, SubSeqProperties
  <1>3. u \in Seq(S) /\ Len(u) = n + 1 /\ \A i \in 1..n+1 : u[i] = s[i]
    <2>1. n + 1 \in Int /\ 1 \in Int /\ \A i \in 1..n+1 : s[i] \in S
      BY <1>1
    <2> QED
      BY <2>1, <1>1, SubSeqProperties
  <1> HIDE DEF t, u
  <1>4. v \in Seq(S) /\ Len(v) = n + 1 /\ \A i \in 1..n : v[i] = t[i]
    BY <1>1, <1>2, AppendProperties
  <1>5. v[n + 1] = s[n + 1]
    BY <1>1, <1>2, AppendProperties
  <1> HIDE DEF v
  <1>6. \A i \in 1..n+1 : u[i] = v[i]
    <2> TAKE i \in 1..n+1
    <2>1. CASE i = n + 1
      BY <2>1, <1>3, <1>5
    <2>2. CASE i \in 1..n
      BY <2>2, <1>2, <1>3, <1>4
    <2> QED
      BY <2>1, <2>2, <1>1
  <1>7. u = v
    BY <1>3, <1>4, <1>6, SeqEqual
  <1> QED
    BY <1>1, <1>2, <1>7 DEF t, u, v

\* What is selected from the beginning of a sequence begins what is selected from
\* the whole.
LEMMA OnlyBeginning ==
  ASSUME NEW S, NEW s \in Seq(S), NEW X, NEW n \in 0..Len(s)
  PROVE  LET t == Only(SubSeq(s, 1, n), X)
             w == Only(s, X)
         IN Len(t) <= Len(w) /\ \A i \in 1..Len(t) : t[i] = w[i]
  <1> DEFINE w == Only(s, X)
             B(m) == Only(SubSeq(s, 1, m), X)
             Begins(m) == Len(B(m)) <= Len(w) /\ \A i \in 1..Len(B(m)) : B(m)[i] = w[i]
             P == {k \in Nat : k <= Len(s) => Begins(Len(s) - k)}
  <1>1. Len(s) \in Nat /\ n \in Nat /\ n <= Len(s)
    BY LenProperties
  <1>2. w \in Seq(S) /\ Len(w) \in Nat
    BY OnlyEmbeds, LenProperties
  <1>3. 0 \in P
    <2>1. SubSeq(s, 1, Len(s)) = s /\ Len(s) - 0 = Len(s)
      BY <1>1, SubSeqFull
    <2>2. B(Len(s) - 0) = w
      BY <2>1
    <2> QED
      BY <1>2, <2>2
  <1>4. ASSUME NEW k \in Nat, k \in P PROVE k + 1 \in P
    <2> SUFFICES ASSUME k + 1 <= Len(s) PROVE Begins(Len(s) - (k + 1))
      OBVIOUS
    <2> DEFINE m == Len(s) - (k + 1)
    <2>1. m \in Nat /\ m \in 0..Len(s)-1 /\ m + 1 = Len(s) - k
      BY <1>1
    <2> HIDE DEF m
    <2>2. /\ SubSeq(s, 1, m) \in Seq(S) /\ s[m + 1] \in S
          /\ SubSeq(s, 1, m + 1) = Append(SubSeq(s, 1, m), s[m + 1])
      BY <2>1, BeginningNext
    <2> DEFINE t == SubSeq(s, 1, m)
               e == s[m + 1]
    <2>8. t \in Seq(S) /\ e \in S /\ B(m) = Only(t, X) /\ B(m + 1) = Only(Append(t, e), X)
      BY <2>2
    <2> HIDE DEF t, e, B
    <2>3. B(m + 1) = IF e \in X THEN Append(B(m), e) ELSE B(m)
      BY <2>8, OnlyAppend
    <2>4. B(m) \in Seq(S) /\ Len(B(m)) \in Nat
      BY <2>8, OnlyEmbeds, LenProperties
    <2>5. Len(B(m)) <= Len(B(m + 1)) /\ Len(B(m + 1)) \in Nat
          /\ \A i \in 1..Len(B(m)) : B(m)[i] = B(m + 1)[i]
      <3>1. CASE e \in X
        <4>1. /\ Len(Append(B(m), e)) = Len(B(m)) + 1
              /\ \A i \in 1..Len(B(m)) : Append(B(m), e)[i] = B(m)[i]
          BY <2>4, <2>8, AppendProperties
        <4> QED
          BY <3>1, <4>1, <2>3, <2>4
      <3>2. CASE e \notin X
        BY <3>2, <2>3, <2>4
      <3> QED
        BY <3>1, <3>2
    <2>6. Begins(m + 1)
      BY <1>1, <1>4, <2>1
    <2> HIDE DEF B
    <2>7. Begins(m)
      BY <2>4, <2>5, <2>6, <1>2
    <2> QED
      BY <2>7 DEF m
  <1> HIDE DEF P
  <1>5. Nat \subseteq P
    BY <1>3, <1>4, Induction
  <1>6. Len(s) - n \in P /\ Len(s) - n <= Len(s) /\ Len(s) - (Len(s) - n) = n
    BY <1>1, <1>5
  <1>7. Begins(n)
    BY <1>6 DEF P
  <1> QED
    BY <1>7

\* A set that has with a number all smaller ones counts them.
LEMMA Prefix ==
  ASSUME NEW n \in Nat, NEW D, D \subseteq 1..n,
         \A i \in D, j \in 1..n : j <= i => j \in D
  PROVE  Cardinality(D) \in 0..n /\ D = 1..Cardinality(D)
  <1> DEFINE P == {m \in Nat : m <= n => \E c \in 0..m : D \cap 1..m = 1..c}
  <1>1. 0 \in P
    OBVIOUS
  <1>2. ASSUME NEW m \in Nat, m \in P PROVE m + 1 \in P
    <2> SUFFICES ASSUME m + 1 <= n PROVE \E c \in 0..m+1 : D \cap 1..m+1 = 1..c
      OBVIOUS
    <2>1. PICK c \in 0..m : D \cap 1..m = 1..c
      BY <1>2
    <2>2. CASE m + 1 \in D
      <3>1. D \cap 1..m+1 = 1..m+1
        BY <2>2
      <3> QED
        BY <3>1
    <2>3. CASE m + 1 \notin D
      <3>1. 1..m+1 = 1..m \cup {m + 1}
        OBVIOUS
      <3>2. D \cap 1..m+1 = 1..c
        BY <2>1, <2>3, <3>1
      <3> QED
        BY <3>2
    <2> QED
      BY <2>2, <2>3
  <1> HIDE DEF P
  <1>3. Nat \subseteq P
    BY <1>1, <1>2, Induction
  <1>4. PICK c \in 0..n : D = 1..c
    <2>1. PICK c \in 0..n : D \cap 1..n = 1..c
      BY <1>3 DEF P
    <2> QED
      BY <2>1
  <1>5. Cardinality(1..c) = c
    BY FS_Interval
  <1> QED
    BY <1>4, <1>5

\* Two sequences that differ only in elements that are not selected.
LEMMA OnlySame ==
  ASSUME NEW s, NEW t, NEW X, Len(s) \in Nat, Len(t) = Len(s),
         \A i \in 1..Len(s) : s[i] = t[i] \/ (s[i] \notin X /\ t[i] \notin X)
  PROVE  Only(s, X) = Only(t, X)
  <1> DEFINE n == Len(s)
  <1>0. n \in Nat /\ \A i \in 1..n : s[i] = t[i] \/ (s[i] \notin X /\ t[i] \notin X)
    OBVIOUS
  <1>1. PICK g : IsSelection(g, s, X, n) /\ Only(s, X) = g[n]
    BY OnlyIs
  <1>2. PICK h : IsSelection(h, t, X, n) /\ Only(t, X) = h[n]
    BY OnlyIs
  <1> HIDE DEF n
  <1>3. /\ \A i \in 0..n : g[i] = IF i = 0 THEN <<>>
                                  ELSE IF s[i] \in X THEN Append(g[i - 1], s[i]) ELSE g[i - 1]
        /\ \A i \in 0..n : h[i] = IF i = 0 THEN <<>>
                                  ELSE IF t[i] \in X THEN Append(h[i - 1], t[i]) ELSE h[i - 1]
    BY <1>1, <1>2 DEF IsSelection
  <1> DEFINE S == {i \in Nat : i <= n => g[i] = h[i]}
  <1>4. 0 \in S
    BY <1>0, <1>3
  <1>5. ASSUME NEW i \in Nat, i \in S PROVE i + 1 \in S
    <2>1. CASE i + 1 <= n
      <3>1. i + 1 \in 0..n /\ i + 1 # 0 /\ (i + 1) - 1 = i /\ i + 1 \in 1..n
        BY <1>0, <2>1
      <3>2. /\ g[i + 1] = IF s[i + 1] \in X THEN Append(g[i], s[i + 1]) ELSE g[i]
            /\ h[i + 1] = IF t[i + 1] \in X THEN Append(h[i], t[i + 1]) ELSE h[i]
        BY <1>3, <3>1
      <3>3. g[i] = h[i]
        BY <1>0, <1>5, <2>1
      <3> QED
        BY <1>0, <3>1, <3>2, <3>3
    <2> QED
      BY <2>1
  <1> HIDE DEF S
  <1>6. Nat \subseteq S
    BY <1>4, <1>5, Induction
  <1>7. g[n] = h[n]
    BY <1>0, <1>6 DEF S
  <1> QED
    BY <1>1, <1>2, <1>7

\* What is appended to the second of two sequences is appended to both.
LEMMA ConcatAppend ==
  ASSUME NEW S, NEW s \in Seq(S), NEW t \in Seq(S), NEW e \in S
  PROVE  s \o Append(t, e) = Append(s \o t, e)
  BY ConcatProperties, AppendProperties

\* A selection from two sequences is a selection from each.
LEMMA OnlyConcat ==
  ASSUME NEW S, NEW s \in Seq(S), NEW X
  PROVE  \A t \in Seq(S) : Only(s \o t, X) = Only(s, X) \o Only(t, X)
  <1> DEFINE P == {t \in Seq(S) : Only(s \o t, X) = Only(s, X) \o Only(t, X)}
  <1>0. Only(s, X) \in Seq(S)
    BY OnlyEmbeds
  <1>1. <<>> \in P
    <2>1. s \o <<>> = s /\ Only(s, X) \o <<>> = Only(s, X) /\ <<>> \in Seq(S)
      BY <1>0, ConcatEmptySeq, EmptySeq
    <2> QED
      BY <2>1, OnlyEmpty
  <1>2. ASSUME NEW t \in Seq(S), NEW e \in S, t \in P PROVE Append(t, e) \in P
    <2>1. /\ s \o t \in Seq(S) /\ Append(t, e) \in Seq(S)
          /\ s \o Append(t, e) = Append(s \o t, e)
      BY ConcatProperties, AppendProperties, ConcatAppend
    <2>2. /\ Only(Append(s \o t, e), X) =
               IF e \in X THEN Append(Only(s \o t, X), e) ELSE Only(s \o t, X)
          /\ Only(Append(t, e), X) = IF e \in X THEN Append(Only(t, X), e) ELSE Only(t, X)
      BY <2>1, OnlyAppend
    <2>3. Only(t, X) \in Seq(S)
      BY OnlyEmbeds
    <2> DEFINE a == Only(s, X)
               b == Only(t, X)
    <2>4. a \in Seq(S) /\ b \in Seq(S) /\ Only(s \o t, X) = a \o b
      BY <1>0, <1>2, <2>3
    <2> HIDE DEF a, b
    <2>5. a \o Append(b, e) = Append(a \o b, e)
      BY <2>4, ConcatAppend
    <2>6. Only(s \o Append(t, e), X) = a \o Only(Append(t, e), X)
      BY <2>1, <2>2, <2>4, <2>5 DEF b
    <2> QED
      BY <2>1, <2>6 DEF a
  <1> HIDE DEF P
  <1>3. Seq(S) \subseteq P
    BY <1>1, <1>2, SequenceInduction
  <1> QED
    BY <1>3 DEF P

\* An element that is not selected is not missed.
LEMMA OnlyWithout ==
  ASSUME NEW S, NEW s \in Seq(S), NEW X, NEW i \in 1..Len(s), s[i] \notin X
  PROVE  Only(SubSeq(s, 1, i - 1) \o SubSeq(s, i + 1, Len(s)), X) = Only(s, X)
  <1> DEFINE a == SubSeq(s, 1, i - 1)
             b == SubSeq(s, 1, i)
             c == SubSeq(s, i + 1, Len(s))
  <1>0. /\ Len(s) \in Nat /\ i \in Nat /\ i - 1 \in 0..Len(s)-1 /\ (i - 1) + 1 = i /\ s[i] \in S
        /\ \A k \in 1..Len(s) : s[k] \in S
    BY LenProperties
  <1>1. a \in Seq(S) /\ b = Append(a, s[i])
    <2> DEFINE m == i - 1
    <2>1. m \in 0..Len(s)-1 /\ m + 1 = i
      BY <1>0
    <2> HIDE DEF m
    <2>2. /\ SubSeq(s, 1, m) \in Seq(S)
          /\ SubSeq(s, 1, m + 1) = Append(SubSeq(s, 1, m), s[m + 1])
      BY <2>1, BeginningNext
    <2> QED
      BY <2>1, <2>2 DEF m
  <1>2. c \in Seq(S)
    <2>1. \A k \in i+1..Len(s) : s[k] \in S
      BY <1>0
    <2> QED
      BY <1>0, <2>1, SubSeqProperties
  <1>3. b \in Seq(S) /\ b \o c = s
    <2>1. b \in Seq(S)
      BY <1>0, <1>1, AppendProperties
    <2>2. 1 \in 1..Len(s)+1 /\ i \in 1-1..Len(s) /\ Len(s) \in i..Len(s)
      BY <1>0
    <2>3. b \o c = SubSeq(s, 1, Len(s))
      BY <2>2, ConcatAdjacentSubSeq
    <2> QED
      BY <2>1, <2>3, SubSeqFull
  <1> HIDE DEF a, b, c
  <1>4. Only(b, X) = Only(a, X)
    BY <1>0, <1>1, OnlyAppend
  <1>5. Only(a \o c, X) = Only(a, X) \o Only(c, X)
    BY <1>1, <1>2, OnlyConcat
  <1>6. Only(b \o c, X) = Only(b, X) \o Only(c, X)
    <2>1. \A t \in Seq(S) : Only(b \o t, X) = Only(b, X) \o Only(t, X)
      BY <1>3, OnlyConcat
    <2> QED
      BY <1>2, <2>1
  <1>7. Only(a \o c, X) = Only(s, X)
    BY <1>3, <1>4, <1>5, <1>6
  <1> QED
    BY <1>7 DEF a, c

\* What is behind an element that is removed moves down.
LEMMA OneLeftOut ==
  ASSUME NEW S, NEW s \in Seq(S), NEW k \in 1..Len(s)
  PROVE  LET r == SubSeq(s, 1, k - 1) \o SubSeq(s, k + 1, Len(s))
         IN /\ r \in Seq(S) /\ Len(r) = Len(s) - 1
            /\ \A i \in 1..Len(s)-1 : r[i] = IF i < k THEN s[i] ELSE s[i + 1]
  <1> DEFINE l == Len(s)
             a == SubSeq(s, 1, k - 1)
             b == SubSeq(s, k + 1, l)
  <1>0. l \in Nat /\ k \in Nat /\ k >= 1 /\ k <= l /\ \A i \in 1..l : s[i] \in S
    BY LenProperties
  <1> HIDE DEF l
  <1>1. a \in Seq(S) /\ Len(a) = k - 1 /\ \A i \in 1..k-1 : a[i] = s[i]
    <2>1. 1 \in Int /\ k - 1 \in Int /\ \A i \in 1..k-1 : s[i] \in S
      BY <1>0
    <2>2. /\ a \in Seq(S) /\ Len(a) = IF 1 <= k - 1 THEN (k - 1) - 1 + 1 ELSE 0
          /\ \A i \in 1..(k-1)-1+1 : a[i] = s[1 + i - 1]
      BY <2>1, SubSeqProperties
    <2> HIDE DEF a
    <2> QED
      BY <1>0, <2>2
  <1>2. b \in Seq(S) /\ Len(b) = l - k /\ \A i \in 1..l-k : b[i] = s[k + i]
    <2>1. k + 1 \in Int /\ l \in Int /\ \A i \in k+1..l : s[i] \in S
      BY <1>0
    <2>2. /\ b \in Seq(S) /\ Len(b) = IF k + 1 <= l THEN l - (k + 1) + 1 ELSE 0
          /\ \A i \in 1..l-(k+1)+1 : b[i] = s[(k + 1) + i - 1]
      BY <2>1, SubSeqProperties
    <2> HIDE DEF b
    <2> QED
      BY <1>0, <2>2
  <1> HIDE DEF a, b
  <1>4. /\ a \o b \in Seq(S) /\ Len(a \o b) = Len(a) + Len(b)
        /\ \A i \in 1..Len(a)+Len(b) : (a \o b)[i] = IF i <= Len(a) THEN a[i] ELSE b[i - Len(a)]
    BY <1>1, <1>2, ConcatProperties
  <1> DEFINE r == a \o b
  <1> HIDE DEF r
  <1>5. r \in Seq(S) /\ Len(r) = l - 1
    BY <1>0, <1>1, <1>2, <1>4 DEF r
  <1>6. ASSUME NEW i \in 1..l-1 PROVE r[i] = IF i < k THEN s[i] ELSE s[i + 1]
    <2>1. r[i] = IF i <= Len(a) THEN a[i] ELSE b[i - Len(a)]
      BY <1>0, <1>1, <1>2, <1>4 DEF r
    <2>2. CASE i < k
      BY <1>0, <1>1, <2>1, <2>2
    <2>3. CASE ~ (i < k)
      <3>1. r[i] = b[i - (k - 1)] /\ i - (k - 1) \in 1..l-k /\ k + (i - (k - 1)) = i + 1
        BY <1>0, <1>1, <2>1, <2>3
      <3>2. b[i - (k - 1)] = s[k + (i - (k - 1))]
        BY <1>2, <3>1
      <3> QED
        BY <2>3, <3>1, <3>2
    <2> QED
      BY <2>2, <2>3
  <1> QED
    BY <1>5, <1>6 DEF r, l, a, b

\* A selection is not longer than what it is from.
LEMMA OnlyShorter ==
  ASSUME NEW S, NEW s \in Seq(S), NEW X
  PROVE  Len(Only(s, X)) <= Len(s)
  <1> DEFINE n == Len(Only(s, X))
             m == Len(s)
  <1>1. n \in Nat /\ m \in Nat
    BY OnlyEmbeds, LenProperties
  <1>2. PICK h \in [1..n -> 1..m] : \A i, j \in 1..n : i < j => h[i] < h[j]
    BY OnlyEmbeds
  <1> HIDE DEF n, m
  <1> DEFINE T == {k \in Nat : k \in 1..n => k <= h[k]}
  <1>3. 0 \in T
    OBVIOUS
  <1>4. ASSUME NEW k \in Nat, k \in T PROVE k + 1 \in T
    <2> SUFFICES ASSUME k + 1 \in 1..n PROVE k + 1 <= h[k + 1]
      OBVIOUS
    <2>1. h[k + 1] \in 1..m
      BY <1>2
    <2>2. CASE k = 0
      BY <2>1, <2>2, <1>1
    <2>3. CASE k # 0
      <3>1. k \in 1..n /\ k < k + 1
        BY <1>1, <2>3
      <3>2. h[k] < h[k + 1] /\ h[k] \in 1..m /\ k <= h[k]
        BY <1>2, <1>4, <3>1
      <3> QED
        BY <1>1, <2>1, <3>2
    <2> QED
      BY <2>2, <2>3
  <1> HIDE DEF T
  <1>5. Nat \subseteq T
    BY <1>3, <1>4, Induction
  <1>6. n <= m
    <2>1. CASE n = 0
      BY <1>1, <2>1
    <2>2. CASE n # 0
      <3>1. n \in 1..n /\ n \in T
        BY <1>1, <1>5, <2>2
      <3>2. n <= h[n] /\ h[n] \in 1..m
        BY <1>2, <3>1 DEF T
      <3> QED
        BY <1>1, <3>2
    <2> QED
      BY <2>1, <2>2
  <1> QED
    BY <1>6 DEF n, m
==============================================================================
