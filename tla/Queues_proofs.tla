---------------------------- MODULE Queues_proofs ----------------------------
(***************************************************************************)
(* Proofs about Queues, for any pipelines in the order of modules[], any   *)
(* number of packets, any sizes and any times that a 32-bit clock can      *)
(* tell apart: no packet is lost or linked twice, none overtakes another,  *)
(* waits are measured truly and outages last as long as asked.             *)
(***************************************************************************)
EXTENDS Queues, Series_proofs, SequenceTheorems, FiniteSetTheorems

------------------------------------------------------------------------------
(* Lists.                                                                   *)

\* What a selection contains, and that it repeats nothing that was not repeated.
LEMMA OnlyFacts ==
  ASSUME NEW S, NEW s \in Seq(S), NEW X
  PROVE  /\ Only(s, X) \in Seq(S)
         /\ ToSet(Only(s, X)) = ToSet(s) \cap X
         /\ IsInjective(s) => IsInjective(Only(s, X))
         /\ Decreasing(s) => Decreasing(Only(s, X))
  <1>0. \E h \in [1..Len(Only(s, X)) -> 1..Len(s)] :
          /\ \A i, j \in 1..Len(Only(s, X)) : i < j => h[i] < h[j]
          /\ \A i \in 1..Len(Only(s, X)) : Only(s, X)[i] = s[h[i]] /\ s[h[i]] \in X
          /\ \A k \in 1..Len(s) : s[k] \in X => \E i \in 1..Len(Only(s, X)) : h[i] = k
    BY OnlyEmbeds
  <1> DEFINE o == Only(s, X)
  <1>1. /\ o \in Seq(S) /\ DOMAIN o = 1..Len(o) /\ DOMAIN s = 1..Len(s)
        /\ Len(o) \in Nat /\ Len(s) \in Nat
    BY OnlyEmbeds, LenProperties
  <1>2. PICK h \in [1..Len(o) -> 1..Len(s)] :
              /\ \A i, j \in 1..Len(o) : i < j => h[i] < h[j]
              /\ \A i \in 1..Len(o) : o[i] = s[h[i]] /\ s[h[i]] \in X
              /\ \A k \in 1..Len(s) : s[k] \in X => \E i \in 1..Len(o) : h[i] = k
    BY <1>0
  <1> HIDE DEF o
  <1>3. ToSet(o) = ToSet(s) \cap X
    <2>1. ToSet(o) \subseteq ToSet(s) \cap X
      BY <1>1, <1>2 DEF ToSet
    <2>2. ASSUME NEW k \in 1..Len(s), s[k] \in X PROVE s[k] \in ToSet(o)
      BY <1>1, <1>2, <2>2 DEF ToSet
    <2>3. ASSUME NEW e \in ToSet(s), e \in X PROVE e \in ToSet(o)
      <3>1. PICK k \in 1..Len(s) : s[k] = e
        BY <1>1, <2>3 DEF ToSet
      <3> QED
        BY <2>2, <2>3, <3>1
    <2> QED
      BY <2>1, <2>3
  <1>4. \A i, j \in 1..Len(o) : h[i] = h[j] => i = j
    BY <1>1, <1>2
  <1>5. IsInjective(s) => IsInjective(o)
    BY <1>1, <1>2, <1>4 DEF IsInjective
  <1>6. Decreasing(s) => Decreasing(o)
    BY <1>1, <1>2 DEF Decreasing
  <1> QED
    BY <1>1, <1>3, <1>5, <1>6 DEF o

\* A selection is not longer.
LEMMA OnlyLength ==
  ASSUME NEW S, NEW s \in Seq(S), NEW X
  PROVE  Len(Only(s, X)) \in Nat /\ Len(Only(s, X)) <= Len(s)
  <1> DEFINE P == {t \in Seq(S) : Len(Only(t, X)) <= Len(t)}
  <1>1. <<>> \in P
    BY OnlyEmpty, EmptySeq
  <1>2. ASSUME NEW t \in Seq(S), NEW e \in S, t \in P
        PROVE  Append(t, e) \in P
    <2>1. /\ Append(t, e) \in Seq(S) /\ Len(Append(t, e)) = Len(t) + 1 /\ Len(t) \in Nat
      BY AppendProperties, LenProperties
    <2>2. /\ Only(t, X) \in Seq(S) /\ Len(Only(t, X)) \in Nat
          /\ Len(Append(Only(t, X), e)) = Len(Only(t, X)) + 1
      BY OnlyFacts, AppendProperties, LenProperties
    <2>3. Only(Append(t, e), X) = IF e \in X THEN Append(Only(t, X), e) ELSE Only(t, X)
      BY OnlyAppend
    <2> QED
      BY <1>2, <2>1, <2>2, <2>3
  <1> HIDE DEF P
  <1>3. Seq(S) \subseteq P
    BY <1>1, <1>2, SequenceInduction
  <1> QED
    BY <1>3, OnlyFacts, LenProperties DEF P

\* The two ends of a list.
LEMMA Ends ==
  ASSUME NEW S, NEW s \in Seq(S), NEW n \in 0..Len(s)
  PROVE  /\ Fore(s, n) \in Seq(S) /\ Rear(s, n) \in Seq(S)
         /\ Len(Fore(s, n)) = Len(s) - n /\ Len(Rear(s, n)) = n
         /\ \A i \in 1..Len(s)-n : Fore(s, n)[i] = s[i]
         /\ \A i \in 1..n : Rear(s, n)[i] = s[Len(s) - n + i]
  <1>1. Len(s) \in Nat /\ \A i \in 1..Len(s) : s[i] \in S
    BY LenProperties
  <1>2. /\ 1 \in Int /\ Len(s) - n \in Int /\ Len(s) - n + 1 \in Int /\ Len(s) \in Int
        /\ \A i \in 1..Len(s)-n : s[i] \in S
        /\ \A i \in Len(s)-n+1..Len(s) : s[i] \in S
    BY <1>1
  <1>3. /\ Fore(s, n) \in Seq(S) /\ Len(Fore(s, n)) = Len(s) - n
        /\ \A i \in 1..Len(s)-n : Fore(s, n)[i] = s[i]
    <2> DEFINE e == Len(s) - n
    <2>1. /\ SubSeq(s, 1, e) \in Seq(S)
          /\ Len(SubSeq(s, 1, e)) = IF 1 <= e THEN e - 1 + 1 ELSE 0
          /\ \A i \in 1..e-1+1 : SubSeq(s, 1, e)[i] = s[1 + i - 1]
      <3> HIDE DEF e
      <3> QED
        BY <1>2, SubSeqProperties DEF e
    <2> QED
      BY <1>1, <2>1 DEF Fore
  <1>4. /\ Rear(s, n) \in Seq(S) /\ Len(Rear(s, n)) = n
        /\ \A i \in 1..n : Rear(s, n)[i] = s[Len(s) - n + i]
    <2> DEFINE b == Len(s) - n + 1
               e == Len(s)
    <2>1. /\ SubSeq(s, b, e) \in Seq(S)
          /\ Len(SubSeq(s, b, e)) = IF b <= e THEN e - b + 1 ELSE 0
          /\ \A i \in 1..e-b+1 : SubSeq(s, b, e)[i] = s[b + i - 1]
      <3> HIDE DEF b, e
      <3> QED
        BY <1>2, SubSeqProperties DEF b, e
    <2> QED
      BY <1>1, <2>1 DEF Rear
  <1> QED
    BY <1>3, <1>4

\* Together the ends are the whole; packets are in one of them, in their order.
LEMMA Cut ==
  ASSUME NEW s \in Seq(Id), NEW n \in 0..Len(s)
  PROVE  /\ ToSet(Fore(s, n)) \cup ToSet(Rear(s, n)) = ToSet(s)
         /\ IsInjective(s) => /\ IsInjective(Fore(s, n)) /\ IsInjective(Rear(s, n))
                              /\ ToSet(Fore(s, n)) \cap ToSet(Rear(s, n)) = {}
         /\ Decreasing(s) => /\ Decreasing(Fore(s, n)) /\ Decreasing(Rear(s, n))
                             /\ Newer(ToSet(Fore(s, n)), ToSet(Rear(s, n)))
  <1> DEFINE f == Fore(s, n)
             r == Rear(s, n)
             l == Len(s)
  <1>1. /\ l \in Nat /\ n \in 0..l /\ DOMAIN s = 1..l
        /\ DOMAIN f = 1..l-n /\ DOMAIN r = 1..n
        /\ \A i \in 1..l-n : f[i] = s[i]
        /\ \A i \in 1..n : r[i] = s[l - n + i]
    BY Ends, LenProperties
  <1> HIDE DEF f, r, l
  <1>2. /\ \A i \in 1..l-n : i \in 1..l
        /\ \A i \in 1..n : l - n + i \in 1..l
        /\ \A i \in 1..l-n, j \in 1..n : i < l - n + j
        /\ \A i, j \in 1..n : (i < j => l - n + i < l - n + j) /\ (l - n + i = l - n + j => i = j)
        /\ \A k \in 1..l : k \in 1..l-n \/ (k - (l - n) \in 1..n /\ l - n + (k - (l - n)) = k)
    BY <1>1
  <1>3. ToSet(f) \cup ToSet(r) = ToSet(s)
    <2>1. ToSet(f) \subseteq ToSet(s) /\ ToSet(r) \subseteq ToSet(s)
      BY <1>1, <1>2 DEF ToSet
    <2>2. ASSUME NEW k \in 1..l PROVE s[k] \in ToSet(f) \cup ToSet(r)
      <3>1. CASE k \in 1..l-n
        BY <1>1, <3>1 DEF ToSet
      <3>2. CASE k - (l - n) \in 1..n /\ l - n + (k - (l - n)) = k
        <4>1. s[k] = r[k - (l - n)]
          BY <1>1, <3>2
        <4> QED
          BY <1>1, <3>2, <4>1 DEF ToSet
      <3> QED
        BY <1>2, <3>1, <3>2
    <2> QED
      BY <1>1, <2>1, <2>2 DEF ToSet
  <1>4. IsInjective(s) => /\ IsInjective(f) /\ IsInjective(r)
                          /\ ToSet(f) \cap ToSet(r) = {}
    <2> SUFFICES ASSUME IsInjective(s)
                 PROVE  /\ IsInjective(f) /\ IsInjective(r)
                        /\ \A i \in 1..l-n, j \in 1..n : f[i] # r[j]
      BY <1>1 DEF ToSet
    <2>1. IsInjective(f)
      BY <1>1, <1>2 DEF IsInjective
    <2>2. IsInjective(r)
      <3> SUFFICES ASSUME NEW i \in 1..n, NEW j \in 1..n, r[i] = r[j] PROVE i = j
        BY <1>1 DEF IsInjective
      <3>1. l - n + i \in DOMAIN s /\ l - n + j \in DOMAIN s
        BY <1>1, <1>2
      <3>2. s[l - n + i] = s[l - n + j]
        BY <1>1
      <3>3. l - n + i = l - n + j
        BY <3>1, <3>2 DEF IsInjective
      <3> QED
        BY <1>2, <3>3
    <2>3. \A i \in 1..l-n, j \in 1..n : f[i] # r[j]
      BY <1>1, <1>2 DEF IsInjective
    <2> QED
      BY <2>1, <2>2, <2>3
  <1>5. Decreasing(s) => /\ Decreasing(f) /\ Decreasing(r)
                         /\ Newer(ToSet(f), ToSet(r))
    <2> SUFFICES ASSUME Decreasing(s)
                 PROVE  /\ Decreasing(f) /\ Decreasing(r)
                        /\ \A i \in 1..l-n, j \in 1..n :
                             f[i] \notin Bypass /\ r[j] \notin Bypass => f[i] > r[j]
      BY <1>1 DEF ToSet, Newer
    <2>1. Decreasing(f)
      BY <1>1, <1>2 DEF Decreasing
    <2>2. Decreasing(r)
      <3> SUFFICES ASSUME NEW i \in 1..n, NEW j \in 1..n, i < j, {r[i], r[j]} \cap Bypass = {}
                   PROVE  r[i] > r[j]
        BY <1>1 DEF Decreasing
      <3>1. /\ l - n + i \in DOMAIN s /\ l - n + j \in DOMAIN s
            /\ l - n + i < l - n + j
        BY <1>1, <1>2
      <3>2. r[i] = s[l - n + i] /\ r[j] = s[l - n + j]
        BY <1>1
      <3> QED
        BY <3>1, <3>2 DEF Decreasing
    <2>3. \A i \in 1..l-n, j \in 1..n : f[i] \notin Bypass /\ r[j] \notin Bypass => f[i] > r[j]
      BY <1>1, <1>2 DEF Decreasing
    <2> QED
      BY <2>1, <2>2, <2>3
  <1> QED
    BY <1>3, <1>4, <1>5 DEF f, r

\* Two lists, one behind the other.
LEMMA Join ==
  ASSUME NEW s \in Seq(Id), NEW t \in Seq(Id)
  PROVE  /\ s \o t \in Seq(Id)
         /\ ToSet(s \o t) = ToSet(s) \cup ToSet(t)
         /\ IsInjective(s) /\ IsInjective(t) /\ ToSet(s) \cap ToSet(t) = {} =>
              IsInjective(s \o t)
         /\ Decreasing(s) /\ Decreasing(t) /\ Newer(ToSet(s), ToSet(t)) => Decreasing(s \o t)
  <1> DEFINE u == s \o t
             l == Len(s)
             m == Len(t)
  <1>1. /\ l \in Nat /\ m \in Nat /\ u \in Seq(Id)
        /\ DOMAIN s = 1..l /\ DOMAIN t = 1..m /\ DOMAIN u = 1..l+m
        /\ \A i \in 1..l+m : u[i] = IF i <= l THEN s[i] ELSE t[i - l]
        /\ \A i \in 1..l : s[i] \in ToSet(s)
        /\ \A i \in 1..m : t[i] \in ToSet(t)
    BY ConcatProperties, LenProperties DEF ToSet
  <1> HIDE DEF u, l, m
  <1>2. ASSUME NEW i \in 1..l+m
        PROVE  \/ i \in 1..l /\ u[i] = s[i]
               \/ i > l /\ i - l \in 1..m /\ u[i] = t[i - l]
    BY <1>1
  <1>3. ToSet(u) = ToSet(s) \cup ToSet(t)
    <2>1. ToSet(u) \subseteq ToSet(s) \cup ToSet(t)
      BY <1>1, <1>2 DEF ToSet
    <2>2. ASSUME NEW i \in 1..l PROVE s[i] \in ToSet(u)
      <3>1. i \in 1..l+m /\ u[i] = s[i]
        BY <1>1
      <3> QED
        BY <1>1, <3>1 DEF ToSet
    <2>3. ASSUME NEW i \in 1..m PROVE t[i] \in ToSet(u)
      <3>1. l + i \in 1..l+m /\ u[l + i] = t[i]
        BY <1>1
      <3> QED
        BY <1>1, <3>1 DEF ToSet
    <2> QED
      BY <1>1, <2>1, <2>2, <2>3 DEF ToSet
  <1>4. ASSUME IsInjective(s), IsInjective(t), ToSet(s) \cap ToSet(t) = {}
        PROVE  IsInjective(u)
    <2> SUFFICES ASSUME NEW i \in 1..l+m, NEW j \in 1..l+m, u[i] = u[j] PROVE i = j
      BY <1>1 DEF IsInjective
    <2>1. CASE i \in 1..l /\ u[i] = s[i]
      BY <1>1, <1>2, <1>4, <2>1 DEF IsInjective
    <2>2. CASE j \in 1..l /\ u[j] = s[j]
      BY <1>1, <1>2, <1>4, <2>2 DEF IsInjective
    <2>3. CASE /\ i > l /\ i - l \in 1..m /\ u[i] = t[i - l]
               /\ j > l /\ j - l \in 1..m /\ u[j] = t[j - l]
      <3>1. i - l = j - l
        BY <1>1, <1>4, <2>3 DEF IsInjective
      <3> QED
        BY <1>1, <3>1
    <2> QED
      BY <1>2, <2>1, <2>2, <2>3
  <1>5. ASSUME Decreasing(s), Decreasing(t), Newer(ToSet(s), ToSet(t))
        PROVE  Decreasing(u)
    <2> SUFFICES ASSUME NEW i \in 1..l+m, NEW j \in 1..l+m, i < j,
                        u[i] \notin Bypass, u[j] \notin Bypass
                 PROVE  u[i] > u[j]
      BY <1>1 DEF Decreasing
    <2>1. CASE i \in 1..l /\ u[i] = s[i] /\ j \in 1..l /\ u[j] = s[j]
      BY <1>1, <1>5, <2>1 DEF Decreasing
    <2>2. CASE i \in 1..l /\ u[i] = s[i] /\ j - l \in 1..m /\ u[j] = t[j - l]
      BY <1>1, <1>5, <2>2 DEF Newer
    <2>3. CASE i - l \in 1..m /\ u[i] = t[i - l] /\ j - l \in 1..m /\ u[j] = t[j - l]
      <3>1. i - l < j - l
        BY <1>1
      <3> QED
        BY <1>1, <1>5, <2>3, <3>1 DEF Decreasing
    <2> QED
      BY <1>1, <1>2, <2>1, <2>2, <2>3
  <1> QED
    BY <1>1, <1>3, <1>4, <1>5 DEF u

\* The run at the tail is as long as it is said to be.
LEMMA RunIs ==
  ASSUME NEW S, NEW s \in Seq(S), NEW X
  PROVE  /\ Run(s, X) \in 0..Len(s)
         /\ \A i \in Len(s)-Run(s, X)+1..Len(s) : s[i] \in X
         /\ Run(s, X) = Len(s) \/ s[Len(s) - Run(s, X)] \notin X
  <1> DEFINE l == Len(s)
             All(n) == \A i \in l-n+1..l : s[i] \in X
             Good(n) == All(n) /\ (n = l \/ s[l - n] \notin X)
             N == {m \in Nat : m <= l => All(m) \/ \E n \in 0..l : Good(n)}
  <1>1. l \in Nat
    BY LenProperties
  <1>2. 0 \in N
    <2>1. All(0)
      BY <1>1
    <2> QED
      BY <2>1
  <1>3. ASSUME NEW m \in Nat, m \in N PROVE m + 1 \in N
    <2> SUFFICES ASSUME m + 1 <= l, ~ \E n \in 0..l : Good(n)
                 PROVE  All(m + 1)
      OBVIOUS
    <2>1. All(m) /\ ~Good(m) /\ m # l
      BY <1>1, <1>3
    <2>2. s[l - m] \in X
      BY <2>1
    <2>3. \A i \in l-(m+1)+1..l : i = l - m \/ i \in l-m+1..l
      BY <1>1
    <2> QED
      BY <2>1, <2>2, <2>3
  <1> HIDE DEF N
  <1>4. Nat \subseteq N
    BY <1>2, <1>3, Induction
  <1>5. All(l) \/ \E n \in 0..l : Good(n)
    BY <1>1, <1>4 DEF N
  <1>6. \E n \in 0..l : Good(n)
    BY <1>1, <1>5
  <1> QED
    BY <1>6 DEF Run

\* Ids are taken node by node.
LEMMA IdsAre ==
  ASSUME NEW b \in Seq(Entry)
  PROVE  /\ Ids(b) \in Seq(Id) /\ Len(Ids(b)) = Len(b) /\ DOMAIN Ids(b) = DOMAIN b
         /\ \A i \in 1..Len(b) : Ids(b)[i] = b[i].id
         /\ ToSet(Ids(b)) = IdsOf(b) /\ IdsOf(b) \subseteq Id
  <1>1. Len(b) \in Nat /\ DOMAIN b = 1..Len(b) /\ \A i \in 1..Len(b) : b[i] \in Entry
    BY LenProperties
  <1>2. \A i \in 1..Len(b) : b[i].id \in Id
    BY <1>1 DEF Entry
  <1>3. Ids(b) = [i \in 1..Len(b) |-> b[i].id]
    BY <1>1 DEF Ids
  <1> QED
    BY <1>1, <1>2, <1>3 DEF IdsOf, ToSet

LEMMA IdsOfJoin ==
  ASSUME NEW a \in Seq(Entry), NEW b \in Seq(Entry)
  PROVE  Ids(a \o b) = Ids(a) \o Ids(b)
  <1> DEFINE l == Len(a)
             m == Len(b)
             p == Ids(a)
             q == Ids(b)
             u == Ids(a \o b)
             v == p \o q
  <1>1. /\ l \in Nat /\ m \in Nat /\ a \o b \in Seq(Entry) /\ Len(a \o b) = l + m
        /\ \A i \in 1..l+m : (a \o b)[i] = IF i <= l THEN a[i] ELSE b[i - l]
    BY ConcatProperties, LenProperties
  <1>2. /\ p \in Seq(Id) /\ Len(p) = l /\ \A i \in 1..l : p[i] = a[i].id
        /\ q \in Seq(Id) /\ Len(q) = m /\ \A i \in 1..m : q[i] = b[i].id
    BY IdsAre
  <1>3. u \in Seq(Id) /\ Len(u) = l + m /\ \A i \in 1..l+m : u[i] = (a \o b)[i].id
    BY <1>1, IdsAre
  <1>4. /\ v \in Seq(Id) /\ Len(v) = l + m
        /\ \A i \in 1..l+m : v[i] = IF i <= l THEN p[i] ELSE q[i - l]
    <2> HIDE DEF p, q, l, m
    <2>1. /\ p \o q \in Seq(Id) /\ Len(p \o q) = Len(p) + Len(q)
          /\ \A i \in 1..Len(p)+Len(q) : (p \o q)[i] = IF i <= Len(p) THEN p[i] ELSE q[i - Len(p)]
      BY <1>2, ConcatProperties
    <2> QED
      BY <1>2, <2>1
  <1>5. ASSUME NEW i \in 1..l+m PROVE u[i] = v[i]
    <2> HIDE DEF p, q, u, v, l, m
    <2>1. CASE i <= l
      <3>1. i \in 1..l
        BY <1>1, <2>1
      <3>2. u[i] = a[i].id
        BY <1>1, <1>3, <2>1
      <3>3. v[i] = a[i].id
        BY <1>2, <1>4, <2>1, <3>1
      <3> QED
        BY <3>2, <3>3
    <2>2. CASE i > l
      <3>1. i - l \in 1..m
        BY <1>1, <2>2
      <3>2. u[i] = b[i - l].id
        <4>1. ~(i <= l)
          BY <1>1, <2>2
        <4>2. (a \o b)[i] = b[i - l]
          BY <1>1, <4>1
        <4> QED
          BY <1>3, <4>2
      <3>3. v[i] = b[i - l].id
        BY <1>1, <1>2, <1>4, <2>2, <3>1
      <3> QED
        BY <3>2, <3>3
    <2> QED
      BY <1>1, <2>1, <2>2
  <1> HIDE DEF p, q, u, v, l, m
  <1>6. u = v
    BY <1>3, <1>4, <1>5, SeqEqual
  <1> QED
    BY <1>6 DEF p, q, u, v

LEMMA IdsOfEnds ==
  ASSUME NEW b \in Seq(Entry), NEW n \in 0..Len(b)
  PROVE  Ids(Fore(b, n)) = Fore(Ids(b), n) /\ Ids(Rear(b, n)) = Rear(Ids(b), n)
  <1>1. /\ Len(b) \in Nat /\ Ids(b) \in Seq(Id) /\ Len(Ids(b)) = Len(b)
        /\ \A i \in 1..Len(b) : Ids(b)[i] = b[i].id
    BY IdsAre, LenProperties
  <1>2. /\ Fore(b, n) \in Seq(Entry) /\ Rear(b, n) \in Seq(Entry)
        /\ Len(Fore(b, n)) = Len(b) - n /\ Len(Rear(b, n)) = n
        /\ \A i \in 1..Len(b)-n : Fore(b, n)[i] = b[i]
        /\ \A i \in 1..n : Rear(b, n)[i] = b[Len(b) - n + i]
    BY Ends
  <1>3. /\ Fore(Ids(b), n) \in Seq(Id) /\ Rear(Ids(b), n) \in Seq(Id)
        /\ Len(Fore(Ids(b), n)) = Len(b) - n /\ Len(Rear(Ids(b), n)) = n
        /\ \A i \in 1..Len(b)-n : Fore(Ids(b), n)[i] = Ids(b)[i]
        /\ \A i \in 1..n : Rear(Ids(b), n)[i] = Ids(b)[Len(b) - n + i]
    <2> DEFINE p == Ids(b)
    <2> HIDE DEF p
    <2>1. /\ Fore(p, n) \in Seq(Id) /\ Rear(p, n) \in Seq(Id)
          /\ Len(Fore(p, n)) = Len(p) - n /\ Len(Rear(p, n)) = n
          /\ \A i \in 1..Len(p)-n : Fore(p, n)[i] = p[i]
          /\ \A i \in 1..n : Rear(p, n)[i] = p[Len(p) - n + i]
      <3>1. p \in Seq(Id) /\ n \in 0..Len(p)
        BY <1>1 DEF p
      <3> QED
        BY <3>1, Ends
    <2>2. Len(p) = Len(b)
      BY <1>1 DEF p
    <2>3. /\ Fore(p, n) \in Seq(Id) /\ Rear(p, n) \in Seq(Id)
          /\ Len(Fore(p, n)) = Len(b) - n /\ Len(Rear(p, n)) = n
      BY <2>1, <2>2
    <2>4. /\ \A i \in 1..Len(b)-n : Fore(p, n)[i] = p[i]
          /\ \A i \in 1..n : Rear(p, n)[i] = p[Len(b) - n + i]
      BY <2>1, <2>2
    <2> QED
      BY <2>3, <2>4 DEF p
  <1>4. /\ Ids(Fore(b, n)) \in Seq(Id) /\ Len(Ids(Fore(b, n))) = Len(b) - n
        /\ \A i \in 1..Len(b)-n : Ids(Fore(b, n))[i] = Fore(b, n)[i].id
    BY <1>2, IdsAre
  <1>5. /\ Ids(Rear(b, n)) \in Seq(Id) /\ Len(Ids(Rear(b, n))) = n
        /\ \A i \in 1..n : Ids(Rear(b, n))[i] = Rear(b, n)[i].id
    BY <1>2, IdsAre
  <1>6. \A i \in 1..Len(b)-n : i \in 1..Len(b)
    BY <1>1
  <1>7. \A i \in 1..n : Len(b) - n + i \in 1..Len(b)
    BY <1>1
  <1>8. \A i \in 1..Len(b)-n : Ids(Fore(b, n))[i] = Fore(Ids(b), n)[i]
    BY <1>1, <1>2, <1>3, <1>4, <1>6
  <1>9. \A i \in 1..n : Ids(Rear(b, n))[i] = Rear(Ids(b), n)[i]
    BY <1>1, <1>2, <1>3, <1>5, <1>7
  <1>10. Ids(Fore(b, n)) = Fore(Ids(b), n)
    BY <1>3, <1>4, <1>8, SeqEqual
  <1>11. Ids(Rear(b, n)) = Rear(Ids(b), n)
    BY <1>3, <1>5, <1>9, SeqEqual
  <1> QED
    BY <1>10, <1>11

\* Whatever is cut off or selected, the nodes are those there were.
LEMMA EndsWithin ==
  ASSUME NEW S, NEW s \in Seq(S), NEW n \in 0..Len(s)
  PROVE  ToSet(Fore(s, n)) \subseteq ToSet(s) /\ ToSet(Rear(s, n)) \subseteq ToSet(s)
  <1>1. /\ Len(s) \in Nat /\ DOMAIN s = 1..Len(s)
        /\ DOMAIN Fore(s, n) = 1..Len(s)-n /\ DOMAIN Rear(s, n) = 1..n
        /\ \A i \in 1..Len(s)-n : Fore(s, n)[i] = s[i]
        /\ \A i \in 1..n : Rear(s, n)[i] = s[Len(s) - n + i]
    BY Ends, LenProperties
  <1>2. /\ \A i \in 1..Len(s)-n : i \in 1..Len(s)
        /\ \A i \in 1..n : Len(s) - n + i \in 1..Len(s)
    BY <1>1
  <1> QED
    BY <1>1, <1>2 DEF ToSet

LEMMA JoinWithin ==
  ASSUME NEW S, NEW s \in Seq(S), NEW t \in Seq(S)
  PROVE  ToSet(s \o t) \subseteq ToSet(s) \cup ToSet(t)
  <1>1. /\ Len(s) \in Nat /\ Len(t) \in Nat /\ DOMAIN s = 1..Len(s) /\ DOMAIN t = 1..Len(t)
        /\ DOMAIN (s \o t) = 1..Len(s)+Len(t)
        /\ \A i \in 1..Len(s)+Len(t) : (s \o t)[i] = IF i <= Len(s) THEN s[i] ELSE t[i - Len(s)]
    BY ConcatProperties, LenProperties
  <1>2. \A i \in 1..Len(s)+Len(t) : i \in 1..Len(s) \/ (~(i <= Len(s)) /\ i - Len(s) \in 1..Len(t))
    BY <1>1
  <1> QED
    BY <1>1, <1>2 DEF ToSet

------------------------------------------------------------------------------
(* What the process functions are made of.                                  *)

\* Longest is beyond any wait a module asks for, also when a step comes late.
LEMMA LongestIs ==
  /\ Longest \in Nat /\ Longest < Modulus
  /\ JitterMax + MaxLate < Longest /\ Frame + MaxLate < Longest
  /\ OodDelay + MaxLate < Longest /\ Duration + MaxLate < Longest /\ Gap + MaxLate < Longest
  /\ \A t \in LagTimes : t + MaxLate < Longest
  <1> DEFINE S == {JitterMax, Frame, OodDelay, Duration, Gap} \cup LagTimes
  <1>1. /\ JitterMax \in Nat /\ Frame \in Nat /\ OodDelay \in Nat /\ Duration \in Nat
        /\ Gap \in Nat /\ LagTimes \subseteq Nat /\ MaxLate \in Nat /\ Longest < Modulus
    BY QueuesAssumption
  <1>2. PICK t \in LagTimes : \A u \in LagTimes : u <= t
    BY QueuesAssumption
  <1>3. \E x \in {JitterMax, Frame, OodDelay, Duration, Gap, t} :
          \A y \in {JitterMax, Frame, OodDelay, Duration, Gap, t} : x >= y
    BY <1>1, <1>2
  <1>4. \E x \in S : \A y \in S : x >= y
    BY <1>1, <1>2, <1>3
  <1>5. Max(S) \in S /\ \A y \in S : Max(S) >= y
    BY <1>4 DEF Max
  <1>6. S \subseteq Nat
    BY <1>1
  <1> HIDE DEF S
  <1>7. Max(S) \in Nat /\ \A y \in S : y + MaxLate < Max(S) + MaxLate + 1
    <2> DEFINE x == Max(S)
    <2>1. x \in Nat /\ \A y \in S : y \in Nat /\ x >= y
      BY <1>5, <1>6
    <2> HIDE DEF x
    <2>2. x \in Nat /\ \A y \in S : y + MaxLate < x + MaxLate + 1
      BY <1>1, <2>1
    <2> QED
      BY <2>2 DEF x
  <1>8. Longest = Max(S) + MaxLate + 1
    BY DEF Longest, S
  <1> QED
    BY <1>1, <1>7, <1>8 DEF S

\* The clock's values, and their differences.
LEMMA ClockIs ==
  /\ Modulus \in Nat \ {0}
  /\ \A t \in 0..Modulus-1, d \in Nat : Plus(t, d) \in 0..Modulus-1
  /\ \A t, u \in 0..Modulus-1 :
       /\ Since(t, u) \in 0..Modulus-1
       /\ Since(t, u) = IF t >= u THEN t - u ELSE t + Modulus - u
  <1>1. Modulus \in Nat \ {0}
    BY QueuesAssumption
  <1>2. \A n \in Nat : n % Modulus \in 0..Modulus-1
    BY <1>1
  <1>3. ASSUME NEW t \in 0..Modulus-1, NEW d \in Nat
        PROVE  Plus(t, d) \in 0..Modulus-1
    BY <1>1, <1>2 DEF Plus
  <1>4. ASSUME NEW t \in 0..Modulus-1, NEW u \in 0..Modulus-1
        PROVE  /\ Since(t, u) \in 0..Modulus-1
               /\ Since(t, u) = IF t >= u THEN t - u ELSE t + Modulus - u
    <2>1. CASE t >= u
      <3>1. (t + Modulus - u) % Modulus = t - u
        BY <1>1, <2>1
      <3> QED
        BY <1>1, <2>1, <3>1 DEF Since
    <2>2. CASE t < u
      <3>1. (t + Modulus - u) % Modulus = t + Modulus - u
        BY <1>1, <2>2
      <3> QED
        BY <1>1, <2>2, <3>1 DEF Since
    <2> QED
      BY <2>1, <2>2
  <1> QED
    BY <1>1, <1>3, <1>4

\* What a module takes from the list and what it leaves.
LEMMA Intake ==
  ASSUME NEW l \in Seq(Id), NEW room \in Nat
  PROVE  LET in == Taken(l, room)
             left == Without(l, ToSet(in))
         IN /\ in \in Seq(Id) /\ left \in Seq(Id)
            /\ Len(in) \in Nat /\ Len(in) <= room
            /\ ToSet(in) \subseteq ToSet(l) \ Bypass
            /\ ToSet(left) = ToSet(l) \ ToSet(in)
            /\ IsInjective(l) => IsInjective(in) /\ IsInjective(left)
            /\ Decreasing(l) => /\ Decreasing(in) /\ Decreasing(left)
                                /\ Newer(ToSet(left), ToSet(in))
            /\ Len(in) < room \/ Len(l) <= room => ToSet(left) \subseteq Bypass
  <1> DEFINE m == Matching(l)
             k == IF Len(m) < room THEN Len(m) ELSE room
             in == Taken(l, room)
             left == Without(l, ToSet(in))
  <1>1. /\ m \in Seq(Id) /\ Len(m) \in Nat /\ Len(m) <= Len(l) /\ Len(l) \in Nat
        /\ ToSet(m) = ToSet(l) \cap (Id \ Bypass)
        /\ IsInjective(l) => IsInjective(m)
        /\ Decreasing(l) => Decreasing(m)
    BY OnlyFacts, OnlyLength, LenProperties DEF Matching
  <1>2. ToSet(l) \subseteq Id
    BY LenProperties DEF ToSet
  <1> HIDE DEF m
  <1>3. k \in 0..Len(m) /\ k <= room
    BY <1>1
  <1>4. in = Rear(m, k)
    BY DEF Taken, m
  <1> HIDE DEF k
  <1>5. /\ in \in Seq(Id) /\ Len(in) = k
        /\ ToSet(in) \subseteq ToSet(m)
    BY <1>1, <1>3, <1>4, Ends, EndsWithin
  <1>6. /\ ToSet(Fore(m, k)) \cup ToSet(in) = ToSet(m)
        /\ IsInjective(m) => IsInjective(in)
        /\ Decreasing(m) => Decreasing(in) /\ Newer(ToSet(Fore(m, k)), ToSet(in))
    BY <1>1, <1>3, <1>4, Cut
  <1> HIDE DEF in
  <1>7. /\ left \in Seq(Id) /\ ToSet(left) = ToSet(l) \cap (ToSet(l) \ ToSet(in))
        /\ IsInjective(l) => IsInjective(left)
        /\ Decreasing(l) => Decreasing(left)
    BY OnlyFacts DEF Without
  <1> HIDE DEF left
  <1>8. ToSet(left) \ Bypass \subseteq ToSet(Fore(m, k))
    BY <1>1, <1>2, <1>6, <1>7
  <1>9. Decreasing(l) => Newer(ToSet(left), ToSet(in))
    BY <1>1, <1>6, <1>8 DEF Newer
  <1>10. ASSUME Len(in) < room \/ Len(l) <= room
         PROVE  ToSet(left) \subseteq Bypass
    <2>1. k = Len(m)
      BY <1>1, <1>5, <1>10 DEF k
    <2>2. Fore(m, k) \in Seq(Id) /\ Len(Fore(m, k)) = Len(m) - k
      BY <1>1, <1>3, Ends
    <2>3. DOMAIN Fore(m, k) = {}
      <3>1. Len(Fore(m, k)) = 0
        BY <1>1, <2>1, <2>2
      <3>2. DOMAIN Fore(m, k) = 1..0
        BY <2>2, <3>1, LenProperties
      <3> QED
        BY <3>2
    <2>4. ToSet(Fore(m, k)) = {}
      BY <2>3 DEF ToSet
    <2> QED
      BY <1>8, <2>4
  <1>11. ToSet(in) \subseteq ToSet(l) \ Bypass
    BY <1>1, <1>5
  <1> QED
    BY <1>1, <1>3, <1>5, <1>6, <1>7, <1>9, <1>10, <1>11 DEF in, left

\* A node that has just been put into a buffer.
Fresh == {e \in Entry : e.enqueued = clock /\ e.waited = 0}

\* A buffer with the nodes for in at its head.
LEMMA Enqueued ==
  ASSUME clock \in 0..Modulus-1,
         NEW in \in Seq(Id), NEW d \in [DOMAIN in -> 0..JitterMax], NEW c \in Seq(Entry)
  PROVE  LET b == Enqueue(in, d) \o c
         IN /\ b \in Seq(Entry) /\ Len(b) = Len(in) + Len(c) /\ Len(b) \in Nat
            /\ Ids(b) = in \o Ids(c)
            /\ ToSet(b) \subseteq ToSet(c) \cup Fresh
  <1> DEFINE a == Enqueue(in, d)
             l == Len(in)
  <1>1. l \in Nat /\ DOMAIN in = 1..l /\ \A i \in 1..l : in[i] \in Id
    BY LenProperties
  <1>2. /\ JitterMax \in Nat /\ Longest \in Nat
        /\ \A t \in 0..Modulus-1, x \in Nat : Plus(t, x) \in 0..Modulus-1
    BY QueuesAssumption, LongestIs, ClockIs
  <1>3. a = [i \in 1..l |-> [id |-> in[i], stamp |-> Plus(clock, d[i]), enqueued |-> clock,
                             delay |-> d[i], waited |-> 0]]
    BY <1>1 DEF Enqueue
  <1>4. ASSUME NEW i \in 1..l PROVE a[i] \in Fresh /\ a[i].id = in[i]
    <2>1. d[i] \in 0..JitterMax /\ d[i] \in Nat /\ in[i] \in Id
      <3>1. i \in DOMAIN in
        BY <1>1
      <3>2. d[i] \in 0..JitterMax
        BY <3>1
      <3> QED
        BY <1>1, <1>2, <3>2
    <2>2. Plus(clock, d[i]) \in 0..Modulus-1
      <3> DEFINE x == d[i]
      <3>1. x \in Nat
        BY <2>1
      <3> HIDE DEF x
      <3>2. Plus(clock, x) \in 0..Modulus-1
        BY <1>2, <3>1
      <3> QED
        BY <3>2 DEF x
    <2>4. 0 \in 0..Longest
      BY <1>2
    <2>3. a[i] = [id |-> in[i], stamp |-> Plus(clock, d[i]), enqueued |-> clock,
                  delay |-> d[i], waited |-> 0]
      BY <1>3
    <2> HIDE DEF a
    <2> QED
      BY <2>1, <2>2, <2>3, <2>4 DEF Fresh, Entry
  <1> HIDE DEF a, l
  <1>5. a \in Seq(Entry) /\ Len(a) = l /\ DOMAIN a = 1..l
    <2>1. \A i \in 1..l : a[i] \in Entry
      BY <1>4 DEF Fresh
    <2>2. a \in [1..l -> Entry]
      BY <1>3, <2>1
    <2> QED
      BY <1>1, <2>2
  <1>6. Ids(a) = in
    <2>1. Ids(a) \in Seq(Id) /\ Len(Ids(a)) = l /\ \A i \in 1..l : Ids(a)[i] = a[i].id
      BY <1>5, IdsAre
    <2> QED
      BY <1>1, <1>4, <2>1, SeqEqual DEF l
  <1>7. ToSet(a) \subseteq Fresh
    BY <1>4, <1>5 DEF ToSet
  <1>8. /\ a \o c \in Seq(Entry) /\ Len(a \o c) = l + Len(c) /\ Len(c) \in Nat
        /\ Ids(a \o c) = in \o Ids(c)
        /\ ToSet(a \o c) \subseteq ToSet(a) \cup ToSet(c)
    BY <1>5, <1>6, ConcatProperties, LenProperties, IdsOfJoin, JoinWithin
  <1> QED
    BY <1>1, <1>7, <1>8 DEF a, l

\* First some nodes leave at the tail and then some more: lag's two loops.
LEMMA EndsOfEnds ==
  ASSUME NEW S, NEW s \in Seq(S), NEW n \in 0..Len(s), NEW f \in 0..Len(s)-n
  PROVE  /\ n + f \in 0..Len(s)
         /\ Fore(Fore(s, n), f) = Fore(s, n + f)
         /\ Rear(Fore(s, n), f) \o Rear(s, n) = Rear(s, n + f)
  <1> DEFINE l == Len(s)
             a == Fore(s, n)
             z == Rear(s, n)
             y == Rear(a, f)
  <1>1. l \in Nat /\ n \in Nat /\ f \in Nat /\ n + f \in 0..l
    BY LenProperties
  <1>2. /\ a \in Seq(S) /\ z \in Seq(S) /\ Len(a) = l - n /\ Len(z) = n
        /\ \A i \in 1..l-n : a[i] = s[i]
        /\ \A i \in 1..n : z[i] = s[l - n + i]
    BY Ends
  <1>3. /\ Fore(s, n + f) \in Seq(S) /\ Rear(s, n + f) \in Seq(S)
        /\ Len(Fore(s, n + f)) = l - (n + f) /\ Len(Rear(s, n + f)) = n + f
        /\ \A i \in 1..l-(n+f) : Fore(s, n + f)[i] = s[i]
        /\ \A i \in 1..n+f : Rear(s, n + f)[i] = s[l - (n + f) + i]
    BY <1>1, Ends
  <1> HIDE DEF l, a, z, y
  <1>4. /\ Fore(a, f) \in Seq(S) /\ y \in Seq(S)
        /\ Len(Fore(a, f)) = (l - n) - f /\ Len(y) = f
        /\ \A i \in 1..(l-n)-f : Fore(a, f)[i] = a[i]
        /\ \A i \in 1..f : y[i] = a[(l - n) - f + i]
    <2>1. f \in 0..Len(a)
      BY <1>2 DEF l
    <2>2. /\ Fore(a, f) \in Seq(S) /\ Rear(a, f) \in Seq(S)
          /\ Len(Fore(a, f)) = Len(a) - f /\ Len(Rear(a, f)) = f
          /\ \A i \in 1..Len(a)-f : Fore(a, f)[i] = a[i]
          /\ \A i \in 1..f : Rear(a, f)[i] = a[Len(a) - f + i]
      BY <1>2, <2>1, Ends
    <2> QED
      BY <1>2, <2>2 DEF y
  <1>5. Fore(a, f) = Fore(s, n + f)
    <2>1. \A i \in 1..(l-n)-f : i \in 1..l-n /\ i \in 1..l-(n+f)
      BY <1>1 DEF l
    <2>2. \A i \in 1..(l-n)-f : Fore(a, f)[i] = Fore(s, n + f)[i]
      BY <1>2, <1>3, <1>4, <2>1
    <2>3. (l - n) - f = l - (n + f)
      BY <1>1
    <2> QED
      BY <1>3, <1>4, <2>2, <2>3, SeqEqual
  <1>6. y \o z = Rear(s, n + f)
    <2>1. /\ y \o z \in Seq(S) /\ Len(y \o z) = f + n
          /\ \A i \in 1..f+n : (y \o z)[i] = IF i <= f THEN y[i] ELSE z[i - f]
      <3>1. /\ y \o z \in Seq(S) /\ Len(y \o z) = Len(y) + Len(z)
            /\ \A i \in 1..Len(y)+Len(z) :
                 (y \o z)[i] = IF i <= Len(y) THEN y[i] ELSE z[i - Len(y)]
        <4>1. y \in Seq(S) /\ z \in Seq(S)
          BY <1>2, <1>4
        <4> QED
          BY <4>1, ConcatProperties
      <3> QED
        BY <1>2, <1>4, <3>1
    <2>4. \A j \in 1..f : y[j] = a[(l - n) - f + j]
      BY <1>4
    <2>5. \A j \in 1..f+n : (y \o z)[j] = IF j <= f THEN y[j] ELSE z[j - f]
      BY <2>1
    <2>2. ASSUME NEW i \in 1..n+f PROVE (y \o z)[i] = Rear(s, n + f)[i]
      <3>1. Rear(s, n + f)[i] = s[l - (n + f) + i]
        BY <1>3
      <3>2. CASE i <= f
        <4>1. /\ i \in 1..f /\ i \in 1..f+n /\ (l - n) - f + i \in 1..l-n
              /\ (l - n) - f + i = l - (n + f) + i
          BY <1>1, <3>2 DEF l
        <4>2. (y \o z)[i] = y[i]
          BY <2>5, <3>2, <4>1
        <4>3. y[i] = a[(l - n) - f + i]
          BY <2>4, <4>1
        <4>4. a[(l - n) - f + i] = s[(l - n) - f + i]
          BY <1>2, <4>1
        <4> QED
          BY <3>1, <4>1, <4>2, <4>3, <4>4
      <3>3. CASE i > f
        <4>1. i - f \in 1..n /\ l - n + (i - f) = l - (n + f) + i /\ ~(i <= f) /\ i \in 1..f+n
          BY <1>1, <3>3 DEF l
        <4>2. (y \o z)[i] = z[i - f]
          BY <2>1, <4>1
        <4>3. z[i - f] = s[l - n + (i - f)]
          BY <1>2, <4>1
        <4> QED
          BY <3>1, <4>1, <4>2, <4>3
      <3>4. i <= f \/ i > f
        BY <1>1
      <3> QED
        BY <3>2, <3>3, <3>4
    <2>3. f + n = n + f
      BY <1>1
    <2> QED
      BY <1>3, <2>1, <2>2, <2>3, SeqEqual
  <1> QED
    BY <1>1, <1>5, <1>6 DEF l, a, y, z

\* The packets P are on the list l, in the buffer c or among the lost ones x, each in
\* one place.
Shared(l, c, x, P) ==
  /\ IsInjective(l) /\ IsInjective(Ids(c))
  /\ ToSet(l) \cap IdsOf(c) = {} /\ ToSet(l) \cap x = {} /\ IdsOf(c) \cap x = {}
  /\ ToSet(l) \cup IdsOf(c) \cup x = P

\* What the buffer holds is newer than what goes on.
Passing(l, c) == Decreasing(l) /\ Decreasing(Ids(c)) /\ Newer(IdsOf(c), ToSet(l))

\* The packets in are to be put into a buffer with the nodes c, after delays d; the
\* list is left as it says.
Entering(in, left, c, d) ==
  /\ clock \in 0..Modulus-1
  /\ in \in Seq(Id) /\ left \in Seq(Id) /\ c \in Seq(Entry)
  /\ d \in [DOMAIN in -> 0..JitterMax]
  /\ IsInjective(in) /\ IsInjective(left) /\ IsInjective(Ids(c))
  /\ ToSet(in) \cap ToSet(left) = {}
  /\ IdsOf(c) \cap ToSet(in) = {} /\ IdsOf(c) \cap ToSet(left) = {}

\* Nodes keep stay, nodes out go on, and the list is l.
Leaving(in, left, c, keep, out, l) ==
  /\ keep \in Seq(Entry) /\ out \in Seq(Entry) /\ l \in Seq(Id)
  /\ ToSet(keep) \subseteq ToSet(c) \cup Fresh
  /\ ToSet(out) \subseteq ToSet(c) \cup Fresh
  /\ Shared(l, keep, {}, ToSet(in) \cup IdsOf(c) \cup ToSet(left))

\* Through a buffer: the packets in come in at its head, k leave at its tail to the
\* head of what is left of the list.
LEMMA Through ==
  ASSUME NEW in, NEW left, NEW c, NEW d, Entering(in, left, c, d),
         NEW b, b = Enqueue(in, d) \o c, NEW k \in 0..Len(b)
  PROVE  LET l == Ids(Rear(b, k)) \o left
         IN /\ Leaving(in, left, c, Fore(b, k), Rear(b, k), l)
            /\ /\ Decreasing(in) /\ Decreasing(left) /\ Decreasing(Ids(c))
               /\ Newer(ToSet(in), IdsOf(c)) /\ ToSet(left) \subseteq Bypass
               => Passing(l, Fore(b, k))
  <1> DEFINE q == Ids(b)
             keep == Fore(b, k)
             out == Rear(b, k)
             l == Ids(out) \o left
  <1>0. /\ clock \in 0..Modulus-1
        /\ in \in Seq(Id) /\ left \in Seq(Id) /\ c \in Seq(Entry)
        /\ d \in [DOMAIN in -> 0..JitterMax]
        /\ IsInjective(in) /\ IsInjective(left) /\ IsInjective(Ids(c))
        /\ ToSet(in) \cap ToSet(left) = {}
        /\ IdsOf(c) \cap ToSet(in) = {} /\ IdsOf(c) \cap ToSet(left) = {}
    BY DEF Entering
  <1>1. /\ b \in Seq(Entry) /\ Len(b) \in Nat
        /\ q = in \o Ids(c) /\ ToSet(b) \subseteq ToSet(c) \cup Fresh
    BY <1>0, Enqueued
  <1>2. /\ Ids(c) \in Seq(Id) /\ ToSet(Ids(c)) = IdsOf(c)
        /\ q \in Seq(Id) /\ Len(q) = Len(b)
    BY <1>0, <1>1, IdsAre
  <1>3. /\ ToSet(q) = ToSet(in) \cup IdsOf(c) /\ IsInjective(q)
        /\ Decreasing(in) /\ Decreasing(Ids(c)) /\ Newer(ToSet(in), IdsOf(c)) => Decreasing(q)
    BY <1>0, <1>1, <1>2, Join
  <1>4. /\ keep \in Seq(Entry) /\ out \in Seq(Entry) /\ Len(keep) = Len(b) - k
        /\ ToSet(keep) \subseteq ToSet(b) /\ ToSet(out) \subseteq ToSet(b)
        /\ Ids(keep) = Fore(q, k) /\ Ids(out) = Rear(q, k)
    <2>1. keep \in Seq(Entry) /\ out \in Seq(Entry) /\ Len(keep) = Len(b) - k
      BY <1>1, Ends
    <2>2. ToSet(keep) \subseteq ToSet(b) /\ ToSet(out) \subseteq ToSet(b)
      BY <1>1, EndsWithin
    <2>3. Ids(keep) = Fore(q, k) /\ Ids(out) = Rear(q, k)
      BY <1>1, IdsOfEnds
    <2> QED
      BY <2>1, <2>2, <2>3
  <1>5. /\ ToSet(Ids(keep)) = IdsOf(keep) /\ Ids(keep) \in Seq(Id) /\ Ids(out) \in Seq(Id)
    BY <1>4, IdsAre
  <1> HIDE DEF q, keep, out
  <1>6. k \in 0..Len(q)
    BY <1>2
  <1>7. /\ IdsOf(keep) \cup ToSet(Ids(out)) = ToSet(q)
        /\ IsInjective(Ids(keep)) /\ IsInjective(Ids(out)) /\ IdsOf(keep) \cap ToSet(Ids(out)) = {}
        /\ Decreasing(q) => /\ Decreasing(Ids(keep)) /\ Decreasing(Ids(out))
                            /\ Newer(IdsOf(keep), ToSet(Ids(out)))
    BY <1>2, <1>3, <1>4, <1>5, <1>6, Cut
  <1>8. /\ l \in Seq(Id) /\ ToSet(l) = ToSet(Ids(out)) \cup ToSet(left)
        /\ IsInjective(l)
        /\ Decreasing(Ids(out)) /\ Decreasing(left) /\ Newer(ToSet(Ids(out)), ToSet(left))
             => Decreasing(l)
    <2>1. ToSet(Ids(out)) \cap ToSet(left) = {}
      BY <1>0, <1>3, <1>7
    <2> QED
      BY <1>0, <1>5, <1>7, <2>1, Join
  <1> HIDE DEF l
  <1>9. Shared(l, keep, {}, ToSet(in) \cup IdsOf(c) \cup ToSet(left))
    BY <1>0, <1>3, <1>7, <1>8 DEF Shared
  <1>10. ASSUME Decreasing(in), Decreasing(left), Decreasing(Ids(c)),
                Newer(ToSet(in), IdsOf(c)), ToSet(left) \subseteq Bypass
         PROVE  Passing(l, keep)
    <2>1. Newer(ToSet(Ids(out)), ToSet(left))
      BY <1>10 DEF Newer
    <2>2. Newer(IdsOf(keep), ToSet(l))
      BY <1>3, <1>7, <1>8, <1>10 DEF Newer
    <2> QED
      BY <1>3, <1>7, <1>8, <1>10, <2>1, <2>2 DEF Passing
  <1> QED
    BY <1>1, <1>4, <1>8, <1>9, <1>10 DEF l, keep, out, Leaving

------------------------------------------------------------------------------
(* A module's turn.                                                         *)

\* The latencies that nodes of X would be measured with.
Waits(X) == {<<Since(clock, e.enqueued), e.waited>> : e \in X}

Limit(m) == KeepAtMost + (IF m = "bandwidth" THEN 1 ELSE 0)

\* What is known when m gets its turn.
Given(m) ==
  /\ m \in Stages /\ clock \in 0..Modulus-1
  /\ buf \in [Stages -> Seq(Entry)] /\ buf[m] \in Seq(Entry)
  /\ list \in Seq(Id) /\ lost \subseteq Id
  /\ Len(buf[m]) < Limit(m)
  /\ Shared(list, buf[m], lost, ToSet(list) \cup IdsOf(buf[m]) \cup lost)

\* What is known after it: the packets of list and buffer are still there, each in
\* one place, or freed, and no other buffer changed.
Turn(m) ==
  /\ buf' = [buf EXCEPT ![m] = buf'[m]] /\ buf'[m] \in Seq(Entry)
  /\ list' \in Seq(Id) /\ lost' \subseteq Id
  /\ Len(buf'[m]) < Limit(m)
  /\ Shared(list', buf'[m], lost', ToSet(list) \cup IdsOf(buf[m]) \cup lost)
  /\ ToSet(buf'[m]) \subseteq ToSet(buf[m]) \cup Fresh
  /\ measured' \subseteq measured \cup Waits(ToSet(buf[m]) \cup Fresh)

\* And that m kept the order, if it found it.
Orderly(m) ==
  Decreasing(list) /\ Decreasing(Ids(buf[m])) /\ Newer(ToSet(list), IdsOf(buf[m])) =>
    Passing(list', buf'[m])

LEMMA LatenciesAre ==
  ASSUME NEW out \in Seq(Entry), NEW X, ToSet(out) \subseteq X
  PROVE  Latencies(out) \subseteq Waits(X)
  BY DEF Latencies, Waits, ToSet

\* What the modules with a full buffer know of what they take.
LEMMA Taking ==
  ASSUME NEW m, Given(m)
  PROVE  LET in == Taken(list, Room(m))
             left == Without(list, ToSet(in))
             c == buf[m]
         IN /\ in \in Seq(Id) /\ left \in Seq(Id)
            /\ Len(in) \in Nat /\ Len(c) \in Nat /\ Len(in) + Len(c) <= KeepAtMost
            /\ ToSet(in) \subseteq ToSet(list) \ Bypass
            /\ ToSet(left) = ToSet(list) \ ToSet(in)
            /\ IsInjective(in) /\ IsInjective(left) /\ IsInjective(Ids(c))
            /\ Decreasing(list) => /\ Decreasing(in) /\ Decreasing(left)
                                   /\ Newer(ToSet(left), ToSet(in))
            /\ Len(in) + Len(c) < KeepAtMost \/ Len(list) <= Room(m) => ToSet(left) \subseteq Bypass
            /\ NoDelay(in) \in [DOMAIN in -> 0..JitterMax]
            /\ Newer(ToSet(list), IdsOf(c)) => Newer(ToSet(in), IdsOf(c))
  <1> DEFINE in == Taken(list, Room(m))
             left == Without(list, ToSet(in))
             c == buf[m]
  <1>1. /\ Len(c) \in Nat /\ KeepAtMost \in Nat /\ JitterMax \in Nat
        /\ Len(c) <= KeepAtMost /\ list \in Seq(Id)
        /\ IsInjective(list) /\ IsInjective(Ids(c))
    BY QueuesAssumption, LenProperties DEF Given, Limit, Shared
  <1>2. Room(m) \in Nat /\ Room(m) + Len(c) = KeepAtMost
    <2> DEFINE x == Len(c)
    <2>1. Room(m) = IF x < KeepAtMost THEN KeepAtMost - x ELSE 0
      BY DEF Room
    <2>2. x \in Nat /\ x <= KeepAtMost
      BY <1>1
    <2> HIDE DEF x
    <2>3. Room(m) \in Nat /\ Room(m) + x = KeepAtMost
      BY <1>1, <2>1, <2>2
    <2> QED
      BY <2>3 DEF x
  <1> HIDE DEF c
  <1>3. /\ in \in Seq(Id) /\ left \in Seq(Id)
        /\ Len(in) \in Nat /\ Len(in) <= Room(m)
        /\ ToSet(in) \subseteq ToSet(list) \ Bypass
        /\ ToSet(left) = ToSet(list) \ ToSet(in)
        /\ IsInjective(in) /\ IsInjective(left)
        /\ Decreasing(list) => /\ Decreasing(in) /\ Decreasing(left)
                               /\ Newer(ToSet(left), ToSet(in))
        /\ Len(in) < Room(m) \/ Len(list) <= Room(m) => ToSet(left) \subseteq Bypass
    BY <1>1, <1>2, Intake
  <1> HIDE DEF in, left
  <1>4. /\ Len(in) + Len(c) <= KeepAtMost
        /\ Len(in) + Len(c) < KeepAtMost => Len(in) < Room(m)
    BY <1>1, <1>2, <1>3
  <1>5. NoDelay(in) \in [DOMAIN in -> 0..JitterMax]
    BY <1>1 DEF NoDelay
  <1>6. Newer(ToSet(list), IdsOf(c)) => Newer(ToSet(in), IdsOf(c))
    BY <1>3 DEF Newer
  <1> QED
    BY <1>1, <1>3, <1>4, <1>5, <1>6 DEF in, left, c

\* lagProcess: with one packet on the list at most there is room for it.
LEMMA LagTurn ==
  ASSUME Given("lag"), LagProcess
  PROVE  Turn("lag") /\ (Len(list) <= 1 => Orderly("lag"))
  <1> DEFINE in == Taken(list, Room("lag"))
             left == Without(list, ToSet(in))
             c == buf["lag"]
             d == NoDelay(in)
             b == Enqueue(in, d) \o c
             n == Run(b, LagOverdue(b))
             rest == Fore(b, n)
             f == Flushed(rest)
             k == n + f
             both == Rear(rest, f) \o Rear(b, n)
             out == Rear(b, k)
             l == Ids(out) \o left
  <1>1. /\ buf' = [buf EXCEPT !["lag"] = Fore(rest, f)]
        /\ list' = Ids(both) \o left
        /\ measured' = measured \cup Latencies(both) /\ lost' = lost
    BY Zenon DEF LagProcess, Release
  <1>2. /\ in \in Seq(Id) /\ left \in Seq(Id) /\ c \in Seq(Entry)
        /\ Len(in) \in Nat /\ Len(c) \in Nat /\ Len(in) + Len(c) <= KeepAtMost
        /\ ToSet(in) \subseteq ToSet(list) \ Bypass
        /\ ToSet(left) = ToSet(list) \ ToSet(in)
        /\ IsInjective(in) /\ IsInjective(left) /\ IsInjective(Ids(c))
        /\ Decreasing(list) => Decreasing(in) /\ Decreasing(left)
        /\ Len(list) <= Room("lag") => ToSet(left) \subseteq Bypass
        /\ d \in [DOMAIN in -> 0..JitterMax]
        /\ Newer(ToSet(list), IdsOf(c)) => Newer(ToSet(in), IdsOf(c))
    BY Taking DEF Given
  <1>3. Len(list) <= 1 => Len(list) <= Room("lag")
    BY QueuesAssumption, LenProperties DEF Given, Limit, Room
  <1> HIDE DEF d, in, left, c
  <1>4. b \in Seq(Entry) /\ Len(b) = Len(in) + Len(c) /\ Len(b) \in Nat
    BY <1>2, Enqueued DEF Given
  <1> HIDE DEF b
  <1>5. n \in 0..Len(b)
    BY <1>4, RunIs
  <1> HIDE DEF n
  <1>6. rest \in Seq(Entry) /\ Len(rest) = Len(b) - n
    BY <1>4, <1>5, Ends
  <1>7. /\ f \in 0..Len(b)-n
        /\ Len(b) - (n + f) < KeepAtMost
    BY <1>2, <1>4, <1>5, <1>6, QueuesAssumption DEF Flushed
  <1> HIDE DEF f
  <1>8. k \in 0..Len(b) /\ Fore(rest, f) = Fore(b, k) /\ both = out
    BY <1>4, <1>5, <1>7, EndsOfEnds
  <1>9. /\ ToSet(in) \cap ToSet(left) = {} /\ IdsOf(c) \cap ToSet(in) = {}
        /\ IdsOf(c) \cap ToSet(left) = {}
        /\ ToSet(list) = ToSet(in) \cup ToSet(left)
        /\ ToSet(list) \cap lost = {} /\ IdsOf(c) \cap lost = {}
    BY <1>2 DEF Given, Shared, c
  <1> HIDE DEF k, both, rest
  <1>10. /\ Leaving(in, left, c, Fore(b, k), out, l)
         /\ /\ Decreasing(in) /\ Decreasing(left) /\ Decreasing(Ids(c))
            /\ Newer(ToSet(in), IdsOf(c)) /\ ToSet(left) \subseteq Bypass
            => Passing(l, Fore(b, k))
    <2>1. Entering(in, left, c, d) /\ b = Enqueue(in, d) \o c /\ k \in 0..Len(b)
      BY <1>2, <1>8, <1>9 DEF Entering, Given, b
    <2> QED
      BY <2>1, Through
  <1> HIDE DEF out
  <1>11. buf'["lag"] = Fore(b, k) /\ buf' = [buf EXCEPT !["lag"] = buf'["lag"]]
    BY <1>1, <1>8 DEF Given
  <1>12. Shared(l, Fore(b, k), lost, ToSet(list) \cup IdsOf(c) \cup lost)
    BY <1>9, <1>10 DEF Shared, Leaving
  <1>13. Turn("lag")
    <2>1. Latencies(out) \subseteq Waits(ToSet(c) \cup Fresh)
      BY <1>10, LatenciesAre DEF Leaving
    <2>2. Len(Fore(b, k)) < Limit("lag")
      <3>1. Len(Fore(b, k)) = Len(b) - k
        BY <1>4, <1>8, Ends
      <3> QED
        BY <1>4, <1>5, <1>7, <3>1, QueuesAssumption DEF Limit, k
    <2> QED
      BY <1>1, <1>8, <1>10, <1>11, <1>12, <2>1, <2>2 DEF Turn, Given, Leaving, c
  <1>14. Len(list) <= 1 => Orderly("lag")
    BY <1>1, <1>2, <1>3, <1>8, <1>10, <1>11 DEF Orderly, c
  <1> QED
    BY <1>13, <1>14

\* Nodes have ids of their own if their ids are told apart.
LEMMA OwnIds ==
  ASSUME NEW b \in Seq(Entry)
  PROVE  IsInjective(Ids(b)) <=>
           IsInjective(b) /\ \A e, f \in ToSet(b) : e.id = f.id => e = f
  <1>1. /\ Len(b) \in Nat /\ DOMAIN b = 1..Len(b) /\ DOMAIN Ids(b) = 1..Len(b)
        /\ \A i \in 1..Len(b) : Ids(b)[i] = b[i].id
    BY IdsAre, LenProperties
  <1>2. IsInjective(Ids(b)) => IsInjective(b) /\ \A e, f \in ToSet(b) : e.id = f.id => e = f
    BY <1>1 DEF IsInjective, ToSet
  <1>3. IsInjective(b) /\ (\A e, f \in ToSet(b) : e.id = f.id => e = f) => IsInjective(Ids(b))
    BY <1>1 DEF IsInjective, ToSet
  <1> QED
    BY <1>2, <1>3

\* The nodes of a buffer that are in X, and the others.
LEMMA Parted ==
  ASSUME NEW b \in Seq(Entry), IsInjective(Ids(b)), NEW X
  PROVE  LET due == Only(b, X)
             rest == Only(b, ToSet(b) \ ToSet(due))
         IN /\ due \in Seq(Entry) /\ rest \in Seq(Entry)
            /\ ToSet(due) = ToSet(b) \cap X /\ ToSet(rest) = ToSet(b) \ X
            /\ IsInjective(Ids(due)) /\ IsInjective(Ids(rest))
            /\ IdsOf(due) \cap IdsOf(rest) = {} /\ IdsOf(due) \cup IdsOf(rest) = IdsOf(b)
  <1> DEFINE due == Only(b, X)
             rest == Only(b, ToSet(b) \ ToSet(due))
  <1>1. /\ due \in Seq(Entry) /\ ToSet(due) = ToSet(b) \cap X
        /\ IsInjective(b) => IsInjective(due)
    BY OnlyFacts
  <1> HIDE DEF due
  <1>2. /\ rest \in Seq(Entry) /\ ToSet(rest) = ToSet(b) \cap (ToSet(b) \ ToSet(due))
        /\ IsInjective(b) => IsInjective(rest)
    BY OnlyFacts
  <1> HIDE DEF rest
  <1>3. IsInjective(b) /\ \A e, f \in ToSet(b) : e.id = f.id => e = f
    BY OwnIds
  <1>4. IsInjective(Ids(due)) /\ IsInjective(Ids(rest))
    BY <1>1, <1>2, <1>3, OwnIds
  <1>5. \A s : IdsOf(s) = {e.id : e \in ToSet(s)}
    BY DEF IdsOf, ToSet
  <1>6. ToSet(rest) = ToSet(b) \ X
    BY <1>1, <1>2
  <1>7. IdsOf(due) \cap IdsOf(rest) = {} /\ IdsOf(due) \cup IdsOf(rest) = IdsOf(b)
    BY <1>1, <1>3, <1>5, <1>6
  <1> QED
    BY <1>1, <1>2, <1>4, <1>6, <1>7 DEF due, rest

\* jitterProcess: what is due leaves from wherever it is, and the oldest of the rest
\* when the buffer is full.
LEMMA JitterTurn ==
  ASSUME Given("jitter"), JitterProcess
  PROVE  Turn("jitter")
  <1> DEFINE in == Taken(list, Room("jitter"))
             left == Without(list, ToSet(in))
             c == buf["jitter"]
  <1>1. PICK d \in [DOMAIN in -> JitterMin..JitterMax] :
          LET b == Enqueue(in, d) \o c
              due == JitterDue(b)
              rest == Only(b, ToSet(b) \ ToSet(due))
              f == Flushed(rest)
          IN /\ buf' = [buf EXCEPT !["jitter"] = Fore(rest, f)]
             /\ list' = Ids(Rear(rest, f) \o due) \o left
             /\ measured' = measured \cup Latencies(Rear(rest, f) \o due)
             /\ lost' = lost
    BY Zenon DEF JitterProcess, Release
  <1> DEFINE b == Enqueue(in, d) \o c
             due == JitterDue(b)
             rest == Only(b, ToSet(b) \ ToSet(due))
             f == Flushed(rest)
             keep == Fore(rest, f)
             more == Rear(rest, f)
             out == more \o due
             l == Ids(out) \o left
  <1>2. /\ in \in Seq(Id) /\ left \in Seq(Id) /\ c \in Seq(Entry)
        /\ Len(in) \in Nat /\ Len(c) \in Nat /\ Len(in) + Len(c) <= KeepAtMost
        /\ ToSet(in) \subseteq ToSet(list) \ Bypass
        /\ ToSet(left) = ToSet(list) \ ToSet(in)
        /\ IsInjective(in) /\ IsInjective(left) /\ IsInjective(Ids(c))
    BY Taking DEF Given
  <1>3. d \in [DOMAIN in -> 0..JitterMax]
    <2>1. JitterMin..JitterMax \subseteq 0..JitterMax
      BY QueuesAssumption
    <2> QED
      BY <2>1
  <1>4. /\ ToSet(in) \cap ToSet(left) = {} /\ IdsOf(c) \cap ToSet(in) = {}
        /\ IdsOf(c) \cap ToSet(left) = {}
        /\ ToSet(list) = ToSet(in) \cup ToSet(left)
        /\ ToSet(list) \cap lost = {} /\ IdsOf(c) \cap lost = {}
    BY <1>2 DEF Given, Shared
  <1>5. /\ buf' = [buf EXCEPT !["jitter"] = keep] /\ list' = l
        /\ measured' = measured \cup Latencies(out) /\ lost' = lost
    BY <1>1, Zenon
  <1> HIDE DEF in, left, c
  <1>6. /\ b \in Seq(Entry) /\ Len(b) = Len(in) + Len(c) /\ Len(b) \in Nat
        /\ Ids(b) = in \o Ids(c) /\ ToSet(b) \subseteq ToSet(c) \cup Fresh
    BY <1>2, <1>3, Enqueued DEF Given
  <1> HIDE DEF b
  <1>7. Ids(c) \in Seq(Id) /\ ToSet(Ids(c)) = IdsOf(c) /\ ToSet(Ids(b)) = IdsOf(b)
    BY <1>2, <1>6, IdsAre
  <1>8. IsInjective(Ids(b)) /\ IdsOf(b) = ToSet(in) \cup IdsOf(c)
    BY <1>2, <1>4, <1>6, <1>7, Join
  <1>9. /\ due \in Seq(Entry) /\ rest \in Seq(Entry)
        /\ ToSet(due) \subseteq ToSet(b) /\ ToSet(rest) \subseteq ToSet(b)
        /\ IsInjective(Ids(due)) /\ IsInjective(Ids(rest))
        /\ IdsOf(due) \cap IdsOf(rest) = {} /\ IdsOf(due) \cup IdsOf(rest) = IdsOf(b)
    <2> DEFINE X == {e \in ToSet(b) : clock >= e.stamp}
    <2>1. due = Only(b, X)
      BY DEF JitterDue
    <2> HIDE DEF X, due
    <2>2. /\ Only(b, X) \in Seq(Entry) /\ Only(b, ToSet(b) \ ToSet(Only(b, X))) \in Seq(Entry)
          /\ ToSet(Only(b, X)) = ToSet(b) \cap X
          /\ ToSet(Only(b, ToSet(b) \ ToSet(Only(b, X)))) = ToSet(b) \ X
          /\ IsInjective(Ids(Only(b, X)))
          /\ IsInjective(Ids(Only(b, ToSet(b) \ ToSet(Only(b, X)))))
          /\ IdsOf(Only(b, X)) \cap IdsOf(Only(b, ToSet(b) \ ToSet(Only(b, X)))) = {}
          /\ IdsOf(Only(b, X)) \cup IdsOf(Only(b, ToSet(b) \ ToSet(Only(b, X)))) = IdsOf(b)
      BY <1>6, <1>8, Parted
    <2> QED
      BY <2>1, <2>2
  <1>10. Len(rest) \in Nat /\ Len(rest) <= KeepAtMost
    <2>1. Len(rest) \in Nat /\ Len(rest) <= Len(b)
      BY <1>6, OnlyLength
    <2> HIDE DEF rest
    <2> QED
      BY <1>2, <1>6, <2>1, QueuesAssumption
  <1> HIDE DEF due, rest
  <1>11. f \in 0..Len(rest) /\ Len(rest) - f < KeepAtMost
    BY <1>10, QueuesAssumption DEF Flushed
  <1> HIDE DEF f
  <1>12. /\ keep \in Seq(Entry) /\ more \in Seq(Entry) /\ Len(keep) = Len(rest) - f
         /\ ToSet(keep) \subseteq ToSet(rest) /\ ToSet(more) \subseteq ToSet(rest)
    BY <1>9, <1>11, Ends, EndsWithin
  <1>13. Ids(keep) = Fore(Ids(rest), f) /\ Ids(more) = Rear(Ids(rest), f)
    BY <1>9, <1>11, IdsOfEnds
  <1> HIDE DEF keep, more
  <1>14. /\ Ids(rest) \in Seq(Id) /\ f \in 0..Len(Ids(rest)) /\ ToSet(Ids(rest)) = IdsOf(rest)
         /\ Ids(due) \in Seq(Id) /\ ToSet(Ids(due)) = IdsOf(due)
         /\ Ids(keep) \in Seq(Id) /\ ToSet(Ids(keep)) = IdsOf(keep)
         /\ Ids(more) \in Seq(Id) /\ ToSet(Ids(more)) = IdsOf(more)
    BY <1>9, <1>11, <1>12, IdsAre
  <1>15. /\ IdsOf(keep) \cup IdsOf(more) = IdsOf(rest)
         /\ IsInjective(Ids(keep)) /\ IsInjective(Ids(more)) /\ IdsOf(keep) \cap IdsOf(more) = {}
    BY <1>9, <1>13, <1>14, Cut
  <1>16. /\ out \in Seq(Entry) /\ ToSet(out) \subseteq ToSet(c) \cup Fresh
         /\ Ids(out) = Ids(more) \o Ids(due)
    BY <1>6, <1>9, <1>12, ConcatProperties, JoinWithin, IdsOfJoin
  <1>17. /\ Ids(out) \in Seq(Id) /\ ToSet(Ids(out)) = IdsOf(more) \cup IdsOf(due)
         /\ IsInjective(Ids(out))
    <2>1. ToSet(Ids(more)) \cap ToSet(Ids(due)) = {}
      BY <1>9, <1>14, <1>15
    <2> QED
      BY <1>9, <1>14, <1>15, <1>16, <2>1, Join
  <1> HIDE DEF out
  <1>18. /\ l \in Seq(Id) /\ ToSet(l) = IdsOf(more) \cup IdsOf(due) \cup ToSet(left)
         /\ IsInjective(l)
    <2>1. ToSet(Ids(out)) \cap ToSet(left) = {}
      BY <1>4, <1>8, <1>9, <1>15, <1>17
    <2> QED
      BY <1>2, <1>17, <2>1, Join
  <1> HIDE DEF l
  <1>19. Shared(l, keep, lost, ToSet(list) \cup IdsOf(c) \cup lost)
    BY <1>4, <1>8, <1>9, <1>15, <1>18 DEF Shared
  <1>20. buf'["jitter"] = keep /\ buf' = [buf EXCEPT !["jitter"] = buf'["jitter"]]
    BY <1>5 DEF Given
  <1>21. Latencies(out) \subseteq Waits(ToSet(c) \cup Fresh)
    BY <1>16, LatenciesAre
  <1>22. Len(keep) < Limit("jitter")
    BY <1>11, <1>12, QueuesAssumption DEF Limit
  <1>23. ToSet(keep) \subseteq ToSet(c) \cup Fresh
    BY <1>6, <1>9, <1>12
  <1> QED
    BY <1>5, <1>12, <1>18, <1>19, <1>20, <1>21, <1>22, <1>23 DEF Turn, Given, c

\* An empty buffer.
LEMMA EmptyBuffer ==
  /\ <<>> \in Seq(Entry) /\ Len(<<>>) = 0 /\ IdsOf(<<>>) = {} /\ ToSet(<<>>) = {}
  /\ IsInjective(Ids(<<>>)) /\ Decreasing(Ids(<<>>))
  BY EmptySeq DEF Ids, IdsOf, ToSet, IsInjective, Decreasing

\* What makes a turn, for a module that measures nothing.
LEMMA TurnIs ==
  ASSUME NEW m, Given(m), NEW k \in Seq(Entry), buf' = [buf EXCEPT ![m] = k],
         list' \in Seq(Id), lost' \subseteq Id, Len(k) < Limit(m),
         Shared(list', k, lost', ToSet(list) \cup IdsOf(buf[m]) \cup lost),
         ToSet(k) \subseteq ToSet(buf[m]) \cup Fresh, measured' = measured
  PROVE  Turn(m)
  <1>1. buf'[m] = k
    BY DEF Given
  <1> QED
    BY <1>1 DEF Turn

LEMMA EmptyIsShort == ASSUME NEW m PROVE Len(<<>>) < Limit(m) /\ KeepAtMost <= Limit(m)
  BY QueuesAssumption, EmptyBuffer DEF Limit

\* Nothing happens, or the list passes by an empty buffer.
LEMMA UnchangedTurn ==
  ASSUME NEW m, Given(m), UNCHANGED <<list, buf, lost, measured>>
  PROVE  Turn(m) /\ (buf[m] = <<>> => Orderly(m))
  <1>1. Turn(m)
    BY DEF Turn, Given
  <1>2. buf[m] = <<>> => Orderly(m)
    BY EmptyBuffer DEF Orderly, Passing, Newer
  <1> QED
    BY <1>1, <1>2

\* throttleProcess: everything is kept, or everything leaves at the tail of the list
\* or into nothing.
LEMMA ThrottleTurn ==
  ASSUME Given("throttle"), ThrottleProcess
  PROVE  /\ Turn("throttle")
         /\ (frameFrom = 0 => buf["throttle"] = <<>>) => Orderly("throttle")
  <1> DEFINE in == Taken(list, Room("throttle"))
             left == Without(list, ToSet(in))
             c == buf["throttle"]
             d == NoDelay(in)
             b == Enqueue(in, d) \o c
             from == IF frameFrom = 0 THEN clock ELSE frameFrom
             over == left \o Ids(b)
  <1>1. CASE ThrottleRests
    BY <1>1, UnchangedTurn DEF ThrottleRests
  <1>2. CASE ThrottleFills
    <2>1. /\ measured' = measured
          /\ \/ /\ ~ThrottleOver(b, from)
                /\ buf' = [buf EXCEPT !["throttle"] = b] /\ list' = left /\ lost' = lost
             \/ /\ buf' = [buf EXCEPT !["throttle"] = <<>>]
                /\ list' = over /\ lost' = lost
             \/ /\ buf' = [buf EXCEPT !["throttle"] = <<>>]
                /\ list' = left /\ lost' = lost \cup IdsOf(b)
      BY <1>2, Zenon DEF ThrottleFills
    <2>2. /\ in \in Seq(Id) /\ left \in Seq(Id) /\ c \in Seq(Entry)
          /\ Len(in) \in Nat /\ Len(c) \in Nat /\ Len(in) + Len(c) <= KeepAtMost
          /\ ToSet(in) \subseteq ToSet(list) \ Bypass
          /\ ToSet(left) = ToSet(list) \ ToSet(in)
          /\ IsInjective(in) /\ IsInjective(left) /\ IsInjective(Ids(c))
          /\ Decreasing(list) => /\ Decreasing(in) /\ Decreasing(left)
                                 /\ Newer(ToSet(left), ToSet(in))
          /\ Len(in) + Len(c) < KeepAtMost => ToSet(left) \subseteq Bypass
          /\ d \in [DOMAIN in -> 0..JitterMax]
          /\ Newer(ToSet(list), IdsOf(c)) => Newer(ToSet(in), IdsOf(c))
      BY Taking DEF Given
    <2>3. /\ ToSet(in) \cap ToSet(left) = {} /\ IdsOf(c) \cap ToSet(in) = {}
          /\ IdsOf(c) \cap ToSet(left) = {}
          /\ ToSet(list) = ToSet(in) \cup ToSet(left)
          /\ ToSet(list) \cap lost = {} /\ IdsOf(c) \cap lost = {} /\ lost \subseteq Id
      BY <2>2 DEF Given, Shared
    <2> HIDE DEF in, left, c, d
    <2>4. /\ b \in Seq(Entry) /\ Len(b) = Len(in) + Len(c) /\ Len(b) \in Nat
          /\ Ids(b) = in \o Ids(c) /\ ToSet(b) \subseteq ToSet(c) \cup Fresh
      BY <2>2, Enqueued DEF Given
    <2> HIDE DEF b
    <2>5. /\ Ids(c) \in Seq(Id) /\ ToSet(Ids(c)) = IdsOf(c)
          /\ Ids(b) \in Seq(Id) /\ ToSet(Ids(b)) = IdsOf(b)
      BY <2>2, <2>4, IdsAre
    <2>6. /\ IsInjective(Ids(b)) /\ IdsOf(b) = ToSet(in) \cup IdsOf(c)
          /\ Decreasing(in) /\ Decreasing(Ids(c)) /\ Newer(ToSet(in), IdsOf(c)) => Decreasing(Ids(b))
      BY <2>2, <2>3, <2>4, <2>5, Join
    <2>7. CASE /\ ~ThrottleOver(b, from)
               /\ buf' = [buf EXCEPT !["throttle"] = b] /\ list' = left /\ lost' = lost
      <3>1. Len(b) < KeepAtMost
        BY <2>4, <2>7, QueuesAssumption DEF ThrottleOver
      <3>2. buf'["throttle"] = b
        BY <2>7 DEF Given
      <3>3. Shared(left, b, lost, ToSet(list) \cup IdsOf(c) \cup lost)
        BY <2>2, <2>3, <2>6 DEF Shared
      <3>4. Turn("throttle")
        <4>1. Len(b) < Limit("throttle")
          BY <2>4, <3>1, EmptyIsShort, QueuesAssumption DEF Limit
        <4> QED
          BY <2>1, <2>2, <2>3, <2>4, <2>7, <3>3, <4>1, TurnIs DEF c
      <3>5. ToSet(left) \subseteq Bypass
        BY <2>2, <2>4, <3>1
      <3>6. Newer(IdsOf(b), ToSet(left))
        BY <3>5 DEF Newer
      <3>7. Orderly("throttle")
        BY <2>2, <2>6, <2>7, <3>2, <3>6 DEF Orderly, Passing, c
      <3> QED
        BY <3>4, <3>7
    <2>8. CASE /\ buf' = [buf EXCEPT !["throttle"] = <<>>]
               /\ list' = over /\ lost' = lost
      <3>1. buf'["throttle"] = <<>>
        BY <2>8 DEF Given
      <3>2. ToSet(left) \cap ToSet(Ids(b)) = {}
        BY <2>3, <2>5, <2>6
      <3>3. /\ over \in Seq(Id) /\ ToSet(over) = ToSet(left) \cup IdsOf(b) /\ IsInjective(over)
            /\ Decreasing(left) /\ Decreasing(Ids(b)) /\ Newer(ToSet(left), IdsOf(b)) =>
                 Decreasing(over)
        BY <2>2, <2>5, <2>6, <3>2, Join
      <3> HIDE DEF over
      <3>4. Shared(over, <<>>, lost, ToSet(list) \cup IdsOf(c) \cup lost)
        BY <2>3, <2>6, <3>3, EmptyBuffer DEF Shared
      <3>5. Turn("throttle")
        <4>1. <<>> \in Seq(Entry) /\ ToSet(<<>>) \subseteq ToSet(c) \cup Fresh
          BY EmptyBuffer
        <4> QED
          BY <2>1, <2>3, <2>8, <3>3, <3>4, <4>1, EmptyIsShort, TurnIs DEF c
      <3>6. ASSUME Decreasing(list), Newer(ToSet(list), IdsOf(c))
            PROVE  Newer(ToSet(left), IdsOf(b))
        BY <2>2, <2>3, <2>6, <3>6 DEF Newer
      <3>7. Orderly("throttle")
        BY <2>2, <2>6, <2>8, <3>1, <3>3, <3>6, EmptyBuffer DEF Orderly, Passing, Newer, c
      <3> QED
        BY <3>5, <3>7
    <2>9. CASE /\ buf' = [buf EXCEPT !["throttle"] = <<>>]
               /\ list' = left /\ lost' = lost \cup IdsOf(b)
      <3>1. buf'["throttle"] = <<>>
        BY <2>9 DEF Given
      <3>2. IdsOf(b) \subseteq Id
        BY <2>4, IdsAre
      <3>3. Shared(left, <<>>, lost \cup IdsOf(b), ToSet(list) \cup IdsOf(c) \cup lost)
        BY <2>2, <2>3, <2>6, EmptyBuffer DEF Shared
      <3>4. Turn("throttle")
        <4>1. <<>> \in Seq(Entry) /\ ToSet(<<>>) \subseteq ToSet(c) \cup Fresh
          BY EmptyBuffer
        <4>2. list' \in Seq(Id) /\ lost' \subseteq Id
          BY <2>2, <2>3, <2>9, <3>2
        <4>3. Shared(list', <<>>, lost', ToSet(list) \cup IdsOf(c) \cup lost)
          BY <2>9, <3>3
        <4> QED
          BY <2>1, <2>9, <4>1, <4>2, <4>3, EmptyIsShort, TurnIs DEF c
      <3>5. Orderly("throttle")
        BY <2>2, <2>9, <3>1, EmptyBuffer DEF Orderly, Passing, Newer
      <3> QED
        BY <3>4, <3>5
    <2> QED
      BY <2>1, <2>7, <2>8, <2>9
  <1> QED
    BY <1>1, <1>2 DEF ThrottleProcess

\* A shuffled buffer has all ids, each once.
LEMMA Shuffle ==
  ASSUME NEW S \in SUBSET Id, NEW perm \in SetToSeqs(S)
  PROVE  perm \in Seq(Id) /\ IsInjective(perm) /\ ToSet(perm) = S
  <1> DEFINE n == Cardinality(S)
  <1>1. IsFiniteSet(Id)
    BY QueuesAssumption, FS_Interval DEF Id
  <1>2. IsFiniteSet(S)
    BY <1>1, FS_Subset
  <1>3. n \in Nat
    BY <1>2, FS_CardinalityType
  <1>4. perm \in [1..n -> S] /\ \A i, j \in 1..n : i # j => perm[i] # perm[j]
    BY DEF SetToSeqs
  <1> HIDE DEF n
  <1>5. perm \in Injection(1..n, S)
    BY <1>4 DEF Injection, IsInjective
  <1>6. IsFiniteSet(1..n) /\ Cardinality(1..n) = n
    BY <1>3, FS_Interval
  <1>7. perm \in Surjection(1..n, S)
    BY <1>2, <1>5, <1>6, FS_Injection DEF n
  <1>8. ToSet(perm) = S
    BY <1>4, <1>7 DEF Surjection, ToSet
  <1>9. perm \in Seq(Id)
    BY <1>3, <1>4
  <1> QED
    BY <1>4, <1>8, <1>9 DEF IsInjective

\* oodProcess: some packets are put aside, and a full or old buffer leaves, shuffled,
\* at the head of the list.
LEMMA OodTurn ==
  ASSUME Given("ood"), OodProcess
  PROVE  Turn("ood")
  <1> DEFINE c == buf["ood"]
  <1>1. PICK S \in SUBSET ToSet(Matching(list)) :
          LET in == Only(list, S)
              b == Enqueue(in, NoDelay(in)) \o c
              left == Without(list, S)
          IN /\ lost' = lost /\ measured' = measured
             /\ IF Len(b) >= OodBuffer \/ OodOld(b)
                THEN /\ \E perm \in SetToSeqs(IdsOf(b)) : list' = perm \o left
                     /\ buf' = [buf EXCEPT !["ood"] = <<>>]
                ELSE list' = left /\ buf' = [buf EXCEPT !["ood"] = b]
    BY Zenon DEF OodProcess
  <1> DEFINE in == Only(list, S)
             d == NoDelay(in)
             b == Enqueue(in, d) \o c
             left == Without(list, S)
  <1>2. \/ /\ Len(b) < OodBuffer
           /\ list' = left /\ buf' = [buf EXCEPT !["ood"] = b]
        \/ \E perm \in SetToSeqs(IdsOf(b)) :
             list' = perm \o left /\ buf' = [buf EXCEPT !["ood"] = <<>>]
    <2>1. CASE Len(b) >= OodBuffer \/ OodOld(b)
      BY <1>1, <2>1, Zenon
    <2>2. CASE ~(Len(b) >= OodBuffer \/ OodOld(b))
      <3>1. list' = left /\ buf' = [buf EXCEPT !["ood"] = b]
        BY <1>1, <2>2, Zenon
      <3>2. Len(b) \in Nat
        <4>1. list \in Seq(Id) /\ c \in Seq(Entry) /\ clock \in 0..Modulus-1
          BY DEF Given
        <4>2. in \in Seq(Id)
          BY <4>1, OnlyFacts
        <4>3. d \in [DOMAIN in -> 0..JitterMax]
          BY QueuesAssumption DEF NoDelay
        <4> HIDE DEF in, d, c
        <4> QED
          BY <4>1, <4>2, <4>3, Enqueued
      <3>3. Len(b) < OodBuffer
        <4> HIDE DEF b
        <4> QED
          BY <2>2, <3>2, QueuesAssumption
      <3> QED
        BY <3>1, <3>3
    <2> QED
      BY <2>1, <2>2
  <1>3. /\ in \in Seq(Id) /\ left \in Seq(Id) /\ c \in Seq(Entry)
        /\ ToSet(in) \subseteq ToSet(list) /\ ToSet(left) = ToSet(list) \ ToSet(in)
        /\ IsInjective(in) /\ IsInjective(left) /\ IsInjective(Ids(c))
    <2>1. list \in Seq(Id) /\ IsInjective(list) /\ IsInjective(Ids(c)) /\ c \in Seq(Entry)
      BY DEF Given, Shared
    <2>2. /\ in \in Seq(Id) /\ ToSet(in) = ToSet(list) \cap S
          /\ left \in Seq(Id) /\ ToSet(left) = ToSet(list) \cap (ToSet(list) \ S)
          /\ IsInjective(in) /\ IsInjective(left)
      BY <2>1, OnlyFacts DEF Without
    <2> HIDE DEF in, left
    <2> QED
      BY <2>1, <2>2
  <1>4. d \in [DOMAIN in -> 0..JitterMax]
    BY QueuesAssumption DEF NoDelay
  <1>5. /\ ToSet(in) \cap ToSet(left) = {} /\ IdsOf(c) \cap ToSet(in) = {}
        /\ IdsOf(c) \cap ToSet(left) = {}
        /\ ToSet(list) = ToSet(in) \cup ToSet(left)
        /\ ToSet(list) \cap lost = {} /\ IdsOf(c) \cap lost = {} /\ lost \subseteq Id
    BY <1>3 DEF Given, Shared
  <1>6. lost' = lost /\ measured' = measured
    BY <1>1, Zenon
  <1> HIDE DEF in, left, c, d
  <1>7. /\ b \in Seq(Entry) /\ Len(b) \in Nat
        /\ Ids(b) = in \o Ids(c) /\ ToSet(b) \subseteq ToSet(c) \cup Fresh
    BY <1>3, <1>4, Enqueued DEF Given
  <1> HIDE DEF b
  <1>8. /\ Ids(c) \in Seq(Id) /\ ToSet(Ids(c)) = IdsOf(c) /\ IdsOf(b) \subseteq Id
        /\ ToSet(Ids(b)) = IdsOf(b)
    BY <1>3, <1>7, IdsAre
  <1>9. IsInjective(Ids(b)) /\ IdsOf(b) = ToSet(in) \cup IdsOf(c)
    BY <1>3, <1>5, <1>7, <1>8, Join
  <1>10. CASE Len(b) < OodBuffer /\ list' = left /\ buf' = [buf EXCEPT !["ood"] = b]
    <2>1. Len(b) < Limit("ood")
      BY <1>7, <1>10, QueuesAssumption DEF Limit
    <2>2. Shared(left, b, lost, ToSet(list) \cup IdsOf(c) \cup lost)
      BY <1>3, <1>5, <1>9 DEF Shared
    <2> QED
      BY <1>3, <1>5, <1>6, <1>7, <1>10, <2>1, <2>2, TurnIs DEF c
  <1>11. ASSUME NEW perm \in SetToSeqs(IdsOf(b)), list' = perm \o left,
                buf' = [buf EXCEPT !["ood"] = <<>>]
         PROVE  Turn("ood")
    <2>1. perm \in Seq(Id) /\ IsInjective(perm) /\ ToSet(perm) = IdsOf(b)
      BY <1>8, Shuffle
    <2>2. ToSet(perm) \cap ToSet(left) = {}
      BY <1>5, <1>9, <2>1
    <2>3. /\ list' \in Seq(Id) /\ ToSet(list') = IdsOf(b) \cup ToSet(left) /\ IsInjective(list')
      BY <1>3, <1>11, <2>1, <2>2, Join
    <2>4. Shared(list', <<>>, lost, ToSet(list) \cup IdsOf(c) \cup lost)
      BY <1>5, <1>9, <2>3, EmptyBuffer DEF Shared
    <2>5. <<>> \in Seq(Entry) /\ ToSet(<<>>) \subseteq ToSet(c) \cup Fresh
      BY EmptyBuffer
    <2> QED
      BY <1>5, <1>6, <1>11, <2>3, <2>4, <2>5, EmptyIsShort, TurnIs DEF c
  <1> QED
    BY <1>2, <1>10, <1>11 DEF b

\* bandwidthProcess: what finds no room is freed, what can be paid for goes on.
LEMMA BandwidthTurn ==
  ASSUME Given("bandwidth"), BandwidthProcess
  PROVE  Turn("bandwidth") /\ Orderly("bandwidth")
  <1> DEFINE M == ToSet(Matching(list))
             in == Taken(list, Room("bandwidth"))
             left == Without(list, M)
             c == buf["bandwidth"]
             d == NoDelay(in)
             b == Enqueue(in, d) \o c
  <1>1. PICK n \in 0..Len(b) :
          /\ buf' = [buf EXCEPT !["bandwidth"] = Fore(b, n)]
          /\ list' = Ids(Rear(b, n)) \o left
          /\ measured' = measured \cup {}
          /\ lost' = lost \cup (M \ ToSet(in))
    <2>1. "bandwidth" \notin {"lag", "jitter"}
      OBVIOUS
    <2> QED
      BY <2>1, Zenon DEF BandwidthProcess, Release
  <1> DEFINE l == Ids(Rear(b, n)) \o left
             keep == Fore(b, n)
             over == M \ ToSet(in)
  <1>2. /\ in \in Seq(Id) /\ c \in Seq(Entry)
        /\ Len(in) \in Nat /\ Len(c) \in Nat /\ Len(in) + Len(c) <= KeepAtMost
        /\ ToSet(in) \subseteq ToSet(list) \ Bypass
        /\ IsInjective(in) /\ IsInjective(Ids(c))
        /\ Decreasing(list) => Decreasing(in)
        /\ d \in [DOMAIN in -> 0..JitterMax]
        /\ Newer(ToSet(list), IdsOf(c)) => Newer(ToSet(in), IdsOf(c))
    BY Taking DEF Given
  <1>3. /\ M = ToSet(list) \ Bypass
        /\ left \in Seq(Id) /\ ToSet(left) = ToSet(list) \ M
        /\ IsInjective(left) /\ (Decreasing(list) => Decreasing(left))
    <2>1. list \in Seq(Id) /\ IsInjective(list) /\ ToSet(list) \subseteq Id
      BY LenProperties DEF Given, Shared, ToSet
    <2>2. M = ToSet(list) \cap (Id \ Bypass)
      BY <2>1, OnlyFacts DEF Matching
    <2> HIDE DEF M
    <2>3. /\ left \in Seq(Id) /\ ToSet(left) = ToSet(list) \cap (ToSet(list) \ M)
          /\ IsInjective(left) /\ (Decreasing(list) => Decreasing(left))
      BY <2>1, OnlyFacts DEF Without
    <2> QED
      BY <2>1, <2>2, <2>3
  <1> HIDE DEF M, in, left, c, d
  <1>4. /\ ToSet(in) \cap ToSet(left) = {} /\ IdsOf(c) \cap ToSet(in) = {}
        /\ IdsOf(c) \cap ToSet(left) = {} /\ ToSet(left) \subseteq Bypass
        /\ over \cap ToSet(in) = {} /\ over \cap ToSet(left) = {} /\ over \cap IdsOf(c) = {}
        /\ ToSet(list) = ToSet(in) \cup ToSet(left) \cup over
        /\ ToSet(list) \cap lost = {} /\ IdsOf(c) \cap lost = {} /\ lost \subseteq Id
        /\ over \subseteq Id
    <2>1. ToSet(list) \subseteq Id
      BY LenProperties DEF Given, ToSet
    <2> QED
      BY <1>2, <1>3, <2>1 DEF Given, Shared, c
  <1>5. b \in Seq(Entry) /\ Len(b) = Len(in) + Len(c) /\ Len(b) \in Nat
    BY <1>2, Enqueued DEF Given
  <1>6. Entering(in, left, c, d)
    BY <1>2, <1>3, <1>4 DEF Entering, Given
  <1> HIDE DEF over
  <1>7. /\ Leaving(in, left, c, keep, Rear(b, n), l)
        /\ /\ Decreasing(in) /\ Decreasing(left) /\ Decreasing(Ids(c))
           /\ Newer(ToSet(in), IdsOf(c)) /\ ToSet(left) \subseteq Bypass
           => Passing(l, keep)
    BY <1>6, Through
  <1>8. Len(keep) < Limit("bandwidth")
    <2>1. Len(keep) = Len(b) - n
      BY <1>5, Ends
    <2> HIDE DEF b
    <2> QED
      BY <1>2, <1>5, <2>1, QueuesAssumption DEF Limit
  <1> HIDE DEF b, l, keep
  <1>9. buf' = [buf EXCEPT !["bandwidth"] = keep] /\ list' = l /\ lost' = lost \cup over
        /\ measured' = measured
    BY <1>1 DEF keep, l, over
  <1>10. Shared(l, keep, lost \cup over, ToSet(list) \cup IdsOf(c) \cup lost)
    BY <1>4, <1>7 DEF Leaving, Shared
  <1>11. /\ keep \in Seq(Entry) /\ ToSet(keep) \subseteq ToSet(c) \cup Fresh
         /\ list' \in Seq(Id) /\ lost' \subseteq Id
         /\ Shared(list', keep, lost', ToSet(list) \cup IdsOf(c) \cup lost)
    BY <1>4, <1>7, <1>9, <1>10 DEF Leaving
  <1>12. Turn("bandwidth")
    BY <1>8, <1>9, <1>11, TurnIs DEF c
  <1>13. buf'["bandwidth"] = keep
    BY <1>9 DEF Given
  <1>14. Orderly("bandwidth")
    BY <1>2, <1>3, <1>4, <1>7, <1>9, <1>13 DEF Orderly, c
  <1> QED
    BY <1>12, <1>14

\* Packets freed on their way, past an empty buffer.
LEMMA FreeTurn ==
  ASSUME NEW m, Given(m), NEW S \in SUBSET ToSet(Matching(list)), Free(S)
  PROVE  Turn(m) /\ (buf[m] = <<>> => Orderly(m))
  <1>1. /\ list' = Without(list, S) /\ lost' = lost \cup S /\ buf' = buf /\ measured' = measured
    BY DEF Free
  <1>2. /\ list \in Seq(Id) /\ IsInjective(list) /\ ToSet(list) \subseteq Id
    BY LenProperties DEF Given, Shared, ToSet
  <1>3. S \subseteq ToSet(list)
    BY <1>2, OnlyFacts DEF Matching
  <1>4. /\ list' \in Seq(Id) /\ ToSet(list') = ToSet(list) \cap (ToSet(list) \ S)
        /\ IsInjective(list') /\ (Decreasing(list) => Decreasing(list'))
    BY <1>1, <1>2, OnlyFacts DEF Without
  <1>5. Shared(list', buf[m], lost', ToSet(list) \cup IdsOf(buf[m]) \cup lost)
    BY <1>1, <1>3, <1>4 DEF Given, Shared
  <1>6. buf' = [buf EXCEPT ![m] = buf[m]] /\ lost' \subseteq Id
    BY <1>1, <1>2, <1>3 DEF Given
  <1>7. Turn(m)
    BY <1>1, <1>4, <1>5, <1>6, TurnIs DEF Given
  <1>8. buf[m] = <<>> => Orderly(m)
    BY <1>1, <1>4, EmptyBuffer DEF Orderly, Passing, Newer
  <1> QED
    BY <1>7, <1>8

\* closeDown: everything leaves at the tail of the list.
LEMMA CloseTurn ==
  ASSUME NEW m, Given(m), CloseDown(m)
  PROVE  Turn(m) /\ Orderly(m) /\ buf'[m] = <<>>
  <1> DEFINE c == buf[m]
             l == list \o Ids(c)
  <1>1. /\ list' = l /\ buf' = [buf EXCEPT ![m] = <<>>] /\ lost' = lost /\ measured' = measured
    BY DEF CloseDown
  <1>2. /\ list \in Seq(Id) /\ Ids(c) \in Seq(Id) /\ ToSet(Ids(c)) = IdsOf(c)
        /\ IsInjective(list) /\ IsInjective(Ids(c)) /\ ToSet(list) \cap ToSet(Ids(c)) = {}
        /\ ToSet(list) \cap lost = {} /\ IdsOf(c) \cap lost = {} /\ lost \subseteq Id
    BY IdsAre DEF Given, Shared
  <1> HIDE DEF c
  <1>3. /\ l \in Seq(Id) /\ ToSet(l) = ToSet(list) \cup IdsOf(c) /\ IsInjective(l)
        /\ Decreasing(list) /\ Decreasing(Ids(c)) /\ Newer(ToSet(list), IdsOf(c)) => Decreasing(l)
    BY <1>2, Join
  <1> HIDE DEF l
  <1>4. Shared(l, <<>>, lost, ToSet(list) \cup IdsOf(c) \cup lost)
    BY <1>2, <1>3, EmptyBuffer DEF Shared
  <1>5. <<>> \in Seq(Entry) /\ ToSet(<<>>) \subseteq ToSet(c) \cup Fresh
    BY EmptyBuffer
  <1>6. Turn(m)
    BY <1>1, <1>2, <1>3, <1>4, <1>5, EmptyIsShort, TurnIs DEF c
  <1>7. buf'[m] = <<>>
    BY <1>1 DEF Given
  <1>8. Orderly(m)
    BY <1>1, <1>3, <1>7, EmptyBuffer DEF Orderly, Passing, Newer, c
  <1> QED
    BY <1>6, <1>7, <1>8

------------------------------------------------------------------------------
(* The invariant.                                                           *)

\* Only a module that holds packets, and that was on when it last had its turn, has
\* some.
Emptied == \A m \in Stages : m \notin lastOn \cap Holding => buf[m] = <<>>

\* The difference of the clock's values is how long a node has waited, as far as the
\* model counts.
Measured(e) == e.waited = Longest \/ Since(clock, e.enqueued) = e.waited
Measures == MeasuredTrue /\ \A m \in Stages : \A e \in ToSet(buf[m]) : Measured(e)

\* A phase of blackout's: after a turn it has lasted as long as it may at most, and no
\* more than a late step longer before the next one.
PhaseLength == IF dark THEN Duration ELSE Gap
PhaseKnown ==
  \A i \in DOMAIN pipeline :
    pipeline[i] = "blackout" /\ "blackout" \in lastOn =>
      /\ Since(clock, phaseFrom) = phaseAge
      /\ phaseAge < PhaseLength + (IF i < stage THEN late ELSE MaxLate)

IInv == TypeOK /\ Conserved /\ Bounded /\ Emptied /\ Measures /\ PhaseKnown

\* In the order of modules[], and each once.
LEMMA PipelineIs ==
  ASSUME pipeline \in Pipelines
  PROVE  /\ pipeline \in Seq(Module) /\ DOMAIN pipeline = 1..Len(pipeline) /\ Len(pipeline) \in Nat
         /\ Stages \subseteq Module /\ \A i \in DOMAIN pipeline : pipeline[i] \in Stages
         /\ \A m \in Stages : \E i \in DOMAIN pipeline : pipeline[i] = m
         /\ \A i, j \in DOMAIN pipeline : pipeline[i] = pipeline[j] => i = j
         /\ \A i \in DOMAIN pipeline : pipeline[i] = "lag" => i = 1
  <1>1. pipeline \in Seq(Module) /\ InOrderOfModules(pipeline)
    BY QueuesAssumption
  <1>2. DOMAIN pipeline = 1..Len(pipeline) /\ Len(pipeline) \in Nat
    BY <1>1, LenProperties
  <1>3. /\ Stages \subseteq Module /\ \A i \in DOMAIN pipeline : pipeline[i] \in Stages
        /\ \A m \in Stages : \E i \in DOMAIN pipeline : pipeline[i] = m
    BY <1>1, <1>2 DEF Stages, ToSet
  <1>4. ASSUME NEW i \in DOMAIN pipeline, NEW j \in DOMAIN pipeline, i < j
        PROVE  pipeline[i] # pipeline[j] /\ pipeline[j] # "lag"
    <2>1. PICK k, l \in DOMAIN Order : k < l /\ pipeline[i] = Order[k] /\ pipeline[j] = Order[l]
      BY <1>1, <1>4 DEF InOrderOfModules
    <2>2. \A k1, l1 \in DOMAIN Order : k1 < l1 => Order[k1] # Order[l1] /\ Order[l1] # "lag"
      <3>1. DOMAIN Order = 1..7
        BY DEF Order
      <3> QED
        BY <3>1 DEF Order
    <2> QED
      BY <2>1, <2>2
  <1>5. \A i, j \in DOMAIN pipeline : pipeline[i] = pipeline[j] => i = j
    BY <1>2, <1>4
  <1>6. ASSUME NEW i \in DOMAIN pipeline, pipeline[i] = "lag" PROVE i = 1
    <2>1. 1 \in DOMAIN pipeline
      BY <1>2
    <2> QED
      BY <1>2, <1>4, <1>6, <2>1
  <1> QED
    BY <1>1, <1>2, <1>3, <1>5, <1>6

\* Where the packets are, without cases.
LEMMA Ats ==
  /\ At("list") = ToSet(list) /\ At("sent") = ToSet(sent) /\ At("lost") = lost
  /\ Stages \subseteq Module => \A m \in Stages : At(m) = IdsOf(buf[m])
  <1>1. \A m \in Module : m # "list" /\ m # "sent" /\ m # "lost"
    BY DEF Module, Holding
  <1> QED
    BY <1>1 DEF At

LEMMA AtsNext ==
  /\ At("list")' = ToSet(list') /\ At("sent")' = ToSet(sent') /\ At("lost")' = lost'
  /\ Stages \subseteq Module => \A m \in Stages : At(m)' = IdsOf(buf'[m])
  <1>1. \A m \in Module : m # "list" /\ m # "sent" /\ m # "lost"
    BY DEF Module, Holding
  <1> QED
    BY <1>1 DEF At

\* The places are told apart.
LEMMA PlacesAre ==
  ASSUME Stages \subseteq Module
  PROVE  /\ "list" \notin Stages /\ "sent" \notin Stages /\ "lost" \notin Stages
         /\ Places = Stages \cup {"list", "sent", "lost"}
  BY DEF Places, Module, Holding

\* The invariant gives every module what it needs for its turn.
LEMMA GivenHolds ==
  ASSUME IInv, NEW m \in Stages
  PROVE  Given(m) /\ m \in Module
  <1>1. Stages \subseteq Module
    BY PipelineIs DEF IInv, TypeOK
  <1>2. /\ At("list") = ToSet(list) /\ At("lost") = lost /\ At(m) = IdsOf(buf[m])
    BY <1>1, Ats
  <1>3. "list" \in Places /\ "lost" \in Places /\ m \in Places /\ m # "list" /\ m # "lost"
    BY <1>1, PlacesAre
  <1>4. Shared(list, buf[m], lost, ToSet(list) \cup IdsOf(buf[m]) \cup lost)
    <2>1. IsInjective(list) /\ IsInjective(Ids(buf[m]))
      BY DEF IInv, Conserved
    <2>2. At("list") \cap At(m) = {} /\ At("list") \cap At("lost") = {} /\ At(m) \cap At("lost") = {}
      BY <1>3 DEF IInv, Conserved
    <2> QED
      BY <1>2, <2>1, <2>2 DEF Shared
  <1>5. Len(buf[m]) < Limit(m)
    BY DEF IInv, Bounded, Limit
  <1> QED
    BY <1>1, <1>4, <1>5 DEF Given, IInv, TypeOK

\* A turn loses no packet from sight and links none twice, wherever it is.
LEMMA ConservedTurn ==
  ASSUME IInv, NEW m \in Stages, Turn(m), UNCHANGED <<sent, arrived, pipeline>>
  PROVE  Conserved'
  <1>0. Stages \subseteq Module /\ Stages' = Stages /\ Places' = Places
    BY PipelineIs DEF IInv, TypeOK, Stages, Places
  <1>1. /\ At("list") = ToSet(list) /\ At("lost") = lost /\ At("sent") = ToSet(sent)
        /\ \A n \in Stages : At(n) = IdsOf(buf[n])
    BY <1>0, Ats
  <1>2. /\ At("list")' = ToSet(list') /\ At("lost")' = lost' /\ At("sent")' = ToSet(sent)
        /\ \A n \in Stages : At(n)' = IdsOf(buf'[n])
    BY <1>0, AtsNext
  <1>3. /\ buf \in [Stages -> Seq(Entry)] /\ buf' = [buf EXCEPT ![m] = buf'[m]]
        /\ \A n \in Stages : n # m => buf'[n] = buf[n]
    BY DEF IInv, TypeOK, Turn
  <1>4. /\ "list" \notin Stages /\ "sent" \notin Stages /\ "lost" \notin Stages
        /\ Places = Stages \cup {"list", "sent", "lost"}
    BY <1>0, PlacesAre
  <1>5. /\ \A x, y \in Places : x # y => At(x) \cap At(y) = {}
        /\ UNION {At(x) : x \in Places} = 1..arrived
        /\ IsInjective(sent) /\ \A n \in Stages : IsInjective(Ids(buf[n]))
    BY DEF IInv, Conserved
  <1>6. /\ IsInjective(list') /\ IsInjective(Ids(buf'[m]))
        /\ ToSet(list') \cap IdsOf(buf'[m]) = {} /\ ToSet(list') \cap lost' = {}
        /\ IdsOf(buf'[m]) \cap lost' = {}
        /\ ToSet(list') \cup IdsOf(buf'[m]) \cup lost' = ToSet(list) \cup IdsOf(buf[m]) \cup lost
    BY DEF Turn, Shared
  <1> DEFINE T == {"list", "lost", m}
             A(x) == At(x)'
  <1>7. \A x \in Places : x \notin T => A(x) = At(x)
    BY <1>1, <1>2, <1>3, <1>4
  <1>8. /\ A("list") \cup A(m) \cup A("lost") = At("list") \cup At(m) \cup At("lost")
        /\ A("list") \cap A(m) = {} /\ A("list") \cap A("lost") = {} /\ A(m) \cap A("lost") = {}
    BY <1>1, <1>2, <1>6
  <1>9. T \subseteq Places /\ m # "list" /\ m # "lost"
    BY <1>4
  <1> HIDE DEF A
  <1>10. ASSUME NEW x \in Places, NEW y \in Places, x # y
         PROVE  A(x) \cap A(y) = {}
    <2>1. CASE x \in T /\ y \in T
      BY <1>8, <1>10, <2>1
    <2>2. CASE x \in T /\ y \notin T
      <3>1. A(x) \subseteq At("list") \cup At(m) \cup At("lost")
        BY <1>8, <2>2
      <3>2. At("list") \cap At(y) = {} /\ At(m) \cap At(y) = {} /\ At("lost") \cap At(y) = {}
        BY <1>5, <1>9, <2>2
      <3> QED
        BY <1>7, <2>2, <3>1, <3>2
    <2>3. CASE x \notin T /\ y \in T
      <3>1. A(y) \subseteq At("list") \cup At(m) \cup At("lost")
        BY <1>8, <2>3
      <3>2. At("list") \cap At(x) = {} /\ At(m) \cap At(x) = {} /\ At("lost") \cap At(x) = {}
        BY <1>5, <1>9, <2>3
      <3> QED
        BY <1>7, <2>3, <3>1, <3>2
    <2>4. CASE x \notin T /\ y \notin T
      BY <1>5, <1>7, <1>10, <2>4
    <2> QED
      BY <2>1, <2>2, <2>3, <2>4
  <1>11. UNION {A(x) : x \in Places} = UNION {At(x) : x \in Places}
    <2>1. \A p : (\E x \in T : p \in A(x)) <=> (\E x \in T : p \in At(x))
      BY <1>8
    <2>2. \A p : (\E x \in Places : p \in A(x)) <=> (\E x \in Places : p \in At(x))
      BY <1>7, <1>9, <2>1
    <2> QED
      BY <2>2
  <1>12. \A n \in Stages : IsInjective(Ids(buf'[n]))
    BY <1>3, <1>5, <1>6
  <1>13. \A x, y \in Places' : x # y => At(x)' \cap At(y)' = {}
    BY <1>0, <1>10 DEF A
  <1>14. UNION {At(x)' : x \in Places'} = 1..arrived'
    BY <1>0, <1>5, <1>11 DEF A
  <1> QED
    BY <1>0, <1>5, <1>6, <1>12, <1>13, <1>14 DEF Conserved

\* What a visit leaves alone, and that it is a turn.
LEMMA VisitTurn ==
  ASSUME IInv, NEW m \in Stages, Visit(m)
  PROVE  /\ stage \in DOMAIN pipeline /\ pipeline[stage] = m /\ stage' = stage + 1
         /\ UNCHANGED <<clock, late, on, lagTime, pipeline, arrived, sent>>
         /\ Turn(m)
  <1>1. Given(m) /\ m \in Module
    BY GivenHolds
  <1>2. /\ stage < AfterAll /\ m = pipeline[stage] /\ stage' = stage + 1
        /\ UNCHANGED <<clock, late, on, lagTime, pipeline, arrived, sent>>
    BY DEF Visit
  <1>3. stage \in DOMAIN pipeline
    <2>1. DOMAIN pipeline = 1..Len(pipeline) /\ Len(pipeline) \in Nat /\ stage \in 1..AfterAll
      BY PipelineIs DEF IInv, TypeOK
    <2> QED
      BY <1>2, <2>1 DEF AfterAll
  <1>4. Turn(m)
    <2>1. CASE \/ m = "lag" /\ LagProcess
               \/ m = "jitter" /\ JitterProcess
               \/ m = "throttle" /\ ThrottleProcess
               \/ m = "ood" /\ OodProcess
               \/ m = "bandwidth" /\ BandwidthProcess
      BY <1>1, <2>1, LagTurn, JitterTurn, ThrottleTurn, OodTurn, BandwidthTurn
    <2>2. CASE m = "burstloss" /\ BurstlossProcess
      <3>1. PICK S \in SUBSET ToSet(Matching(list)) : Free(S)
        BY <2>2 DEF BurstlossProcess
      <3> QED
        BY <1>1, <3>1, FreeTurn
    <2>3. CASE m = "blackout" /\ BlackoutProcess
      <3>1. Free(IF dark' THEN ToSet(Matching(list)) ELSE {})
        BY <2>3 DEF BlackoutProcess
      <3> QED
        BY <1>1, <3>1, FreeTurn
    <2>4. CASE CloseDown(m)
      BY <1>1, <2>4, CloseTurn
    <2>5. CASE UNCHANGED <<list, buf, lost, measured>>
      BY <1>1, <2>5, UnchangedTurn
    <2> QED
      BY <2>1, <2>2, <2>3, <2>4, <2>5 DEF Visit
  <1> QED
    BY <1>2, <1>3, <1>4

\* Every module keeps the shapes of what is not a list, and a module that is switched
\* off, or that holds nothing, has an empty buffer.
LEMMA VisitShapes ==
  ASSUME IInv, NEW m \in Stages, Visit(m)
  PROVE  /\ lastOn' \subseteq Stages /\ (m \in lastOn' <=> m \in on)
         /\ \A n \in Stages : n # m => (n \in lastOn' <=> n \in lastOn)
         /\ frameFrom' \in 0..Modulus-1
         /\ m # "throttle" => frameFrom' = frameFrom /\ forgot' = forgot
         /\ forgot' \in BOOLEAN /\ (forgot => forgot')
         /\ m \notin lastOn' \cap Holding => buf'[m] = <<>>
  <1>1. Given(m) /\ m \in Module
    BY GivenHolds
  <1>2. /\ lastOn \subseteq Stages /\ on \subseteq Stages /\ frameFrom \in 0..Modulus-1
        /\ clock \in 0..Modulus-1 /\ Modulus \in Nat \ {0} /\ forgot \in BOOLEAN
        /\ m \notin lastOn \cap Holding => buf[m] = <<>>
    BY QueuesAssumption DEF IInv, TypeOK, Emptied
  <1>3. 0 \in 0..Modulus-1
    BY <1>2
  <1>4. CASE m \in on
    <2>1. lastOn' = lastOn \cup {m}
      BY <1>4 DEF Visit
    <2>2. CASE m \in {"lag", "jitter", "ood", "bandwidth"}
      <3>1. m \in Holding
        BY <2>2 DEF Holding
      <3>2. frameFrom' = frameFrom /\ forgot' = forgot
        <4>1. \/ LagProcess \/ JitterProcess \/ OodProcess \/ BandwidthProcess
          BY <1>4, <2>2 DEF Visit
        <4> QED
          BY Zenon, <4>1 DEF LagProcess, JitterProcess, OodProcess, BandwidthProcess, frameVars
      <3> QED
        BY <1>2, <1>4, <2>1, <3>1, <3>2
    <2>3. CASE m = "throttle"
      <3>1. m \in Holding
        BY <2>3 DEF Holding
      <3>2. ThrottleProcess
        BY <1>4, <2>3 DEF Visit
      <3>3. frameFrom' \in {frameFrom, clock, 0}
        BY Zenon, <3>2 DEF ThrottleProcess, ThrottleRests, ThrottleFills, frameVars
      <3>4. forgot' \in BOOLEAN /\ (forgot => forgot')
        <4>1. \/ forgot' = forgot
              \/ \E from, c : forgot' = (forgot \/ (from = 0 /\ c # <<>>))
          BY Zenon, <3>2 DEF ThrottleProcess, ThrottleRests, ThrottleFills, frameVars
        <4> QED
          BY Zenon, <1>2, <4>1
      <3> QED
        BY <1>2, <1>3, <1>4, <2>1, <2>3, <3>1, <3>3, <3>4
    <2>4. CASE m \in {"burstloss", "blackout"}
      <3>1. m \notin Holding
        BY <2>4 DEF Holding
      <3>2. BurstlossProcess \/ BlackoutProcess
        BY <1>4, <2>4 DEF Visit
      <3>3. buf' = buf /\ frameFrom' = frameFrom /\ forgot' = forgot
        BY Zenon, <3>2 DEF BurstlossProcess, BlackoutProcess, Free, frameVars
      <3> QED
        BY <1>2, <1>4, <2>1, <3>1, <3>3
    <2> QED
      BY <1>1, <2>2, <2>3, <2>4 DEF Module, Holding
  <1>5. CASE m \in lastOn \ on
    <2>1. lastOn' = lastOn \ {m} /\ CloseDown(m)
      BY <1>5 DEF Visit
    <2>2. buf'[m] = <<>>
      BY <1>1, <2>1, CloseTurn
    <2>3. frameFrom' = (IF m = "throttle" THEN 0 ELSE frameFrom) /\ forgot' = forgot
      BY <2>1 DEF CloseDown
    <2> QED
      BY <1>2, <1>3, <1>5, <2>1, <2>2, <2>3
  <1>6. CASE m \notin on \cup lastOn
    <2>1. lastOn' = lastOn /\ buf' = buf /\ frameFrom' = frameFrom /\ forgot' = forgot
      BY <1>6 DEF Visit, frameVars
    <2> QED
      BY <1>2, <1>6, <2>1
  <1> QED
    BY <1>4, <1>5, <1>6

\* Blackout's turn, with the clock standing still: what it knows of its phase before
\* is what it tells of it afterwards, and the phase ends when it has lasted long enough.
LEMMA BlackoutTurn ==
  ASSUME IInv, BlackoutProcess,
         "blackout" \in lastOn => Since(clock, phaseFrom) = phaseAge
  PROVE  /\ dark' \in BOOLEAN /\ phaseFrom' \in 0..Modulus-1 /\ phaseAge' \in 0..Longest
         /\ trigger' = FALSE /\ burst' = burst
         /\ Since(clock, phaseFrom') = phaseAge'
         /\ phaseAge' < (IF dark' THEN Duration ELSE Gap)
         /\ "blackout" \in lastOn =>
              (dark' # dark <=> trigger \/ phaseAge >= (IF dark THEN Duration ELSE Gap))
  <1> DEFINE fresh == "blackout" \notin lastOn
             pressed == trigger /\ ~fresh
             inDark == ~fresh /\ (dark # pressed)
             from == PhaseStart(fresh, pressed)
             limit == IF inDark THEN Duration ELSE Gap
             over == Since(clock, from) >= limit
  <1>1. /\ dark' = (inDark # over) /\ trigger' = FALSE /\ burst' = burst
        /\ phaseFrom' = IF over THEN clock ELSE from
        /\ phaseAge' = IF over \/ fresh \/ pressed THEN 0 ELSE phaseAge
    BY DEF BlackoutProcess
  <1>2. /\ Duration \in Nat \ {0} /\ Gap \in Nat \ {0} /\ Modulus \in Nat \ {0}
        /\ dark \in BOOLEAN /\ trigger \in BOOLEAN
        /\ clock \in 0..Modulus-1 /\ phaseFrom \in 0..Modulus-1 /\ phaseAge \in 0..Longest
        /\ Longest \in Nat
    BY QueuesAssumption, LongestIs DEF IInv, TypeOK
  <1>3. from \in 0..Modulus-1 /\ from = IF fresh \/ pressed THEN clock ELSE phaseFrom
    BY <1>2 DEF PhaseStart
  <1>4. Since(clock, clock) = 0
    <2>1. Since(clock, clock) = clock - clock
      BY <1>2, ClockIs
    <2> QED
      BY <1>2, <2>1
  <1>5. Since(clock, from) = IF fresh \/ pressed THEN 0 ELSE phaseAge
    BY <1>3, <1>4
  <1>6. 0 \in 0..Longest /\ limit \in Nat \ {0}
    BY <1>2
  <1>7. fresh \/ pressed => ~over
    BY <1>5, <1>6
  <1>8. Since(clock, phaseFrom') = phaseAge'
    BY <1>1, <1>4, <1>5
  <1>9. dark' \in BOOLEAN /\ phaseFrom' \in 0..Modulus-1 /\ phaseAge' \in 0..Longest
    BY <1>1, <1>2, <1>3, <1>6
  <1>10. phaseAge' < (IF dark' THEN Duration ELSE Gap)
    <2>1. CASE over
      BY <1>1, <1>2, <2>1
    <2>2. CASE ~over
      <3>1. phaseAge' = Since(clock, from)
        BY <1>1, <1>5, <2>2
      <3>2. dark' = inDark
        BY <1>1, <2>2
      <3>3. Since(clock, from) < limit
        <4> DEFINE s == Since(clock, from)
        <4>1. s \in Nat
          BY <1>2, <1>5, <1>6
        <4> HIDE DEF s
        <4>2. ~(s >= limit)
          BY <2>2 DEF s
        <4>3. s < limit
          BY <1>6, <4>1, <4>2
        <4> QED
          BY <4>3 DEF s
      <3> QED
        BY <3>1, <3>2, <3>3
    <2> QED
      BY <2>1, <2>2
  <1>11. ASSUME "blackout" \in lastOn
         PROVE  dark' # dark <=> trigger \/ phaseAge >= (IF dark THEN Duration ELSE Gap)
    <2>1. CASE trigger
      <3>1. ~over /\ inDark # dark
        BY <1>2, <1>7, <1>11, <2>1
      <3> QED
        BY <1>1, <2>1, <3>1
    <2>2. CASE ~trigger
      <3>1. inDark = dark /\ ~fresh /\ ~pressed
        BY <1>2, <1>11, <2>2
      <3>2. over <=> phaseAge >= (IF dark THEN Duration ELSE Gap)
        BY <1>5, <3>1
      <3> QED
        BY <1>1, <1>2, <2>2, <3>1, <3>2
    <2> QED
      BY <2>1, <2>2
  <1> QED
    BY <1>1, <1>8, <1>9, <1>10, <1>11

\* Whatever has its turn, blackout's phase is known afterwards.
LEMMA PhaseVisit ==
  ASSUME IInv, NEW m \in Stages, Visit(m)
  PROVE  /\ dark' \in BOOLEAN /\ trigger' \in BOOLEAN /\ burst' \in BOOLEAN
         /\ phaseFrom' \in 0..Modulus-1 /\ phaseAge' \in 0..Longest
         /\ PhaseKnown'
  <1>1. /\ stage \in DOMAIN pipeline /\ pipeline[stage] = m /\ stage' = stage + 1
        /\ clock' = clock /\ late' = late /\ pipeline' = pipeline
    BY VisitTurn
  <1>2. /\ DOMAIN pipeline \subseteq Nat
        /\ \A i \in DOMAIN pipeline : pipeline[i] = m => i = stage
        /\ \A n \in Stages : \E i \in DOMAIN pipeline : pipeline[i] = n
    <2>1. pipeline \in Pipelines
      BY DEF IInv, TypeOK
    <2>2. /\ DOMAIN pipeline = 1..Len(pipeline)
          /\ \A i, j \in DOMAIN pipeline : pipeline[i] = pipeline[j] => i = j
          /\ \A n \in Stages : \E i \in DOMAIN pipeline : pipeline[i] = n
      BY <2>1, PipelineIs
    <2> QED
      BY <1>1, <2>2
  <1>3. /\ m \in Module /\ (m \in lastOn' <=> m \in on)
        /\ \A n \in Stages : n # m => (n \in lastOn' <=> n \in lastOn)
        /\ lastOn' \subseteq Stages
    BY VisitShapes, GivenHolds
  <1>4. /\ dark \in BOOLEAN /\ trigger \in BOOLEAN /\ burst \in BOOLEAN
        /\ phaseFrom \in 0..Modulus-1 /\ phaseAge \in 0..Longest
        /\ lastOn \subseteq Stages /\ late \in Nat
    BY QueuesAssumption DEF IInv, TypeOK
  <1>5. CASE m = "blackout" /\ m \in on
    <2>1. BlackoutProcess
      BY <1>5 DEF Visit
    <2>2. "blackout" \in lastOn => Since(clock, phaseFrom) = phaseAge
      BY <1>2, <1>4 DEF IInv, PhaseKnown
    <2>3. /\ dark' \in BOOLEAN /\ phaseFrom' \in 0..Modulus-1 /\ phaseAge' \in 0..Longest
          /\ trigger' = FALSE /\ burst' = burst
          /\ Since(clock, phaseFrom') = phaseAge'
          /\ phaseAge' < (IF dark' THEN Duration ELSE Gap)
      BY <2>1, <2>2, BlackoutTurn
    <2>4. phaseAge' < (IF dark' THEN Duration ELSE Gap) + late
      <3>1. phaseAge' \in Nat /\ (IF dark' THEN Duration ELSE Gap) \in Nat
        BY <2>3, QueuesAssumption, LongestIs
      <3> QED
        BY <1>4, <2>3, <3>1
    <2>5. PhaseKnown'
      <3>1. ASSUME NEW i \in DOMAIN pipeline, pipeline[i] = "blackout"
            PROVE  /\ Since(clock, phaseFrom)' = phaseAge'
                   /\ phaseAge' < (PhaseLength + (IF i < stage THEN late ELSE MaxLate))'
        <4>1. i = stage /\ i < stage' /\ late' = late
          BY <1>1, <1>2, <1>5, <3>1
        <4>2. (PhaseLength + (IF i < stage THEN late ELSE MaxLate))'
                = (IF dark' THEN Duration ELSE Gap) + late
          BY <4>1 DEF PhaseLength
        <4>3. Since(clock, phaseFrom)' = Since(clock, phaseFrom')
          BY <1>1 DEF Since
        <4> QED
          BY <2>3, <2>4, <4>2, <4>3
      <3> QED
        BY <1>1, <3>1 DEF PhaseKnown
    <2> QED
      BY <1>4, <2>3, <2>5
  <1>6. CASE m = "blackout" /\ m \notin on
    <2>1. PhaseKnown'
      BY <1>3, <1>6 DEF PhaseKnown
    <2>2. CloseDown(m) \/ UNCHANGED lossVars
      BY <1>6 DEF Visit
    <2>3. /\ UNCHANGED <<phaseFrom, phaseAge, trigger, burst>> /\ dark' \in {dark, FALSE}
      BY <1>4, <2>2 DEF CloseDown, lossVars
    <2> QED
      BY <1>4, <2>1, <2>3
  <1>7. CASE m # "blackout"
    <2>1. \/ m \in Holding /\ UNCHANGED lossVars
          \/ BurstlossProcess
          \/ CloseDown(m)
          \/ UNCHANGED lossVars
      BY <1>3, <1>7 DEF Visit, Module
    <2>2. UNCHANGED <<dark, phaseFrom, phaseAge, trigger>> /\ burst' \in BOOLEAN
      <3>1. CASE UNCHANGED lossVars
        BY <1>4, <3>1 DEF lossVars
      <3>2. CASE BurstlossProcess
        BY <1>4, <3>2 DEF BurstlossProcess
      <3>3. CASE CloseDown(m)
        BY <1>4, <1>7, <3>3 DEF CloseDown
      <3> QED
        BY <2>1, <3>1, <3>2, <3>3
    <2>3. PhaseKnown'
      <3>1. ASSUME NEW i \in DOMAIN pipeline, pipeline[i] = "blackout", "blackout" \in lastOn'
            PROVE  /\ Since(clock, phaseFrom)' = phaseAge'
                   /\ phaseAge' < (PhaseLength + (IF i < stage THEN late ELSE MaxLate))'
        <4>1. i # stage /\ "blackout" \in lastOn
          BY <1>1, <1>3, <1>7, <3>1
        <4>2. i < stage' <=> i < stage
          BY <1>1, <1>2, <4>1
        <4>3. (PhaseLength + (IF i < stage THEN late ELSE MaxLate))'
                = PhaseLength + (IF i < stage THEN late ELSE MaxLate)
          BY <1>1, <2>2, <4>2 DEF PhaseLength
        <4>4. Since(clock, phaseFrom)' = Since(clock, phaseFrom)
          BY <1>1, <2>2 DEF Since
        <4>5. /\ Since(clock, phaseFrom) = phaseAge
              /\ phaseAge < PhaseLength + (IF i < stage THEN late ELSE MaxLate)
          BY <3>1, <4>1 DEF IInv, PhaseKnown
        <4> QED
          BY <2>2, <4>3, <4>4, <4>5
      <3> QED
        BY <1>1, <3>1 DEF PhaseKnown
    <2> QED
      BY <1>4, <2>2, <2>3
  <1> QED
    BY <1>5, <1>6, <1>7

\* What a module puts in is measured rightly from the start.
LEMMA FreshMeasured ==
  ASSUME clock \in 0..Modulus-1, NEW e \in Fresh
  PROVE  Measured(e) /\ e.waited = 0 /\ Since(clock, e.enqueued) = 0
  <1>1. e.enqueued = clock /\ e.waited = 0 /\ Modulus \in Nat \ {0}
    BY QueuesAssumption DEF Fresh
  <1>2. Since(clock, clock) = clock - clock
    BY ClockIs
  <1>3. Since(clock, clock) = 0
    BY <1>1, <1>2
  <1> QED
    BY <1>1, <1>3 DEF Measured

\* A turn changes one buffer, to nodes that were there and fresh ones: what all the
\* nodes are, and what they are measured with, they go on to be.
LEMMA MeasuresTurn ==
  ASSUME IInv, NEW m \in Stages, Turn(m), UNCHANGED <<clock, pipeline>>
  PROVE  Measures'
  <1>1. /\ clock \in 0..Modulus-1 /\ buf \in [Stages -> Seq(Entry)] /\ Stages' = Stages
        /\ \A n \in Stages : \A e \in ToSet(buf[n]) : Measured(e)
        /\ \A x \in measured : x[1] = x[2] \/ x[2] = Longest
    BY DEF IInv, TypeOK, Measures, MeasuredTrue, Stages
  <1>2. /\ ToSet(buf'[m]) \subseteq ToSet(buf[m]) \cup Fresh
        /\ \A n \in Stages : n # m => buf'[n] = buf[n]
        /\ measured' \subseteq measured \cup Waits(ToSet(buf[m]) \cup Fresh)
    BY <1>1 DEF Turn
  <1>3. \A e \in ToSet(buf[m]) \cup Fresh : Measured(e)
    BY <1>1, FreshMeasured
  <1>4. \A e : Measured(e)' <=> Measured(e)
    BY DEF Measured, Since
  <1>5. ASSUME NEW n \in Stages, NEW e \in ToSet(buf'[n])
        PROVE  Measured(e)
    <2>1. CASE n = m
      BY <1>2, <1>3, <2>1
    <2>2. CASE n # m
      BY <1>1, <1>2, <2>2
    <2> QED
      BY <2>1, <2>2
  <1>6. ASSUME NEW x \in measured'
        PROVE  x[1] = x[2] \/ x[2] = Longest
    <2>1. CASE x \in measured
      BY <1>1, <2>1
    <2>2. CASE x \in Waits(ToSet(buf[m]) \cup Fresh)
      <3>1. PICK e \in ToSet(buf[m]) \cup Fresh : x = <<Since(clock, e.enqueued), e.waited>>
        BY <2>2 DEF Waits
      <3>2. x[1] = Since(clock, e.enqueued) /\ x[2] = e.waited
        BY <3>1
      <3> QED
        BY <1>3, <3>2 DEF Measured
    <2> QED
      BY <1>2, <2>1, <2>2
  <1>7. MeasuredTrue'
    BY <1>6 DEF MeasuredTrue
  <1>8. \A n \in Stages' : \A e \in ToSet(buf[n])' : Measured(e)'
    <2>1. \A n \in Stages : ToSet(buf[n])' = ToSet(buf'[n])
      BY DEF ToSet
    <2> QED
      BY <1>1, <1>4, <1>5, <2>1
  <1> QED
    BY <1>7, <1>8 DEF Measures

\* A module's turn keeps the invariant.
LEMMA VisitKeeps ==
  ASSUME IInv, NEW m \in Stages, Visit(m)
  PROVE  IInv'
  <1>1. /\ stage \in DOMAIN pipeline /\ pipeline[stage] = m /\ stage' = stage + 1
        /\ UNCHANGED <<clock, late, on, lagTime, pipeline, arrived, sent>>
        /\ Turn(m)
    BY VisitTurn
  <1>2. /\ lastOn' \subseteq Stages /\ (m \in lastOn' <=> m \in on)
        /\ \A n \in Stages : n # m => (n \in lastOn' <=> n \in lastOn)
        /\ frameFrom' \in 0..Modulus-1 /\ forgot' \in BOOLEAN
        /\ m \notin lastOn' \cap Holding => buf'[m] = <<>>
    BY VisitShapes
  <1>3. /\ dark' \in BOOLEAN /\ trigger' \in BOOLEAN /\ burst' \in BOOLEAN
        /\ phaseFrom' \in 0..Modulus-1 /\ phaseAge' \in 0..Longest
        /\ PhaseKnown'
    BY PhaseVisit
  <1>4. Stages' = Stages /\ AfterAll' = AfterAll
    BY <1>1 DEF Stages, AfterAll
  <1>5. /\ buf \in [Stages -> Seq(Entry)] /\ clock \in 0..Modulus-1
        /\ measured \subseteq (0..Modulus-1) \X (0..Longest)
        /\ stage \in 1..AfterAll
    BY DEF IInv, TypeOK
  <1>6. /\ buf' = [buf EXCEPT ![m] = buf'[m]] /\ buf'[m] \in Seq(Entry)
        /\ list' \in Seq(Id) /\ lost' \subseteq Id /\ Len(buf'[m]) < Limit(m)
        /\ measured' \subseteq measured \cup Waits(ToSet(buf[m]) \cup Fresh)
    BY <1>1 DEF Turn
  <1>7. buf' \in [Stages -> Seq(Entry)] /\ \A n \in Stages : n # m => buf'[n] = buf[n]
    BY <1>5, <1>6
  <1>8. stage' \in 1..AfterAll
    <2>1. DOMAIN pipeline = 1..Len(pipeline) /\ Len(pipeline) \in Nat
      BY PipelineIs DEF IInv, TypeOK
    <2> QED
      BY <1>1, <2>1 DEF AfterAll
  <1>9. measured' \subseteq (0..Modulus-1) \X (0..Longest)
    <2>1. ToSet(buf[m]) \cup Fresh \subseteq Entry
      BY <1>5, LenProperties DEF ToSet, Fresh
    <2>2. \A e \in Entry : Since(clock, e.enqueued) \in 0..Modulus-1 /\ e.waited \in 0..Longest
      BY <1>5, ClockIs DEF Entry
    <2>3. Waits(ToSet(buf[m]) \cup Fresh) \subseteq (0..Modulus-1) \X (0..Longest)
      BY <2>1, <2>2 DEF Waits
    <2> QED
      BY <1>5, <1>6, <2>3
  <1>10. TypeOK'
    <2>1. /\ clock' \in 0..Modulus-1 /\ late' \in 0..MaxLate /\ on' \subseteq Stages'
          /\ lagTime' \in LagTimes /\ pipeline' \in Pipelines /\ arrived' \in 0..MaxPackets
          /\ sent' \in Seq(Id) /\ stage' \in 1..AfterAll'
      BY <1>1, <1>4, <1>8 DEF IInv, TypeOK
    <2> QED
      BY <1>2, <1>3, <1>4, <1>6, <1>7, <1>9, <2>1 DEF TypeOK
  <1>11. Conserved'
    BY <1>1, ConservedTurn
  <1>12. Bounded'
    <2>1. \A n \in Stages : Len(buf[n]) < Limit(n)
      BY DEF IInv, Bounded, Limit
    <2>2. \A n \in Stages : Len(buf'[n]) < Limit(n)
      BY <1>6, <1>7, <2>1
    <2> QED
      BY <1>4, <2>2 DEF Bounded, Limit
  <1>13. Emptied'
    <2>1. \A n \in Stages : n \notin lastOn \cap Holding => buf[n] = <<>>
      BY DEF IInv, Emptied
    <2>2. ASSUME NEW n \in Stages, n \notin lastOn' \cap Holding PROVE buf'[n] = <<>>
      BY <1>2, <1>7, <2>1, <2>2
    <2> QED
      BY <1>4, <2>2 DEF Emptied
  <1>14. Measures'
    BY <1>1, MeasuresTurn
  <1> QED
    BY <1>3, <1>10, <1>11, <1>12, <1>13, <1>14 DEF IInv

------------------------------------------------------------------------------
(* The other actions.                                                       *)

\* What the buffers' nodes have in common does not depend on a step that leaves the
\* buffers and the packets' places alone.
LEMMA SamePlaces ==
  ASSUME IInv, UNCHANGED <<list, pipeline, arrived, sent, lost>>,
         NEW c, buf' = c,
         \A m \in Stages : Ids(c[m]) = Ids(buf[m]) /\ IdsOf(c[m]) = IdsOf(buf[m])
  PROVE  Conserved'
  <1>1. Stages \subseteq Module /\ Stages' = Stages /\ Places' = Places
    BY PipelineIs DEF IInv, TypeOK, Stages, Places
  <1>2. "list" \notin Stages /\ "sent" \notin Stages /\ "lost" \notin Stages
        /\ Places = Stages \cup {"list", "sent", "lost"}
    BY <1>1, PlacesAre
  <1>3. \A x \in Places : At(x)' = At(x)
    <2>1. /\ At("list")' = At("list") /\ At("lost")' = At("lost") /\ At("sent")' = At("sent")
      BY Ats, AtsNext
    <2>2. \A m \in Stages : At(m)' = At(m)
      BY <1>1, Ats, AtsNext
    <2> QED
      BY <1>2, <2>1, <2>2
  <1>4. \A m \in Stages : IsInjective(Ids(buf[m])')
    <2>1. \A m \in Stages : Ids(buf[m])' = Ids(c[m])
      BY DEF Ids
    <2> QED
      BY <2>1 DEF IInv, Conserved
  <1>5. /\ IsInjective(list) /\ IsInjective(sent)
        /\ \A x, y \in Places : x # y => At(x) \cap At(y) = {}
        /\ UNION {At(x) : x \in Places} = 1..arrived
    BY DEF IInv, Conserved
  <1>6. \A m \in Stages' : IsInjective(Ids(buf[m])')
    BY <1>1, <1>4
  <1>7. \A x, y \in Places' : x # y => At(x)' \cap At(y)' = {}
    BY <1>1, <1>3, <1>5
  <1>8. UNION {At(x)' : x \in Places'} = 1..arrived'
    <2>1. {At(x)' : x \in Places'} = {At(x) : x \in Places}
      BY <1>1, <1>3
    <2> QED
      BY <1>5, <2>1
  <1> QED
    BY <1>5, <1>6, <1>7, <1>8 DEF Conserved

\* Steps between two consume steps, of the clock loop and of the threads that set flags
\* and parameters.
LEMMA SettingsKeep ==
  ASSUME IInv,
         \/ ClockRun \/ Trigger \/ UNCHANGED vars
         \/ \E m \in Stages : Toggle(m)
         \/ \E t \in LagTimes : SetLagTime(t)
  PROVE  IInv'
  <1>1. /\ UNCHANGED <<clock, list, buf, frameFrom, forgot, pipeline, dark, phaseFrom, phaseAge,
                       burst, arrived, sent, lost, lastOn>>
        /\ measured' \in {measured, {}}
        /\ trigger' \in BOOLEAN
        /\ on' = on \/ (\E m \in Stages : on' = on \ {m} \/ on' = on \cup {m})
        /\ lagTime' \in LagTimes
        /\ \/ stage = stage' /\ late = late'
           \/ stage = AfterAll /\ stage' = 1 /\ late' = 0
    <2>1. lagTime \in LagTimes /\ trigger \in BOOLEAN
      BY DEF IInv, TypeOK
    <2>2. CASE ClockRun
      BY <2>1, <2>2 DEF ClockRun, Idle, moduleVars, frameVars, lossVars
    <2>3. CASE Trigger
      <3>1. /\ UNCHANGED <<clock, late, stage, list, buf, on, lastOn, lagTime, frameFrom, forgot,
                           pipeline, dark, phaseFrom, phaseAge, burst, arrived, sent, lost,
                           measured>>
            /\ trigger' = TRUE
        BY <2>3 DEF Trigger, moduleVars, frameVars
      <3> QED
        BY <2>1, <3>1
    <2>4. CASE UNCHANGED vars
      <3>1. UNCHANGED <<clock, late, stage, list, buf, on, lastOn, lagTime, frameFrom, forgot,
                        pipeline, dark, phaseFrom, phaseAge, trigger, burst, arrived, sent, lost,
                        measured>>
        BY <2>4 DEF vars, moduleVars, frameVars, lossVars
      <3> QED
        BY <2>1, <3>1
    <2>5. ASSUME NEW m \in Stages, Toggle(m)
          PROVE  /\ UNCHANGED <<clock, late, stage, list, buf, lastOn, lagTime, frameFrom, forgot,
                                pipeline, dark, phaseFrom, phaseAge, trigger, burst, arrived,
                                sent, lost, measured>>
                 /\ on' = on \ {m} \/ on' = on \cup {m}
      BY <2>5 DEF Toggle, frameVars, lossVars
    <2>6. ASSUME NEW t \in LagTimes, SetLagTime(t)
          PROVE  /\ UNCHANGED <<clock, late, stage, list, buf, on, lastOn, frameFrom, forgot,
                                pipeline, dark, phaseFrom, phaseAge, trigger, burst, arrived,
                                sent, lost, measured>>
                 /\ lagTime' \in LagTimes
      BY <2>6 DEF SetLagTime, frameVars, lossVars
    <2> QED
      BY <2>1, <2>2, <2>3, <2>4, <2>5, <2>6
  <1>2. Stages' = Stages /\ AfterAll' = AfterAll
    BY <1>1 DEF Stages, AfterAll
  <1>3. AfterAll \in Nat \ {0} /\ DOMAIN pipeline \subseteq 1..AfterAll - 1
    <2>1. DOMAIN pipeline = 1..Len(pipeline) /\ Len(pipeline) \in Nat
      BY PipelineIs DEF IInv, TypeOK
    <2> QED
      BY <2>1 DEF AfterAll
  <1>4. TypeOK'
    <2>1. late' \in 0..MaxLate /\ stage' \in 1..AfterAll
      <3>1. late \in 0..MaxLate /\ stage \in 1..AfterAll /\ MaxLate \in Nat
        BY QueuesAssumption DEF IInv, TypeOK
      <3> QED
        BY <1>1, <1>3, <3>1
    <2>2. on' \subseteq Stages
      BY <1>1 DEF IInv, TypeOK
    <2>3. measured' \subseteq (0..Modulus-1) \X (0..Longest)
      BY <1>1 DEF IInv, TypeOK
    <2> QED
      BY <1>1, <1>2, <2>1, <2>2, <2>3 DEF IInv, TypeOK
  <1>5. Conserved'
    BY <1>1, SamePlaces
  <1>6. Bounded' /\ Emptied'
    BY <1>1, <1>2 DEF IInv, Bounded, Emptied
  <1>7. Measures'
    <2>1. \A e : Measured(e)' <=> Measured(e)
      BY <1>1 DEF Measured, Since
    <2>2. \A m : ToSet(buf[m])' = ToSet(buf[m])
      BY <1>1
    <2> QED
      BY <1>1, <1>2, <2>1, <2>2 DEF IInv, Measures, MeasuredTrue
  <1>8. PhaseKnown'
    <2>1. ASSUME NEW i \in DOMAIN pipeline, pipeline[i] = "blackout", "blackout" \in lastOn
          PROVE  /\ Since(clock, phaseFrom)' = phaseAge'
                 /\ phaseAge' < (PhaseLength + (IF i < stage THEN late ELSE MaxLate))'
      <3>1. /\ Since(clock, phaseFrom) = phaseAge
            /\ phaseAge < PhaseLength + (IF i < stage THEN late ELSE MaxLate)
        BY <2>1 DEF IInv, PhaseKnown
      <3>2. /\ PhaseLength \in Nat /\ phaseAge \in Nat /\ late \in Nat /\ late <= MaxLate
            /\ MaxLate \in Nat
        BY QueuesAssumption, LongestIs DEF IInv, TypeOK, PhaseLength
      <3>3. PhaseLength' = PhaseLength /\ Since(clock, phaseFrom)' = Since(clock, phaseFrom)
        BY <1>1 DEF PhaseLength, Since
      <3>4. phaseAge < PhaseLength + (IF i < stage' THEN late' ELSE MaxLate)
        <4>1. CASE stage = stage' /\ late = late'
          BY <3>1, <4>1
        <4>2. CASE stage = AfterAll /\ stage' = 1 /\ late' = 0
          <5>1. i < stage /\ ~(i < stage')
            BY <1>3, <4>2
          <5>2. phaseAge < PhaseLength + late
            BY <3>1, <5>1
          <5>3. phaseAge < PhaseLength + MaxLate
            BY <3>2, <5>2
          <5> QED
            BY <5>1, <5>3
        <4> QED
          BY <1>1, <4>1, <4>2
      <3> QED
        BY <1>1, <3>1, <3>3, <3>4
    <2> QED
      BY <1>1, <2>1 DEF PhaseKnown
  <1> QED
    BY <1>4, <1>5, <1>6, <1>7, <1>8 DEF IInv

\* A list and its reverse.
LEMMA ReverseIs ==
  ASSUME NEW l \in Seq(Id)
  PROVE  /\ Reverse(l) \in Seq(Id) /\ ToSet(Reverse(l)) = ToSet(l)
         /\ IsInjective(l) => IsInjective(Reverse(l))
  <1> DEFINE n == Len(l)
             r == Reverse(l)
  <1>1. n \in Nat /\ DOMAIN l = 1..n /\ \A i \in 1..n : l[i] \in Id
    BY LenProperties
  <1>2. r = [i \in 1..n |-> l[(n - i) + 1]]
    BY DEF Reverse
  <1> HIDE DEF n, r
  <1>3. /\ DOMAIN r = 1..n /\ \A i \in 1..n : (n - i) + 1 \in 1..n /\ r[i] = l[(n - i) + 1]
    BY <1>1, <1>2
  <1>4. r \in Seq(Id)
    BY <1>1, <1>2, <1>3
  <1>5. \A i \in 1..n : l[i] = r[(n - i) + 1]
    <2>1. \A i \in 1..n : (n - ((n - i) + 1)) + 1 = i
      BY <1>1
    <2> QED
      BY <1>3, <2>1
  <1>6. ToSet(r) = ToSet(l)
    BY <1>1, <1>3, <1>5 DEF ToSet
  <1>7. ASSUME IsInjective(l) PROVE IsInjective(r)
    <2>1. \A i, j \in 1..n : l[i] = l[j] => i = j
      BY <1>1, <1>7 DEF IsInjective
    <2>2. ASSUME NEW i \in 1..n, NEW j \in 1..n, r[i] = r[j] PROVE i = j
      <3>1. (n - i) + 1 = (n - j) + 1
        BY <1>3, <2>1, <2>2
      <3> QED
        BY <1>1, <3>1
    <2> QED
      BY <1>3, <2>2 DEF IsInjective
  <1> QED
    BY <1>4, <1>6, <1>7 DEF r

\* The newcomer is in no place before.
LEMMA ReceiveKeeps ==
  ASSUME IInv, Receive
  PROVE  IInv'
  <1>1. /\ list = <<>> /\ stage = AfterAll /\ arrived < MaxPackets
        /\ arrived' = arrived + 1 /\ list' = <<arrived + 1>>
        /\ stage' = 1 /\ late' = 0 /\ measured' = {}
        /\ UNCHANGED <<clock, buf, on, lastOn, lagTime, frameFrom, forgot, pipeline, dark,
                       phaseFrom, phaseAge, trigger, burst, sent, lost>>
    BY DEF Receive, Idle, moduleVars, frameVars, lossVars
  <1>2. Stages' = Stages /\ AfterAll' = AfterAll /\ Places' = Places
    BY <1>1 DEF Stages, AfterAll, Places
  <1>3. AfterAll \in Nat \ {0} /\ DOMAIN pipeline \subseteq 1..AfterAll - 1 /\ Stages \subseteq Module
    <2>1. DOMAIN pipeline = 1..Len(pipeline) /\ Len(pipeline) \in Nat /\ Stages \subseteq Module
      BY PipelineIs DEF IInv, TypeOK
    <2> QED
      BY <2>1 DEF AfterAll
  <1>4. arrived \in Nat /\ MaxPackets \in Nat /\ MaxLate \in Nat
    BY QueuesAssumption DEF IInv, TypeOK
  <1>5. arrived + 1 \in Id /\ arrived + 1 \in 0..MaxPackets
    BY <1>1, <1>4 DEF Id
  <1>6. TypeOK'
    <2>1. list' \in Seq(Id)
      BY <1>1, <1>5
    <2>2. late' \in 0..MaxLate /\ stage' \in 1..AfterAll' /\ arrived' \in 0..MaxPackets
      BY <1>1, <1>2, <1>3, <1>4, <1>5
    <2> QED
      BY <1>1, <1>2, <2>1, <2>2 DEF IInv, TypeOK
  <1>7. Conserved'
    <2> DEFINE new == arrived + 1
               A(x) == At(x)'
    <2>1. ToSet(list') = {new} /\ ToSet(list) = {} /\ IsInjective(list')
      <3>1. DOMAIN list' = 1..1 /\ list'[1] = new
        BY <1>1
      <3> QED
        BY <1>1, <3>1 DEF ToSet, IsInjective
    <2>2. /\ "list" \notin Stages /\ "sent" \notin Stages /\ "lost" \notin Stages
          /\ Places = Stages \cup {"list", "sent", "lost"}
      BY <1>3, PlacesAre
    <2>3. A("list") = {new} /\ At("list") = {}
      BY <2>1, Ats, AtsNext
    <2>4. \A x \in Places : x # "list" => A(x) = At(x)
      <3>1. A("sent") = At("sent") /\ A("lost") = At("lost")
        BY <1>1, Ats, AtsNext
      <3>2. \A m \in Stages : A(m) = At(m)
        BY <1>1, <1>3, Ats, AtsNext
      <3> QED
        BY <2>2, <3>1, <3>2
    <2>5. /\ \A x, y \in Places : x # y => At(x) \cap At(y) = {}
          /\ UNION {At(x) : x \in Places} = 1..arrived
          /\ IsInjective(sent) /\ \A n \in Stages : IsInjective(Ids(buf[n]))
      BY DEF IInv, Conserved
    <2>6. new \notin 1..arrived /\ 1..new = (1..arrived) \cup {new}
      BY <1>4
    <2> HIDE DEF A, new
    <2>7. \A x \in Places : new \notin At(x)
      BY <2>5, <2>6
    <2>8. \A x, y \in Places : x # y => A(x) \cap A(y) = {}
      BY <2>3, <2>4, <2>5, <2>7
    <2>9. UNION {A(x) : x \in Places} = 1..new
      <3>1. \A p : (\E x \in Places : p \in A(x)) <=> (p = new \/ \E x \in Places : p \in At(x))
        BY <2>2, <2>3, <2>4
      <3>2. UNION {A(x) : x \in Places} = {new} \cup UNION {At(x) : x \in Places}
        BY <3>1
      <3> QED
        BY <2>5, <2>6, <3>2
    <2>10. \A x, y \in Places' : x # y => At(x)' \cap At(y)' = {}
      BY <1>2, <2>8 DEF A
    <2>11. UNION {At(x)' : x \in Places'} = 1..arrived'
      BY <1>1, <1>2, <2>9 DEF A, new
    <2>12. IsInjective(sent') /\ \A n \in Stages' : IsInjective(Ids(buf[n])')
      BY <1>1, <1>2, <2>5 DEF Ids
    <2> QED
      BY <2>1, <2>10, <2>11, <2>12 DEF Conserved
  <1>8. Bounded' /\ Emptied'
    BY <1>1, <1>2 DEF IInv, Bounded, Emptied
  <1>9. Measures'
    <2>1. \A e : Measured(e)' <=> Measured(e)
      BY <1>1 DEF Measured, Since
    <2>2. \A m : ToSet(buf[m])' = ToSet(buf[m])
      BY <1>1
    <2> QED
      BY <1>1, <1>2, <2>1, <2>2 DEF IInv, Measures, MeasuredTrue
  <1>10. PhaseKnown'
    <2>1. ASSUME NEW i \in DOMAIN pipeline, pipeline[i] = "blackout", "blackout" \in lastOn
          PROVE  /\ Since(clock, phaseFrom)' = phaseAge'
                 /\ phaseAge' < (PhaseLength + (IF i < stage THEN late ELSE MaxLate))'
      <3>1. i < stage /\ ~(i < stage')
        BY <1>1, <1>3
      <3>2. /\ Since(clock, phaseFrom) = phaseAge /\ phaseAge < PhaseLength + late
        BY <2>1, <3>1 DEF IInv, PhaseKnown
      <3>3. /\ PhaseLength \in Nat /\ phaseAge \in Nat /\ late \in Nat /\ late <= MaxLate
        BY QueuesAssumption, LongestIs DEF IInv, TypeOK, PhaseLength
      <3>4. phaseAge < PhaseLength + MaxLate
        BY <1>4, <3>2, <3>3
      <3>5. PhaseLength' = PhaseLength /\ Since(clock, phaseFrom)' = Since(clock, phaseFrom)
        BY <1>1 DEF PhaseLength, Since
      <3> QED
        BY <1>1, <3>1, <3>2, <3>4, <3>5
    <2> QED
      BY <1>1, <2>1 DEF PhaseKnown
  <1> QED
    BY <1>6, <1>7, <1>8, <1>9, <1>10 DEF IInv

\* sendAllListPackets moves everything from one place to another.
LEMMA SendKeeps ==
  ASSUME IInv, Send
  PROVE  IInv'
  <1>1. /\ sent' = sent \o Reverse(list) /\ list' = <<>>
        /\ UNCHANGED <<clock, late, stage, buf, on, lastOn, lagTime, frameFrom, forgot, pipeline,
                       dark, phaseFrom, phaseAge, trigger, burst, arrived, lost, measured>>
    BY DEF Send, moduleVars, frameVars, lossVars
  <1>2. Stages' = Stages /\ AfterAll' = AfterAll /\ Places' = Places
    BY <1>1 DEF Stages, AfterAll, Places
  <1>3. /\ list \in Seq(Id) /\ sent \in Seq(Id) /\ Stages \subseteq Module
        /\ IsInjective(list) /\ IsInjective(sent)
        /\ \A x, y \in Places : x # y => At(x) \cap At(y) = {}
        /\ UNION {At(x) : x \in Places} = 1..arrived
        /\ \A n \in Stages : IsInjective(Ids(buf[n]))
    BY PipelineIs DEF IInv, TypeOK, Conserved
  <1>4. /\ "list" \notin Stages /\ "sent" \notin Stages /\ "lost" \notin Stages
        /\ Places = Stages \cup {"list", "sent", "lost"}
    BY <1>3, PlacesAre
  <1> DEFINE A(x) == At(x)'
  <1>5. At("list") = ToSet(list) /\ At("sent") = ToSet(sent)
    BY Ats
  <1>6. sent' \in Seq(Id) /\ ToSet(sent') = At("sent") \cup At("list") /\ IsInjective(sent')
    <2>1. /\ Reverse(list) \in Seq(Id) /\ ToSet(Reverse(list)) = ToSet(list)
          /\ IsInjective(Reverse(list))
      BY <1>3, ReverseIs
    <2>2. ToSet(sent) \cap ToSet(Reverse(list)) = {}
      BY <1>3, <1>4, <1>5, <2>1
    <2> QED
      BY <1>1, <1>3, <1>5, <2>1, <2>2, Join
  <1>7. /\ list' \in Seq(Id) /\ ToSet(list') = {} /\ IsInjective(list')
    BY <1>1 DEF ToSet, IsInjective
  <1>8. A("list") = {} /\ A("sent") = At("sent") \cup At("list")
    BY <1>6, <1>7, AtsNext
  <1>9. \A x \in Places : x \notin {"list", "sent"} => A(x) = At(x)
    <2>1. A("lost") = At("lost")
      BY <1>1, Ats, AtsNext
    <2>2. \A m \in Stages : A(m) = At(m)
      BY <1>1, <1>3, Ats, AtsNext
    <2> QED
      BY <1>4, <2>1, <2>2
  <1> HIDE DEF A
  <1>10. \A x, y \in Places : x # y => A(x) \cap A(y) = {}
    BY <1>3, <1>4, <1>8, <1>9
  <1>11. UNION {A(x) : x \in Places} = UNION {At(x) : x \in Places}
    <2>1. \A p : (\E x \in Places : p \in A(x)) <=> (\E x \in Places : p \in At(x))
      BY <1>4, <1>8, <1>9
    <2> QED
      BY <2>1
  <1>12. Conserved'
    <2>1. \A x, y \in Places' : x # y => At(x)' \cap At(y)' = {}
      BY <1>2, <1>10 DEF A
    <2>2. UNION {At(x)' : x \in Places'} = 1..arrived'
      BY <1>1, <1>2, <1>3, <1>11 DEF A
    <2>3. \A n \in Stages' : IsInjective(Ids(buf[n])')
      BY <1>1, <1>2, <1>3 DEF Ids
    <2> QED
      BY <1>6, <1>7, <2>1, <2>2, <2>3 DEF Conserved
  <1>13. TypeOK'
    BY <1>1, <1>2, <1>6, <1>7 DEF IInv, TypeOK
  <1>14. Bounded' /\ Emptied'
    BY <1>1, <1>2 DEF IInv, Bounded, Emptied
  <1>15. Measures'
    <2>1. \A e : Measured(e)' <=> Measured(e)
      BY <1>1 DEF Measured, Since
    <2>2. \A m : ToSet(buf[m])' = ToSet(buf[m])
      BY <1>1
    <2> QED
      BY <1>1, <1>2, <2>1, <2>2 DEF IInv, Measures, MeasuredTrue
  <1>16. PhaseKnown'
    BY <1>1 DEF IInv, PhaseKnown, PhaseLength, Since
  <1> QED
    BY <1>12, <1>13, <1>14, <1>15, <1>16 DEF IInv

\* The clock's next value is one further from every time it has passed not too long ago.
LEMMA NextTick ==
  ASSUME clock \in 0..Modulus-1, NEW t \in 0..Modulus-1, Since(clock, t) < Longest
  PROVE  Since(Plus(clock, 1), t) = Since(clock, t) + 1
  <1>1. Modulus \in Nat /\ Longest \in Nat /\ Longest < Modulus
    BY QueuesAssumption, LongestIs
  <1>2. /\ Since(clock, t) = IF clock >= t THEN clock - t ELSE clock + Modulus - t
        /\ Plus(clock, 1) \in 0..Modulus-1
        /\ Since(Plus(clock, 1), t) =
             IF Plus(clock, 1) >= t THEN Plus(clock, 1) - t ELSE Plus(clock, 1) + Modulus - t
    BY ClockIs
  <1>3. Plus(clock, 1) = IF clock + 1 = Modulus THEN 0 ELSE clock + 1
    <2>1. CASE clock + 1 = Modulus
      <3>1. Modulus % Modulus = 0
        BY <1>1, <2>1
      <3> QED
        BY <2>1, <3>1 DEF Plus
    <2>2. CASE clock + 1 # Modulus
      <3>1. (clock + 1) % Modulus = clock + 1
        BY <1>1, <2>2
      <3> QED
        BY <2>2, <3>1 DEF Plus
    <2> QED
      BY <2>1, <2>2
  <1> DEFINE s == Since(clock, t)
             u == Since(Plus(clock, 1), t)
             c == Plus(clock, 1)
  <1>4. /\ s = IF clock >= t THEN clock - t ELSE clock + Modulus - t
        /\ u = IF c >= t THEN c - t ELSE c + Modulus - t
        /\ c = IF clock + 1 = Modulus THEN 0 ELSE clock + 1
        /\ s < Longest
    BY <1>2, <1>3
  <1> HIDE DEF s, u, c
  <1>5. u = s + 1
    <2>1. CASE clock >= t
      <3>1. s = clock - t
        BY <1>4, <2>1
      <3>2. CASE clock + 1 = Modulus
        BY <1>1, <1>4, <2>1, <3>1, <3>2
      <3>3. CASE clock + 1 # Modulus
        BY <1>1, <1>4, <2>1, <3>1, <3>3
      <3> QED
        BY <3>2, <3>3
    <2>2. CASE ~(clock >= t)
      <3>1. s = clock + Modulus - t /\ clock + 1 # Modulus /\ c = clock + 1
        BY <1>1, <1>4, <2>2
      <3>2. c # t
        BY <1>1, <1>4, <3>1
      <3> QED
        BY <1>1, <1>4, <2>2, <3>1, <3>2
    <2> QED
      BY <2>1, <2>2
  <1> QED
    BY <1>5 DEF s, u, c

\* A node a tick later.
Older(e) == [e EXCEPT !.waited = IF @ < Longest THEN @ + 1 ELSE @]

LEMMA OlderIs ==
  ASSUME NEW e \in Entry
  PROVE  /\ Older(e) \in Entry
         /\ Older(e).id = e.id /\ Older(e).stamp = e.stamp
         /\ Older(e).enqueued = e.enqueued /\ Older(e).delay = e.delay
         /\ Older(e).waited = IF e.waited < Longest THEN e.waited + 1 ELSE e.waited
  <1>1. Longest \in Nat
    BY LongestIs
  <1> QED
    BY <1>1 DEF Older, Entry

\* What a tick does to the buffers.
LEMMA TickIs ==
  ASSUME IInv, Tick
  PROVE  /\ stage = AfterAll /\ list = <<>> /\ late < MaxLate /\ late' = late + 1
         /\ clock' = Plus(clock, 1)
         /\ phaseAge' = IF phaseAge < Longest /\ "blackout" \in lastOn THEN phaseAge + 1 ELSE phaseAge
         /\ UNCHANGED <<stage, list, on, lastOn, lagTime, frameFrom, forgot, pipeline, dark,
                        phaseFrom, trigger, burst, arrived, sent, lost, measured>>
         /\ buf' \in [Stages -> Seq(Entry)]
         /\ \A m \in Stages :
              /\ DOMAIN buf'[m] = DOMAIN buf[m] /\ Len(buf'[m]) = Len(buf[m])
              /\ \A i \in DOMAIN buf[m] : buf[m][i] \in Entry /\ buf'[m][i] = Older(buf[m][i])
              /\ Ids(buf'[m]) = Ids(buf[m]) /\ IdsOf(buf'[m]) = IdsOf(buf[m])
  <1>1. /\ stage = AfterAll /\ list = <<>> /\ late < MaxLate /\ late' = late + 1
        /\ clock' = Plus(clock, 1)
        /\ phaseAge' = IF phaseAge < Longest /\ "blackout" \in lastOn THEN phaseAge + 1 ELSE phaseAge
        /\ UNCHANGED <<stage, list, on, lastOn, lagTime, frameFrom, forgot, pipeline, dark,
                       phaseFrom, trigger, burst, arrived, sent, lost, measured>>
    BY DEF Tick, Idle, moduleVars, frameVars
  <1>2. buf' = [m \in Stages |-> [i \in DOMAIN buf[m] |-> Older(buf[m][i])]]
    BY DEF Tick, Older
  <1>3. ASSUME NEW m \in Stages
        PROVE  /\ buf'[m] \in Seq(Entry)
               /\ DOMAIN buf'[m] = DOMAIN buf[m] /\ Len(buf'[m]) = Len(buf[m])
               /\ \A i \in DOMAIN buf[m] : buf[m][i] \in Entry /\ buf'[m][i] = Older(buf[m][i])
               /\ Ids(buf'[m]) = Ids(buf[m]) /\ IdsOf(buf'[m]) = IdsOf(buf[m])
    <2> DEFINE b == buf[m]
               c == buf'[m]
               l == Len(b)
    <2>1. l \in Nat /\ DOMAIN b = 1..l /\ \A i \in 1..l : b[i] \in Entry
      BY LenProperties DEF IInv, TypeOK
    <2>2. c = [i \in 1..l |-> Older(b[i])]
      BY <1>2, <2>1
    <2> HIDE DEF b, c, l
    <2>3. \A i \in 1..l : Older(b[i]) \in Entry /\ Older(b[i]).id = b[i].id
      BY <2>1, OlderIs
    <2>4. c \in Seq(Entry) /\ DOMAIN c = 1..l /\ Len(c) = l /\ \A i \in 1..l : c[i] = Older(b[i])
      BY <2>1, <2>2, <2>3
    <2>5. Ids(c) = Ids(b) /\ IdsOf(c) = IdsOf(b)
      BY <2>1, <2>3, <2>4 DEF Ids, IdsOf
    <2> QED
      BY <2>1, <2>4, <2>5 DEF b, c, l
  <1>4. buf' \in [Stages -> Seq(Entry)]
    BY <1>2, <1>3
  <1> QED
    BY <1>1, <1>3, <1>4

LEMMA TickKeeps ==
  ASSUME IInv, Tick
  PROVE  IInv'
  <1>1. /\ stage = AfterAll /\ late < MaxLate /\ late' = late + 1
        /\ clock' = Plus(clock, 1)
        /\ phaseAge' = IF phaseAge < Longest /\ "blackout" \in lastOn THEN phaseAge + 1 ELSE phaseAge
        /\ UNCHANGED <<stage, list, on, lastOn, lagTime, frameFrom, forgot, pipeline, dark,
                       phaseFrom, trigger, burst, arrived, sent, lost, measured>>
        /\ buf' \in [Stages -> Seq(Entry)]
    BY TickIs
  <1>2. \A m \in Stages :
          /\ DOMAIN buf'[m] = DOMAIN buf[m] /\ Len(buf'[m]) = Len(buf[m])
          /\ \A i \in DOMAIN buf[m] : buf[m][i] \in Entry /\ buf'[m][i] = Older(buf[m][i])
          /\ Ids(buf'[m]) = Ids(buf[m]) /\ IdsOf(buf'[m]) = IdsOf(buf[m])
    BY TickIs
  <1>3. Stages' = Stages /\ AfterAll' = AfterAll
    BY <1>1 DEF Stages, AfterAll
  <1>4. /\ clock \in 0..Modulus-1 /\ late \in 0..MaxLate /\ MaxLate \in Nat /\ Modulus \in Nat \ {0}
        /\ phaseFrom \in 0..Modulus-1 /\ phaseAge \in 0..Longest /\ Longest \in Nat
    BY QueuesAssumption, LongestIs DEF IInv, TypeOK
  <1>5. clock' \in 0..Modulus-1 /\ late' \in 0..MaxLate /\ phaseAge' \in 0..Longest
    <2>1. Plus(clock, 1) \in 0..Modulus-1
      BY <1>4, ClockIs
    <2> QED
      BY <1>1, <1>4, <2>1
  <1>6. TypeOK'
    BY <1>1, <1>3, <1>5 DEF IInv, TypeOK
  <1>7. Conserved'
    <2> DEFINE c == buf'
    <2>1. \A m \in Stages : Ids(c[m]) = Ids(buf[m]) /\ IdsOf(c[m]) = IdsOf(buf[m])
      BY <1>2
    <2>2. UNCHANGED <<list, pipeline, arrived, sent, lost>>
      BY <1>1
    <2> QED
      BY <2>1, <2>2, SamePlaces
  <1>8. Bounded'
    BY <1>2, <1>3 DEF IInv, Bounded
  <1>9. Emptied'
    <2>1. ASSUME NEW m \in Stages, buf[m] = <<>> PROVE buf'[m] = <<>>
      <3>1. Len(buf'[m]) = 0 /\ buf'[m] \in Seq(Entry)
        BY <1>1, <1>2, <2>1
      <3> QED
        BY <3>1, EmptySeq
    <2> QED
      BY <1>1, <1>3, <2>1 DEF IInv, Emptied
  <1>10. Measures'
    <2>1. ASSUME NEW m \in Stages, NEW i \in DOMAIN buf[m]
          PROVE  Older(buf[m][i]).waited = Longest
                   \/ Since(clock', Older(buf[m][i]).enqueued) = Older(buf[m][i]).waited
      <3> DEFINE e == buf[m][i]
                 o == Older(e)
      <3>1. e \in Entry
        BY <1>2
      <3>2. e.waited = Longest \/ Since(clock, e.enqueued) = e.waited
        BY DEF IInv, Measures, Measured, ToSet
      <3> HIDE DEF e, o
      <3>3. /\ o.enqueued = e.enqueued
            /\ o.waited = IF e.waited < Longest THEN e.waited + 1 ELSE e.waited
            /\ e.waited \in 0..Longest /\ e.enqueued \in 0..Modulus-1
        BY <3>1, OlderIs DEF o, Entry
      <3>4. CASE e.waited < Longest
        <4>1. Since(clock, e.enqueued) < Longest /\ e.waited # Longest
          BY <1>4, <3>2, <3>3, <3>4
        <4>2. Since(clock', e.enqueued) = Since(clock, e.enqueued) + 1
          BY <1>1, <1>4, <3>3, <4>1, NextTick
        <4> QED
          BY <3>2, <3>3, <3>4, <4>1, <4>2 DEF o, e
      <3>5. CASE ~(e.waited < Longest)
        BY <1>4, <3>3, <3>5 DEF o, e
      <3> QED
        BY <3>4, <3>5
    <2>2. \A m \in Stages' : \A e \in ToSet(buf[m])' : Measured(e)'
      <3>1. ASSUME NEW m \in Stages, NEW e \in ToSet(buf'[m])
            PROVE  e.waited = Longest \/ Since(clock', e.enqueued) = e.waited
        <4>1. PICK i \in DOMAIN buf'[m] : e = buf'[m][i]
          BY DEF ToSet
        <4> QED
          BY <1>2, <2>1, <4>1
      <3>2. \A m \in Stages : ToSet(buf[m])' = ToSet(buf'[m])
        BY DEF ToSet
      <3> QED
        BY <1>3, <3>1, <3>2 DEF Measured, Since
    <2> QED
      BY <1>1, <2>2 DEF IInv, Measures, MeasuredTrue
  <1>11. PhaseKnown'
    <2>1. ASSUME NEW i \in DOMAIN pipeline, pipeline[i] = "blackout", "blackout" \in lastOn
          PROVE  /\ Since(clock', phaseFrom) = phaseAge'
                 /\ phaseAge' < PhaseLength + (IF i < stage THEN late' ELSE MaxLate)
      <3>1. i < stage
        <4>1. DOMAIN pipeline = 1..Len(pipeline) /\ Len(pipeline) \in Nat
          BY PipelineIs DEF IInv, TypeOK
        <4> QED
          BY <1>1, <4>1 DEF AfterAll
      <3>2. /\ Since(clock, phaseFrom) = phaseAge /\ phaseAge < PhaseLength + late
        BY <2>1, <3>1 DEF IInv, PhaseKnown
      <3>3. PhaseLength \in Nat /\ PhaseLength + MaxLate < Longest
        BY QueuesAssumption, LongestIs DEF PhaseLength
      <3>4. phaseAge < Longest
        BY <1>1, <1>4, <3>2, <3>3
      <3>5. Since(clock', phaseFrom) = phaseAge + 1
        BY <1>1, <1>4, <3>2, <3>4, NextTick
      <3>6. phaseAge' = phaseAge + 1
        BY <1>1, <2>1, <3>4
      <3> QED
        BY <1>1, <1>4, <3>1, <3>2, <3>3, <3>5, <3>6
    <2>2. PhaseLength' = PhaseLength /\ Since(clock, phaseFrom)' = Since(clock', phaseFrom)
      BY <1>1 DEF PhaseLength, Since
    <2> QED
      BY <1>1, <2>1, <2>2 DEF PhaseKnown
  <1> QED
    BY <1>6, <1>7, <1>8, <1>9, <1>10, <1>11 DEF IInv

LEMMA InitHolds ==
  ASSUME Init
  PROVE  IInv
  <1>1. /\ pipeline \in Pipelines /\ clock = Origin /\ late = 0 /\ stage = AfterAll
        /\ list = <<>> /\ buf = [m \in Stages |-> <<>>]
        /\ on \in SUBSET Stages /\ lastOn = {} /\ lagTime \in LagTimes
        /\ frameFrom = 0 /\ forgot = FALSE /\ arrived = 0
        /\ dark = FALSE /\ phaseFrom = 0 /\ phaseAge = 0 /\ trigger = FALSE /\ burst = FALSE
        /\ sent = <<>> /\ lost = {} /\ measured = {}
    BY DEF Init
  <1>2. /\ <<>> \in Seq(Entry) /\ Len(<<>>) = 0 /\ IdsOf(<<>>) = {} /\ ToSet(<<>>) = {}
        /\ IsInjective(Ids(<<>>)) /\ IsInjective(<<>>)
    BY EmptyBuffer DEF IsInjective
  <1>3. /\ Modulus \in Nat \ {0} /\ Origin \in 0..Modulus-1 /\ Longest \in Nat
        /\ MaxLate \in Nat /\ MaxPackets \in Nat /\ KeepAtMost \in Nat \ {0}
    BY QueuesAssumption, LongestIs
  <1>4. Stages \subseteq Module /\ AfterAll \in Nat \ {0}
    BY <1>1, PipelineIs DEF AfterAll
  <1>5. TypeOK
    <2>1. /\ 0 \in 0..Modulus-1 /\ 0 \in 0..MaxLate /\ 0 \in 0..Longest /\ 0 \in 0..MaxPackets
          /\ AfterAll \in 1..AfterAll
      BY <1>3, <1>4
    <2>2. <<>> \in Seq(Id)
      BY EmptySeq
    <2> QED
      BY <1>1, <1>2, <1>3, <2>1, <2>2 DEF TypeOK
  <1>6. Conserved
    <2>1. \A x \in Places : At(x) = {}
      <3>1. At("list") = {} /\ At("sent") = {} /\ At("lost") = {}
        BY <1>1, <1>2, Ats
      <3>2. \A m \in Stages : At(m) = {}
        BY <1>1, <1>2, <1>4, Ats
      <3> QED
        BY <3>1, <3>2 DEF Places
    <2>2. UNION {At(x) : x \in Places} = 1..arrived
      <3>1. 1..0 = {}
        OBVIOUS
      <3> QED
        BY <1>1, <2>1, <3>1
    <2> QED
      BY <1>1, <1>2, <2>1, <2>2 DEF Conserved
  <1>7. Bounded
    BY <1>1, <1>2, <1>3 DEF Bounded
  <1>8. Emptied /\ Measures /\ PhaseKnown
    BY <1>1, <1>2 DEF Emptied, Measures, MeasuredTrue, PhaseKnown
  <1> QED
    BY <1>5, <1>6, <1>7, <1>8 DEF IInv

LEMMA NextKeeps ==
  ASSUME IInv, [Next]_vars
  PROVE  IInv'
  <1>1. CASE Receive
    BY <1>1, ReceiveKeeps
  <1>2. CASE Send
    BY <1>2, SendKeeps
  <1>3. CASE Tick
    BY <1>3, TickKeeps
  <1>4. ASSUME NEW m \in Stages, Visit(m) PROVE IInv'
    BY <1>4, VisitKeeps
  <1>5. CASE \/ ClockRun \/ Trigger \/ UNCHANGED vars
             \/ \E m \in Stages : Toggle(m)
             \/ \E t \in LagTimes : SetLagTime(t)
    BY <1>5, SettingsKeep
  <1> QED
    BY <1>1, <1>2, <1>3, <1>4, <1>5 DEF Next

\* The invariant, whatever the modules' parameters are and however often they are
\* switched on and off.
THEOREM QueuesInvariant == Spec => []IInv
  <1>1. Init => IInv
    BY InitHolds
  <1>2. IInv /\ [Next]_vars => IInv'
    BY NextKeeps
  <1> QED
    BY <1>1, <1>2, PTL DEF Spec

\* No module loses a packet, links it twice or holds too many: each packet that arrived
\* is in one place, on the list, in one buffer, sent or freed, through every insertAfter
\* and popNode of the modules' process and closeDown functions.
THEOREM QueuesConsistent == Spec => []Consistent
  <1>1. IInv => Consistent
    BY DEF IInv, Consistent
  <1> QED
    BY <1>1, QueuesInvariant, PTL

\* latencyRecord gets the time that a packet really waited, also when timeGetTime()
\* wraps while it waits.
THEOREM MeasuredTruly == Spec => []MeasuredTrue
  <1>1. IInv => MeasuredTrue
    BY DEF IInv, Measures
  <1> QED
    BY <1>1, QueuesInvariant, PTL

\* blackoutProcess: a phase lasts its time, also across a wrap of the clock, and only a
\* trigger or a switch of the module ends one early.
THEOREM OutagesTimed == Spec => OutageTimed
  <1>1. ASSUME IInv, Visit("blackout"), "blackout" \in on
        PROVE  /\ phaseAge' < (IF dark' THEN Duration ELSE Gap)
               /\ "blackout" \in lastOn =>
                    (dark' # dark <=> trigger \/ phaseAge >= (IF dark THEN Duration ELSE Gap))
    <2>1. BlackoutProcess
      BY <1>1 DEF Visit
    <2>2. "blackout" \in lastOn => Since(clock, phaseFrom) = phaseAge
      <3>1. lastOn \subseteq Stages /\ \A m \in Stages : \E i \in DOMAIN pipeline : pipeline[i] = m
        BY <1>1, PipelineIs DEF IInv, TypeOK
      <3> QED
        BY <1>1, <3>1 DEF IInv, PhaseKnown
    <2> QED
      BY <1>1, <2>1, <2>2, BlackoutTurn
  <1> DEFINE Timed == Visit("blackout") /\ "blackout" \in on =>
                        /\ phaseAge' < (IF dark' THEN Duration ELSE Gap)
                        /\ "blackout" \in lastOn =>
                             (dark' # dark <=> trigger \/ phaseAge >= (IF dark THEN Duration ELSE Gap))
  <1>2. IInv => Timed
    BY <1>1
  <1>3. OutageTimed <=> [][Timed]_vars
    BY DEF OutageTimed
  <1> HIDE DEF Timed
  <1>4. IInv /\ [Next]_vars => [Timed]_vars
    BY <1>2
  <1> QED
    BY <1>3, <1>4, QueuesInvariant, PTL DEF Spec

------------------------------------------------------------------------------
(* The order of the packets.                                                *)

\* InOrder for modules that keep the order.
Chained ==
  /\ Decreasing(list) /\ Decreasing(Reverse(sent))
  /\ \A m \in Stages : Decreasing(Ids(buf[m]))
  /\ \A i \in DOMAIN pipeline :
       /\ IF i < stage THEN Newer(At(pipeline[i]), At("list"))
                       ELSE Newer(At("list"), At(pipeline[i]))
       /\ \A j \in i+1..Len(pipeline) : Newer(At(pipeline[i]), At(pipeline[j]))
  /\ \A x \in Stages \cup {"list"} : Newer(At(x), At("sent"))

\* A consume step begins with the packet that it was begun for, or with none.
OneByOne == stage = 1 => Len(list) <= 1

\* The throttle module's start tick tells whether it throttles, and its buffer is empty
\* when it does not, until a frame begins at the tick 0.
FrameKnown == "throttle" \in Stages /\ ~forgot /\ frameFrom = 0 => buf["throttle"] = <<>>

OInv == InOrder /\ OneByOne /\ FrameKnown

\* Fewer packets are newer than others as well.
LEMMA NewerThan ==
  ASSUME NEW P, NEW Q, NEW R, NEW S, Newer(P, R), Newer(Q, R), S \subseteq P \cup Q
  PROVE  Newer(S, R)
  BY DEF Newer

LEMMA OlderThan ==
  ASSUME NEW P, NEW Q, NEW R, NEW S, Newer(R, P), Newer(R, Q), S \subseteq P \cup Q
  PROVE  Newer(R, S)
  BY DEF Newer

\* What is freed remains freed.
LEMMA LostStays ==
  ASSUME NEW m, Visit(m)
  PROVE  lost \subseteq lost'
  <1>1. CASE m \in on
    <2>1. CASE LagProcess
      BY Zenon, <2>1 DEF LagProcess
    <2>2. CASE JitterProcess
      BY Zenon, <2>2 DEF JitterProcess
    <2>3. CASE ThrottleProcess
      BY Zenon, <2>3 DEF ThrottleProcess, ThrottleRests, ThrottleFills
    <2>4. CASE OodProcess
      BY Zenon, <2>4 DEF OodProcess
    <2>5. CASE BandwidthProcess
      BY Zenon, <2>5 DEF BandwidthProcess
    <2>6. CASE BurstlossProcess
      BY Zenon, <2>6 DEF BurstlossProcess, Free
    <2>7. CASE BlackoutProcess
      BY Zenon, <2>7 DEF BlackoutProcess, Free
    <2> QED
      BY <1>1, <2>1, <2>2, <2>3, <2>4, <2>5, <2>6, <2>7 DEF Visit
  <1>2. CASE m \notin on
    <2>1. CloseDown(m) \/ lost' = lost
      BY <1>2 DEF Visit
    <2>2. lost' = lost
      BY Zenon, <2>1 DEF CloseDown
    <2> QED
      BY <2>2
  <1> QED
    BY <1>1, <1>2

\* The modules that keep the order do so, each in its place.
LEMMA OrderlyVisit ==
  ASSUME IInv, OneByOne, FrameKnown, ~forgot,
         NEW m \in Stages, m \notin {"jitter", "ood"}, Visit(m)
  PROVE  Orderly(m)
  <1>1. Given(m) /\ m \in Module
    BY GivenHolds
  <1>2. stage \in DOMAIN pipeline /\ pipeline[stage] = m
    BY VisitTurn
  <1>3. \A i \in DOMAIN pipeline : pipeline[i] = "lag" => i = 1
    BY PipelineIs DEF IInv, TypeOK
  <1>4. CASE m = "lag" /\ LagProcess
    <2>1. Len(list) <= 1
      BY <1>2, <1>3, <1>4 DEF OneByOne
    <2> QED
      BY <1>1, <1>4, <2>1, LagTurn
  <1>5. CASE m = "throttle" /\ ThrottleProcess
    <2>1. frameFrom = 0 => buf["throttle"] = <<>>
      BY <1>5 DEF FrameKnown
    <2> QED
      BY <1>1, <1>5, <2>1, ThrottleTurn
  <1>6. CASE m = "bandwidth" /\ BandwidthProcess
    BY <1>1, <1>6, BandwidthTurn
  <1>7. CASE m = "burstloss" /\ BurstlossProcess
    <2>1. PICK S \in SUBSET ToSet(Matching(list)) : Free(S)
      BY <1>7 DEF BurstlossProcess
    <2>2. buf[m] = <<>>
      BY <1>7 DEF IInv, Emptied, Holding
    <2> QED
      BY <1>1, <2>1, <2>2, FreeTurn
  <1>8. CASE m = "blackout" /\ BlackoutProcess
    <2>1. Free(IF dark' THEN ToSet(Matching(list)) ELSE {})
      BY <1>8 DEF BlackoutProcess
    <2>2. buf[m] = <<>>
      BY <1>8 DEF IInv, Emptied, Holding
    <2> QED
      BY <1>1, <2>1, <2>2, FreeTurn
  <1>9. CASE CloseDown(m)
    BY <1>1, <1>9, CloseTurn
  <1>10. CASE m \notin lastOn /\ UNCHANGED <<list, buf, lost, measured>>
    <2>1. buf[m] = <<>>
      BY <1>10 DEF IInv, Emptied
    <2> QED
      BY <1>1, <1>10, <2>1, UnchangedTurn
  <1> QED
    BY <1>4, <1>5, <1>6, <1>7, <1>8, <1>9, <1>10 DEF Visit

\* A module that keeps the order keeps it in the whole pipeline: what it held and what
\* was on the list are what it holds and what is on the list.
LEMMA ChainedVisit ==
  ASSUME IInv, Chained, NEW m \in Stages, Visit(m), Orderly(m)
  PROVE  Chained'
  <1>1. /\ stage \in DOMAIN pipeline /\ pipeline[stage] = m /\ stage' = stage + 1
        /\ UNCHANGED <<pipeline, sent>>
        /\ Turn(m)
    BY VisitTurn
  <1>2. Stages \subseteq Module /\ Stages' = Stages
    BY <1>1, PipelineIs DEF IInv, TypeOK, Stages
  <1>3. /\ DOMAIN pipeline = 1..Len(pipeline) /\ Len(pipeline) \in Nat
        /\ \A i \in DOMAIN pipeline : pipeline[i] \in Stages /\ (pipeline[i] = m => i = stage)
    <2>1. pipeline \in Pipelines
      BY DEF IInv, TypeOK
    <2>2. /\ DOMAIN pipeline = 1..Len(pipeline) /\ Len(pipeline) \in Nat
          /\ \A i \in DOMAIN pipeline : pipeline[i] \in Stages
          /\ \A i, j \in DOMAIN pipeline : pipeline[i] = pipeline[j] => i = j
      BY <2>1, PipelineIs
    <2> QED
      BY <1>1, <2>2
  <1> DEFINE A(x) == At(x)'
  <1>4. /\ A("list") = ToSet(list') /\ A("sent") = At("sent")
        /\ At("list") = ToSet(list) /\ At(m) = IdsOf(buf[m]) /\ A(m) = IdsOf(buf'[m])
        /\ \A n \in Stages : n # m => A(n) = At(n) /\ buf'[n] = buf[n]
    <2>1. \A n \in Stages : n # m => buf'[n] = buf[n]
      BY <1>1 DEF Turn, IInv, TypeOK
    <2>2. /\ At("list") = ToSet(list) /\ \A n \in Stages : At(n) = IdsOf(buf[n])
          /\ A("list") = ToSet(list') /\ \A n \in Stages : A(n) = IdsOf(buf'[n])
          /\ A("sent") = ToSet(sent') /\ At("sent") = ToSet(sent)
      BY <1>2, Ats, AtsNext
    <2> QED
      BY <1>1, <2>1, <2>2
  <1>5. A("list") \cup A(m) \subseteq At("list") \cup At(m)
    <2>1. lost \subseteq lost'
      BY LostStays
    <2>2. /\ ToSet(list') \cap lost' = {} /\ IdsOf(buf'[m]) \cap lost' = {}
          /\ ToSet(list') \cup IdsOf(buf'[m]) \cup lost' = ToSet(list) \cup IdsOf(buf[m]) \cup lost
      BY <1>1 DEF Turn, Shared
    <2> QED
      BY <1>4, <2>1, <2>2
  <1>6. /\ Decreasing(list) /\ Decreasing(Ids(buf[m])) /\ Newer(At("list"), At(m))
    <2>1. ~(stage < stage)
      BY <1>1, <1>3
    <2> QED
      BY <1>1, <2>1 DEF Chained
  <1>7. Decreasing(list') /\ Decreasing(Ids(buf'[m])) /\ Newer(A(m), A("list"))
    BY <1>4, <1>6 DEF Orderly, Passing
  <1> HIDE DEF A
  <1>8. ASSUME NEW i \in DOMAIN pipeline, i < stage
        PROVE  Newer(A(pipeline[i]), A("list")) /\ Newer(A(pipeline[i]), A(m))
    <2>1. Newer(At(pipeline[i]), At("list"))
      BY <1>8 DEF Chained
    <2>2. stage \in i+1..Len(pipeline)
      BY <1>1, <1>3, <1>8
    <2>3. Newer(At(pipeline[i]), At(m))
      BY <1>1, <2>2 DEF Chained
    <2>4. A(pipeline[i]) = At(pipeline[i])
      BY <1>3, <1>4, <1>8
    <2> QED
      BY <1>5, <2>1, <2>3, <2>4, OlderThan
  <1>9. ASSUME NEW i \in DOMAIN pipeline, i > stage
        PROVE  Newer(A("list"), A(pipeline[i])) /\ Newer(A(m), A(pipeline[i]))
    <2>1. Newer(At("list"), At(pipeline[i]))
      <3>1. ~(i < stage)
        BY <1>1, <1>3, <1>9
      <3> QED
        BY <3>1 DEF Chained
    <2>2. i \in stage+1..Len(pipeline)
      BY <1>1, <1>3, <1>9
    <2>3. Newer(At(m), At(pipeline[i]))
      BY <1>1, <2>2 DEF Chained
    <2>4. A(pipeline[i]) = At(pipeline[i])
      BY <1>3, <1>4, <1>9
    <2> QED
      BY <1>5, <2>1, <2>3, <2>4, NewerThan
  <1>10. ASSUME NEW i \in DOMAIN pipeline
         PROVE  IF i < stage' THEN Newer(A(pipeline[i]), A("list"))
                              ELSE Newer(A("list"), A(pipeline[i]))
    <2>1. CASE i < stage
      <3>1. i < stage'
        BY <1>1, <1>3, <2>1
      <3> QED
        BY <1>8, <2>1, <3>1
    <2>2. CASE i = stage
      <3>1. i < stage'
        BY <1>1, <1>3, <2>2
      <3> QED
        BY <1>1, <1>7, <2>2, <3>1
    <2>3. CASE i > stage
      <3>1. ~(i < stage')
        BY <1>1, <1>3, <2>3
      <3> QED
        BY <1>9, <2>3, <3>1
    <2> QED
      BY <1>1, <1>3, <2>1, <2>2, <2>3
  <1>11. ASSUME NEW i \in DOMAIN pipeline, NEW j \in i+1..Len(pipeline)
         PROVE  Newer(A(pipeline[i]), A(pipeline[j]))
    <2>1. j \in DOMAIN pipeline /\ i < j
      BY <1>3
    <2>2. CASE i = stage
      BY <1>1, <1>9, <2>1, <2>2
    <2>3. CASE j = stage
      BY <1>1, <1>8, <2>1, <2>3
    <2>4. CASE i # stage /\ j # stage
      <3>1. A(pipeline[i]) = At(pipeline[i]) /\ A(pipeline[j]) = At(pipeline[j])
        BY <1>3, <1>4, <2>1, <2>4
      <3> QED
        BY <3>1 DEF Chained
    <2> QED
      BY <2>2, <2>3, <2>4
  <1>12. ASSUME NEW x \in Stages \cup {"list"}
         PROVE  Newer(A(x), A("sent"))
    <2>1. Newer(At("list"), At("sent")) /\ Newer(At(m), At("sent")) /\ Newer(At(x), At("sent"))
      BY DEF Chained
    <2>2. CASE x \in {m, "list"}
      BY <1>4, <1>5, <2>1, <2>2, NewerThan
    <2>3. CASE x \notin {m, "list"}
      BY <1>4, <2>1, <2>3
    <2> QED
      BY <2>2, <2>3
  <1>13. \A n \in Stages : Decreasing(Ids(buf[n])')
    <2>1. \A n \in Stages : Ids(buf[n])' = Ids(buf'[n])
      BY DEF Ids
    <2>2. \A n \in Stages : Decreasing(Ids(buf[n]))
      BY DEF Chained
    <2>3. ASSUME NEW n \in Stages PROVE Decreasing(Ids(buf'[n]))
      BY <1>4, <1>7, <2>2
    <2> QED
      BY <2>1, <2>3
  <1>14. Decreasing(Reverse(sent'))
    BY <1>1 DEF Chained
  <1>15. \A i \in DOMAIN pipeline' :
           /\ IF i < stage' THEN Newer(At(pipeline[i])', At("list")')
                            ELSE Newer(At("list")', At(pipeline[i])')
           /\ \A j \in i+1..Len(pipeline') : Newer(At(pipeline[i])', At(pipeline[j])')
    <2>1. \A i \in DOMAIN pipeline : At(pipeline[i])' = A(pipeline[i])
      BY <1>1 DEF A
    <2>2. \A i \in DOMAIN pipeline : \A j \in i+1..Len(pipeline) : j \in DOMAIN pipeline
      BY <1>3
    <2>3. At("list")' = A("list")
      BY DEF A
    <2> QED
      BY <1>1, <1>10, <1>11, <2>1, <2>2, <2>3
  <1>16. \A x \in Stages' \cup {"list"} : Newer(At(x)', At("sent")')
    BY <1>2, <1>12 DEF A
  <1> QED
    BY <1>2, <1>7, <1>13, <1>14, <1>15, <1>16 DEF Chained

\* A newcomer is newer than all; what is sent is older than what is not.
LEMMA ChainedReceive ==
  ASSUME IInv, Chained, Receive
  PROVE  Chained'
  <1>1. /\ list = <<>> /\ list' = <<arrived + 1>> /\ stage' = 1
        /\ UNCHANGED <<buf, pipeline, sent>>
    BY DEF Receive, Idle
  <1>2. /\ Stages \subseteq Module /\ Stages' = Stages /\ arrived \in Nat
        /\ DOMAIN pipeline = 1..Len(pipeline) /\ Len(pipeline) \in Nat
        /\ \A i \in DOMAIN pipeline : pipeline[i] \in Stages
    BY <1>1, PipelineIs, QueuesAssumption DEF IInv, TypeOK, Stages
  <1>3. ToSet(list') = {arrived + 1} /\ Decreasing(list')
    <2>1. DOMAIN list' = 1..1 /\ list'[1] = arrived + 1
      BY <1>1
    <2> QED
      BY <2>1 DEF ToSet, Decreasing
  <1>4. /\ At("list")' = {arrived + 1} /\ At("sent")' = At("sent")
        /\ \A n \in Stages : At(n)' = At(n)
    BY <1>1, <1>2, <1>3, Ats, AtsNext
  <1>5. \A x \in Places : At(x) \subseteq 1..arrived
    BY DEF IInv, Conserved
  <1>6. \A x \in Stages \cup {"sent"} : Newer({arrived + 1}, At(x))
    <2>1. \A p \in 1..arrived : arrived + 1 > p
      BY <1>2
    <2> QED
      BY <1>5, <2>1 DEF Newer, Places
  <1>7. \A i \in DOMAIN pipeline : ~(i < 1)
    BY <1>2
  <1>8. \A i \in DOMAIN pipeline' :
          /\ IF i < stage' THEN Newer(At(pipeline[i])', At("list")')
                           ELSE Newer(At("list")', At(pipeline[i])')
          /\ \A j \in i+1..Len(pipeline') : Newer(At(pipeline[i])', At(pipeline[j])')
    <2>1. \A i \in DOMAIN pipeline : At(pipeline[i])' = At(pipeline[i])
      BY <1>1, <1>2, <1>4
    <2>2. \A i \in DOMAIN pipeline : \A j \in i+1..Len(pipeline) : j \in DOMAIN pipeline
      BY <1>2
    <2> QED
      BY <1>1, <1>2, <1>4, <1>6, <1>7, <2>1, <2>2 DEF Chained
  <1>9. \A x \in Stages' \cup {"list"} : Newer(At(x)', At("sent")')
    BY <1>2, <1>4, <1>6 DEF Chained
  <1>10. \A n \in Stages' : Decreasing(Ids(buf[n])')
    BY <1>1, <1>2 DEF Chained, Ids
  <1>11. Decreasing(Reverse(sent'))
    BY <1>1 DEF Chained
  <1> QED
    BY <1>3, <1>8, <1>9, <1>10, <1>11 DEF Chained

\* The list's packets are sent from its tail, after those sent before.
LEMMA ReverseOfSent ==
  ASSUME NEW s \in Seq(Id), NEW l \in Seq(Id)
  PROVE  Reverse(s \o Reverse(l)) = l \o Reverse(s)
  <1> DEFINE n == Len(l)
             k == Len(s)
             r == Reverse(l)
             t == Reverse(s)
             u == s \o r
             v == Reverse(u)
             w == l \o t
  <1>1. n \in Nat /\ k \in Nat
    BY LenProperties
  <1>2. /\ r \in Seq(Id) /\ Len(r) = n /\ \A i \in 1..n : r[i] = l[(n - i) + 1]
    BY <1>1, ReverseIs DEF Reverse
  <1>3. /\ t \in Seq(Id) /\ Len(t) = k /\ \A i \in 1..k : t[i] = s[(k - i) + 1]
    BY <1>1, ReverseIs DEF Reverse
  <1>0. Len(s) = k /\ Len(l) = n
    OBVIOUS
  <1> HIDE DEF n, k, r, t
  <1>4. /\ u \in Seq(Id) /\ Len(u) = k + n
        /\ \A i \in 1..k+n : u[i] = IF i <= k THEN s[i] ELSE r[i - k]
    <2>1. /\ u \in Seq(Id) /\ Len(u) = Len(s) + Len(r)
          /\ \A i \in 1..Len(s)+Len(r) : u[i] = IF i <= Len(s) THEN s[i] ELSE r[i - Len(s)]
      BY <1>2, ConcatProperties
    <2> HIDE DEF u
    <2> QED
      BY <1>0, <1>2, <2>1
  <1>5. /\ w \in Seq(Id) /\ Len(w) = n + k
        /\ \A i \in 1..n+k : w[i] = IF i <= n THEN l[i] ELSE t[i - n]
    <2>1. /\ w \in Seq(Id) /\ Len(w) = Len(l) + Len(t)
          /\ \A i \in 1..Len(l)+Len(t) : w[i] = IF i <= Len(l) THEN l[i] ELSE t[i - Len(l)]
      BY <1>3, ConcatProperties
    <2> HIDE DEF w
    <2> QED
      BY <1>0, <1>3, <2>1
  <1>6. /\ v \in Seq(Id) /\ Len(v) = k + n /\ \A i \in 1..k+n : v[i] = u[(k + n - i) + 1]
    BY <1>1, <1>4, ReverseIs DEF Reverse
  <1> HIDE DEF u, v, w
  <1>7. ASSUME NEW i \in 1..n+k PROVE v[i] = w[i]
    <2>1. (k + n - i) + 1 \in 1..k+n /\ i \in 1..k+n
      BY <1>1
    <2>2. v[i] = u[(k + n - i) + 1]
      BY <1>6, <2>1
    <2>3. CASE i <= n
      <3>1. ~((k + n - i) + 1 <= k) /\ (k + n - i) + 1 - k = (n - i) + 1 /\ (n - i) + 1 \in 1..n
        BY <1>1, <2>3
      <3>2. v[i] = r[(n - i) + 1]
        <4> DEFINE j == (k + n - i) + 1
        <4>1. u[j] = r[j - k]
          <5>1. j \in 1..k+n /\ ~(j <= k)
            BY <2>1, <3>1
          <5> HIDE DEF j
          <5> QED
            BY <1>4, <5>1
        <4>2. j - k = (n - i) + 1
          BY <1>1
        <4> HIDE DEF j
        <4>3. u[j] = r[(n - i) + 1]
          BY <4>1, <4>2
        <4> QED
          BY <2>2, <4>3 DEF j
      <3>3. (n - ((n - i) + 1)) + 1 = i
        BY <1>1
      <3>4. r[(n - i) + 1] = l[i]
        BY <1>2, <3>1, <3>3
      <3> QED
        BY <1>5, <2>3, <3>2, <3>4
    <2>4. CASE ~(i <= n)
      <3>1. /\ (k + n - i) + 1 <= k /\ i - n \in 1..k /\ (k - (i - n)) + 1 = (k + n - i) + 1
        BY <1>1, <2>4
      <3>2. v[i] = s[(k + n - i) + 1]
        BY <1>4, <2>1, <2>2, <3>1
      <3>3. t[i - n] = s[(k + n - i) + 1]
        BY <1>3, <3>1
      <3> QED
        BY <1>5, <2>4, <3>2, <3>3
    <2> QED
      BY <2>3, <2>4
  <1>8. v = w
    <2>1. Len(v) = Len(w) /\ Len(v) = n + k
      BY <1>1, <1>5, <1>6
    <2> QED
      BY <1>5, <1>6, <1>7, <2>1, SeqEqual
  <1> QED
    BY <1>8 DEF v, w, u, r, t

LEMMA ChainedSend ==
  ASSUME IInv, Chained, Send
  PROVE  Chained'
  <1>1. /\ sent' = sent \o Reverse(list) /\ list' = <<>> /\ stage = AfterAll
        /\ UNCHANGED <<stage, buf, pipeline>>
    BY DEF Send
  <1>2. /\ Stages \subseteq Module /\ Stages' = Stages /\ list \in Seq(Id) /\ sent \in Seq(Id)
        /\ DOMAIN pipeline = 1..Len(pipeline) /\ Len(pipeline) \in Nat
        /\ \A i \in DOMAIN pipeline : pipeline[i] \in Stages
    BY <1>1, PipelineIs DEF IInv, TypeOK, Stages
  <1>3. Reverse(sent) \in Seq(Id) /\ ToSet(Reverse(sent)) = ToSet(sent) /\ ToSet(Reverse(list)) = ToSet(list)
        /\ Reverse(list) \in Seq(Id)
    BY <1>2, ReverseIs
  <1>4. ToSet(list') = {} /\ Decreasing(list')
    BY <1>1 DEF ToSet, Decreasing
  <1>5. /\ At("list")' = {} /\ At("sent")' = At("sent") \cup At("list")
        /\ \A n \in Stages : At(n)' = At(n)
    <2>1. ToSet(sent') = ToSet(sent) \cup ToSet(list)
      BY <1>1, <1>2, <1>3, Join
    <2> QED
      BY <1>1, <1>2, <1>4, <2>1, Ats, AtsNext
  <1>6. Decreasing(Reverse(sent'))
    <2>1. Reverse(sent') = list \o Reverse(sent)
      BY <1>1, <1>2, ReverseOfSent
    <2>2. Decreasing(list) /\ Decreasing(Reverse(sent)) /\ Newer(ToSet(list), ToSet(Reverse(sent)))
      BY <1>3, Ats DEF Chained
    <2> QED
      BY <1>2, <1>3, <2>1, <2>2, Join
  <1>7. \A i \in DOMAIN pipeline : i < stage
    BY <1>1, <1>2 DEF AfterAll
  <1>8. ASSUME NEW x \in Stages PROVE Newer(At(x), At("sent") \cup At("list"))
    <2>1. PICK i \in DOMAIN pipeline : pipeline[i] = x
      BY PipelineIs DEF IInv, TypeOK
    <2>2. Newer(At(x), At("list")) /\ Newer(At(x), At("sent"))
      BY <1>7, <2>1 DEF Chained
    <2> QED
      BY <2>2, OlderThan
  <1>9. \A x \in Stages' \cup {"list"} : Newer(At(x)', At("sent")')
    <2>1. \A S : Newer({}, S)
      BY DEF Newer
    <2> QED
      BY <1>2, <1>5, <1>8, <2>1
  <1>10. \A i \in DOMAIN pipeline' :
          /\ IF i < stage' THEN Newer(At(pipeline[i])', At("list")')
                           ELSE Newer(At("list")', At(pipeline[i])')
          /\ \A j \in i+1..Len(pipeline') : Newer(At(pipeline[i])', At(pipeline[j])')
    <2>1. \A i \in DOMAIN pipeline : At(pipeline[i])' = At(pipeline[i])
      BY <1>1, <1>2, <1>5
    <2>2. \A i \in DOMAIN pipeline : \A j \in i+1..Len(pipeline) : j \in DOMAIN pipeline
      BY <1>2
    <2>3. \A S : Newer(S, {})
      BY DEF Newer
    <2> QED
      BY <1>1, <1>2, <1>5, <1>7, <2>1, <2>2, <2>3 DEF Chained
  <1>11. \A n \in Stages' : Decreasing(Ids(buf[n])')
    BY <1>1, <1>2 DEF Chained, Ids
  <1> QED
    BY <1>4, <1>6, <1>9, <1>10, <1>11 DEF Chained

\* Steps that move no packet.
LEMMA ChainedSame ==
  ASSUME IInv, Chained, UNCHANGED <<list, pipeline, sent>>,
         stage' = stage \/ list = <<>>,
         NEW c, buf' = c,
         \A m \in Stages : Ids(c[m]) = Ids(buf[m]) /\ IdsOf(c[m]) = IdsOf(buf[m])
  PROVE  Chained'
  <1>1. /\ Stages \subseteq Module /\ Stages' = Stages
        /\ DOMAIN pipeline = 1..Len(pipeline) /\ Len(pipeline) \in Nat
        /\ \A i \in DOMAIN pipeline : pipeline[i] \in Stages
    BY PipelineIs DEF IInv, TypeOK, Stages
  <1>2. /\ At("list")' = At("list") /\ At("sent")' = At("sent")
        /\ \A n \in Stages : At(n)' = At(n)
        /\ list = <<>> => At("list") = {}
    <2>1. ToSet(<<>>) = {}
      BY EmptyBuffer
    <2> QED
      BY <1>1, <2>1, Ats, AtsNext
  <1>3. \A S : Newer({}, S) /\ Newer(S, {})
    BY DEF Newer
  <1>4. \A i \in DOMAIN pipeline' :
          /\ IF i < stage' THEN Newer(At(pipeline[i])', At("list")')
                           ELSE Newer(At("list")', At(pipeline[i])')
          /\ \A j \in i+1..Len(pipeline') : Newer(At(pipeline[i])', At(pipeline[j])')
    <2>1. \A i \in DOMAIN pipeline : At(pipeline[i])' = At(pipeline[i])
      BY <1>1, <1>2
    <2>2. \A i \in DOMAIN pipeline : \A j \in i+1..Len(pipeline) : j \in DOMAIN pipeline
      BY <1>1
    <2>3. \A i \in DOMAIN pipeline : \A j \in i+1..Len(pipeline) :
            Newer(At(pipeline[i]), At(pipeline[j]))
      BY DEF Chained
    <2>4. CASE stage' = stage
      BY <1>2, <2>1, <2>2, <2>3, <2>4 DEF Chained
    <2>5. CASE list = <<>>
      BY <1>2, <1>3, <2>1, <2>2, <2>3, <2>5
    <2> QED
      BY <2>4, <2>5
  <1>5. \A x \in Stages' \cup {"list"} : Newer(At(x)', At("sent")')
    BY <1>1, <1>2 DEF Chained
  <1>6. \A n \in Stages' : Decreasing(Ids(buf[n])')
    BY <1>1 DEF Chained, Ids
  <1> QED
    BY <1>4, <1>5, <1>6 DEF Chained

\* The steps of the threads and of the clock loop, seen from the packets.
LEMMA SettingsAre ==
  ASSUME \/ ClockRun \/ Trigger \/ UNCHANGED vars
         \/ \E m \in Stages : Toggle(m)
         \/ \E t \in LagTimes : SetLagTime(t)
  PROVE  /\ UNCHANGED <<clock, list, buf, frameFrom, forgot, pipeline, arrived, sent, lost, lastOn>>
         /\ \/ UNCHANGED <<stage, late>>
            \/ list = <<>> /\ stage = AfterAll /\ stage' = 1 /\ late' = 0
         /\ UNCHANGED lagTime \/ Idle
  <1>1. CASE ClockRun
    BY <1>1 DEF ClockRun, Idle, moduleVars, frameVars
  <1>2. CASE Trigger
    BY <1>2 DEF Trigger, moduleVars, frameVars
  <1>3. CASE UNCHANGED vars
    BY <1>3 DEF vars, moduleVars, frameVars
  <1>4. ASSUME NEW m \in Stages, Toggle(m)
        PROVE  UNCHANGED <<clock, late, stage, list, buf, lastOn, lagTime, frameFrom, forgot, pipeline,
                           arrived, sent, lost>>
    BY <1>4 DEF Toggle, frameVars
  <1>5. ASSUME NEW t \in LagTimes, SetLagTime(t)
        PROVE  /\ UNCHANGED <<clock, late, stage, list, buf, lastOn, frameFrom, forgot, pipeline,
                              arrived, sent, lost>>
               /\ Idle
    BY <1>5 DEF SetLagTime, frameVars
  <1> QED
    BY <1>1, <1>2, <1>3, <1>4, <1>5

\* The throttle module is known to throttle by its start tick, unless that is 0.
LEMMA FrameVisit ==
  ASSUME IInv, FrameKnown, NEW m \in Stages, Visit(m)
  PROVE  FrameKnown'
  <1>1. Stages' = Stages /\ Turn(m)
    BY VisitTurn DEF Stages
  <1>2. buf \in [Stages -> Seq(Entry)]
    BY DEF IInv, TypeOK
  <1>3. SUFFICES ASSUME "throttle" \in Stages, ~forgot', frameFrom' = 0
                 PROVE  buf'["throttle"] = <<>>
    BY <1>1 DEF FrameKnown
  <1>4. ~forgot
    BY <1>3, VisitShapes
  <1>5. CASE m # "throttle"
    <2>1. frameFrom' = frameFrom
      BY <1>5, VisitShapes
    <2>2. buf'["throttle"] = buf["throttle"]
      BY <1>1, <1>2, <1>3, <1>5 DEF Turn
    <2> QED
      BY <1>3, <1>4, <2>1, <2>2 DEF FrameKnown
  <1>6. CASE m = "throttle"
    <2>1. CASE ThrottleRests
      BY <1>3, <1>4, <2>1 DEF ThrottleRests, FrameKnown
    <2>2. CASE ThrottleFills
      <3> DEFINE in == Taken(list, Room("throttle"))
                 c0 == Enqueue(in, NoDelay(in)) \o buf["throttle"]
                 from0 == IF frameFrom = 0 THEN clock ELSE frameFrom
      <3>1. \/ /\ buf' = [buf EXCEPT !["throttle"] = c0] /\ frameFrom' = from0
               /\ forgot' = (forgot \/ (from0 = 0 /\ c0 # <<>>))
            \/ buf' = [buf EXCEPT !["throttle"] = <<>>]
        BY Zenon, <2>2 DEF ThrottleFills
      <3> HIDE DEF c0, from0
      <3>2. ASSUME NEW c, NEW from, buf' = [buf EXCEPT !["throttle"] = c], frameFrom' = from,
                   forgot' = (forgot \/ (from = 0 /\ c # <<>>))
            PROVE  buf'["throttle"] = <<>>
        <4>1. c = <<>>
          BY Zenon, <1>3, <3>2
        <4> QED
          BY <1>2, <1>3, <3>2, <4>1
      <3> QED
        BY <1>2, <1>3, <3>1, <3>2
    <2>3. CASE m \notin lastOn'
      BY <1>6, <2>3, VisitShapes
    <2>4. m \in on => ThrottleProcess
      BY <1>6 DEF Visit
    <2>5. m \in lastOn' <=> m \in on
      BY VisitShapes
    <2> QED
      BY <2>1, <2>2, <2>3, <2>4, <2>5 DEF ThrottleProcess
  <1> QED
    BY <1>5, <1>6

LEMMA OrderNext ==
  ASSUME IInv, OInv, [Next]_vars
  PROVE  OInv'
  <1>1. AfterAll \in Nat \ {0} /\ Stages \subseteq Module
    BY PipelineIs DEF IInv, TypeOK, AfterAll
  <1>2. /\ OneByOne /\ FrameKnown /\ (Stages \cap {"jitter", "ood"} = {} /\ ~forgot => Chained)
    BY DEF OInv, InOrder, Chained
  <1>3. SUFFICES /\ Stages' = Stages /\ OneByOne' /\ FrameKnown'
                 /\ (Stages \cap {"jitter", "ood"} = {} /\ ~forgot' => Chained')
    BY <1>3 DEF OInv, InOrder, Chained
  <1>4. CASE Receive
    <2>1. /\ list' = <<arrived + 1>> /\ UNCHANGED <<buf, frameFrom, forgot, pipeline>>
      BY <1>4 DEF Receive, frameVars
    <2>2. Stages' = Stages /\ OneByOne' /\ FrameKnown'
      BY <1>2, <2>1 DEF OneByOne, FrameKnown, Stages
    <2> QED
      BY <1>2, <1>4, <2>1, <2>2, ChainedReceive
  <1>5. CASE Send
    <2>1. /\ list' = <<>> /\ UNCHANGED <<buf, frameFrom, forgot, pipeline>>
      BY <1>5 DEF Send, frameVars
    <2>2. Stages' = Stages /\ OneByOne' /\ FrameKnown'
      BY <1>2, <2>1 DEF OneByOne, FrameKnown, Stages
    <2> QED
      BY <1>2, <1>5, <2>1, <2>2, ChainedSend
  <1>6. CASE Tick
    <2>1. /\ list = <<>> /\ UNCHANGED <<stage, list, frameFrom, forgot, pipeline, sent>>
          /\ \A m \in Stages : /\ Ids(buf'[m]) = Ids(buf[m]) /\ IdsOf(buf'[m]) = IdsOf(buf[m])
                               /\ Len(buf'[m]) = Len(buf[m]) /\ buf'[m] \in Seq(Entry)
      BY <1>6, TickIs
    <2>2. Stages' = Stages /\ OneByOne'
      BY <2>1 DEF OneByOne, Stages
    <2>3. Chained => Chained'
      <3> DEFINE c == buf'
      <3>1. \A m \in Stages : Ids(c[m]) = Ids(buf[m]) /\ IdsOf(c[m]) = IdsOf(buf[m])
        BY <2>1
      <3> QED
        BY <2>1, <3>1, ChainedSame
    <2>4. FrameKnown'
      <3>1. ASSUME "throttle" \in Stages, ~forgot, frameFrom = 0 PROVE buf'["throttle"] = <<>>
        <4>1. Len(buf'["throttle"]) = 0
          BY <1>2, <2>1, <3>1 DEF FrameKnown
        <4> QED
          BY <2>1, <3>1, <4>1, EmptySeq
      <3> QED
        BY <2>1, <2>2, <3>1 DEF FrameKnown
    <2> QED
      BY <1>2, <2>1, <2>2, <2>3, <2>4
  <1>7. ASSUME NEW m \in Stages, Visit(m)
        PROVE  /\ Stages' = Stages /\ OneByOne' /\ FrameKnown'
               /\ (Stages \cap {"jitter", "ood"} = {} /\ ~forgot' => Chained')
    <2>1. pipeline' = pipeline /\ stage' = stage + 1 /\ stage \in DOMAIN pipeline
      BY <1>7, VisitTurn
    <2>2. stage' # 1
      <3>1. stage \in Nat \ {0}
        BY <1>1 DEF IInv, TypeOK
      <3> QED
        BY <2>1, <3>1
    <2>3. Stages' = Stages /\ OneByOne'
      BY <2>1, <2>2 DEF Stages, OneByOne
    <2>4. FrameKnown'
      BY <1>2, <1>7, FrameVisit
    <2>5. ASSUME Stages \cap {"jitter", "ood"} = {}, ~forgot' PROVE Chained'
      <3>1. ~forgot
        BY <1>7, <2>5, VisitShapes
      <3>2. Orderly(m)
        BY <1>2, <1>7, <2>5, <3>1, OrderlyVisit
      <3> QED
        BY <1>2, <1>7, <2>5, <3>1, <3>2, ChainedVisit
    <2> QED
      BY <2>3, <2>4, <2>5
  <1>8. CASE \/ ClockRun \/ Trigger \/ UNCHANGED vars
             \/ \E m \in Stages : Toggle(m)
             \/ \E t \in LagTimes : SetLagTime(t)
    <2>1. /\ UNCHANGED <<list, buf, frameFrom, forgot, pipeline, sent>>
          /\ UNCHANGED stage \/ list = <<>>
      BY <1>8, SettingsAre
    <2>2. Stages' = Stages /\ OneByOne' /\ FrameKnown'
      BY <1>2, <2>1 DEF OneByOne, FrameKnown, Stages
    <2>3. Chained => Chained'
      BY <2>1, ChainedSame
    <2> QED
      BY <1>2, <2>1, <2>2, <2>3
  <1> QED
    BY <1>4, <1>5, <1>6, <1>7, <1>8 DEF Next

LEMMA OrderInit ==
  ASSUME Init
  PROVE  OInv
  <1>1. /\ IInv /\ clock = Origin /\ list = <<>> /\ sent = <<>>
        /\ buf = [m \in Stages |-> <<>>]
    BY InitHolds DEF Init
  <1>2. /\ Stages \subseteq Module /\ \A i \in DOMAIN pipeline : pipeline[i] \in Stages
        /\ DOMAIN pipeline = 1..Len(pipeline) /\ Len(pipeline) \in Nat
    BY <1>1, PipelineIs DEF IInv, TypeOK
  <1>3. \A x \in Stages \cup {"list", "sent"} : At(x) = {}
    BY <1>1, <1>2, Ats, EmptyBuffer
  <1>4. /\ Decreasing(<<>>) /\ Decreasing(Ids(<<>>)) /\ Decreasing(Reverse(<<>>))
    <2>1. DOMAIN Reverse(<<>>) = {}
      BY DEF Reverse
    <2> QED
      BY <2>1, EmptyBuffer DEF Decreasing
  <1>5. Chained
    <2>1. \A S : Newer({}, S)
      BY DEF Newer
    <2>2. \A i \in DOMAIN pipeline : \A j \in i+1..Len(pipeline) : j \in DOMAIN pipeline
      BY <1>2
    <2> QED
      BY <1>1, <1>2, <1>3, <1>4, <2>1, <2>2 DEF Chained
  <1>6. OneByOne /\ FrameKnown
    BY <1>1, QueuesAssumption DEF OneByOne, FrameKnown
  <1> QED
    BY <1>5, <1>6 DEF OInv, InOrder, Chained

\* "FIFO preserved": without jitter and ood no packet overtakes another one, through
\* all the modules in use, whichever are switched on and off meanwhile and whether or not
\* the clock wraps, until throttle takes the tick 0 at which a frame began for none.
THEOREM PacketsInOrder == Spec => []InOrder
  <1>1. Init => OInv
    BY OrderInit
  <1>2. IInv /\ OInv /\ [Next]_vars => OInv'
    BY OrderNext
  <1>3. OInv => InOrder
    BY DEF OInv
  <1> QED
    BY <1>1, <1>2, <1>3, QueuesInvariant, PTL DEF Spec

------------------------------------------------------------------------------
(* When packets leave.                                                      *)

\* What the loops of lag, throttle and ood, which stop early, rely on, and what jitter's
\* stamps tell: the frame began at from, and at tick 0 when it is taken for none.
Told(m, b, from) ==
  /\ m \in {"lag", "ood"} =>
       /\ \A e \in ToSet(b) : e.stamp = e.enqueued
       /\ \A i, j \in DOMAIN b : i < j => b[i].waited <= b[j].waited
  /\ m = "jitter" => \A e \in ToSet(b) : e.delay > 0 /\ e.stamp = Plus(e.enqueued, e.delay)
  /\ m = "throttle" =>
       \A e \in ToSet(b) : e.enqueued = 0 \/ (from # 0 /\ e.waited <= Since(clock, from))

\* After its turn ood holds nothing old, and before the next one nothing much older.
Young ==
  \A i \in DOMAIN pipeline : pipeline[i] = "ood" =>
    \A e \in ToSet(buf["ood"]) : e.waited < OodDelay + (IF i < stage THEN late ELSE MaxLate)

\* Neither is a frame of throttle's much longer than it should be.
Brief ==
  /\ "throttle" \notin lastOn => frameFrom = 0
  /\ \A i \in DOMAIN pipeline : pipeline[i] = "throttle" /\ frameFrom # 0 =>
       Since(clock, frameFrom) <= Frame + (IF i < stage THEN late ELSE MaxLate)

TInv == Young /\ Brief /\ \A m \in Stages : Told(m, buf[m], frameFrom)

\* An empty buffer holds nothing too long.
LEMMA ToldNothing ==
  ASSUME NEW m, NEW from
  PROVE  Told(m, <<>>, from)
  BY EmptyBuffer DEF Told

\* How lag and jitter compare times: the clock is beyond the time at which a node is due
\* only if the node has waited for so long, and, while the model counts how long it has
\* waited, if the node has; but for one that arrived shortly before the wrap.
LEMMA WaitedIs ==
  ASSUME IInv, NEW m \in Stages, NEW e \in ToSet(buf[m]), e.enqueued + Longest < Modulus,
         NEW d \in Nat, d < Longest
  PROVE  /\ Plus(e.enqueued, d) = e.enqueued + d
         /\ clock > e.enqueued + d => e.waited > d
         /\ e.waited # Longest /\ e.waited > d => clock > e.enqueued + d
  <1> DEFINE q == e.enqueued
             w == e.waited
  <1>1. /\ clock \in 0..Modulus-1 /\ Modulus \in Nat \ {0} /\ Longest \in Nat
    BY QueuesAssumption, LongestIs DEF IInv, TypeOK
  <1>2. e \in Entry
    BY LenProperties DEF IInv, TypeOK, ToSet
  <1>3. q \in 0..Modulus-1 /\ w \in 0..Longest
    BY <1>2 DEF Entry
  <1>4. w = Longest \/ Since(clock, q) = w
    BY DEF IInv, Measures, Measured
  <1>5. Since(clock, q) = IF clock >= q THEN clock - q ELSE clock + Modulus - q
    BY <1>1, <1>3, ClockIs
  <1> DEFINE s == Since(clock, q)
  <1>6. /\ q + Longest < Modulus /\ (w = Longest \/ s = w)
        /\ s = IF clock >= q THEN clock - q ELSE clock + Modulus - q
    BY <1>4, <1>5
  <1> HIDE DEF q, w, s
  <1>7. Plus(q, d) = q + d
    <2>1. q + d \in 0..Modulus-1
      BY <1>1, <1>3, <1>6
    <2>2. (q + d) % Modulus = q + d
      BY <1>1, <2>1
    <2> QED
      BY <2>2 DEF Plus
  <1>8. clock > q + d => w > d
    BY <1>1, <1>3, <1>6
  <1>9. w # Longest /\ w > d => clock > q + d
    <2>1. CASE clock >= q
      BY <1>1, <1>3, <1>6, <2>1
    <2>2. CASE ~(clock >= q)
      <3>1. s > Longest
        BY <1>1, <1>3, <1>6, <2>2
      <3> QED
        BY <1>1, <1>3, <1>6, <3>1
    <2> QED
      BY <2>1, <2>2
  <1> QED
    BY <1>7, <1>8, <1>9 DEF q, w

\* Node by node, a buffer b with nodes for in, a of them, put before those of c, z of them.
Built(b, in, d, c, a, z) ==
  /\ b \in Seq(Entry) /\ Len(b) = a + z /\ a \in Nat /\ z \in Nat
  /\ DOMAIN b = 1..a+z /\ DOMAIN in = 1..a /\ DOMAIN c = 1..z
  /\ \A i \in 1..a :
       /\ b[i].enqueued = clock /\ b[i].waited = 0
       /\ b[i].delay = d[i] /\ b[i].stamp = Plus(clock, d[i])
  /\ \A i \in a+1..a+z : b[i] = c[i - a] /\ i - a \in DOMAIN c
  /\ \A i \in DOMAIN c : b[a + i] = c[i] /\ a + i \in DOMAIN b

LEMMA EnqueuedAre ==
  ASSUME clock \in 0..Modulus-1,
         NEW in \in Seq(Id), NEW d \in [DOMAIN in -> 0..JitterMax], NEW c \in Seq(Entry),
         NEW b, b = Enqueue(in, d) \o c
  PROVE  Built(b, in, d, c, Len(in), Len(c))
  <1> DEFINE a == Enqueue(in, d)
             l == Len(in)
             k == Len(c)
  <1>1. /\ l \in Nat /\ k \in Nat /\ DOMAIN in = 1..l /\ DOMAIN c = 1..k
        /\ \A i \in 1..l : in[i] \in Id
    BY LenProperties
  <1>2. /\ b \in Seq(Entry) /\ Len(b) = l + k
    BY Enqueued
  <1>3. a = [i \in 1..l |-> [id |-> in[i], stamp |-> Plus(clock, d[i]), enqueued |-> clock,
                             delay |-> d[i], waited |-> 0]]
    BY <1>1 DEF Enqueue
  <1>4. \A i \in 1..l : /\ a[i].enqueued = clock /\ a[i].waited = 0
                        /\ a[i].delay = d[i] /\ a[i].stamp = Plus(clock, d[i])
    BY <1>3
  <1>5. b = a \o c
    OBVIOUS
  <1> HIDE DEF a
  <1>6. DOMAIN a = 1..l /\ Len(a) = l
    BY <1>1, <1>3
  <1>7. /\ \A i \in 1..l : b[i] = a[i]
        /\ \A i \in l+1..l+k : b[i] = c[i - l]
    BY <1>1, <1>5, <1>6
  <1> HIDE DEF l, k
  <1>8. \A i \in l+1..l+k : i - l \in 1..k
    BY <1>1
  <1>9. \A i \in 1..k : l + i \in l+1..l+k /\ l + i \in 1..l+k /\ (l + i) - l = i
    BY <1>1
  <1>10. DOMAIN b = 1..l+k
    BY <1>2, LenProperties
  <1> QED
    BY <1>1, <1>2, <1>4, <1>7, <1>8, <1>9, <1>10 DEF l, k, Built

\* A module takes no more than what is on the list.
LEMMA TakenLength ==
  ASSUME NEW l \in Seq(Id), NEW room \in Nat
  PROVE  Len(Taken(l, room)) <= Len(l)
  <1> DEFINE s == Matching(l)
             k == IF Len(s) < room THEN Len(s) ELSE room
  <1>1. s \in Seq(Id) /\ Len(s) \in Nat /\ Len(s) <= Len(l) /\ Len(l) \in Nat
    BY OnlyFacts, OnlyLength, LenProperties DEF Matching
  <1>2. Taken(l, room) = Rear(s, k)
    BY DEF Taken
  <1> HIDE DEF s
  <1>3. k \in 0..Len(s)
    BY <1>1
  <1> HIDE DEF k
  <1>4. Len(Rear(s, k)) = k
    BY <1>1, <1>3, Ends
  <1> QED
    BY <1>1, <1>2, <1>3, <1>4

LEMMA RoomIs ==
  ASSUME NEW m
  PROVE  Len(buf[m]) \in Nat => Room(m) \in Nat
  BY QueuesAssumption DEF Room

\* Lag lets out what is due and nothing else: its scan from the tail stops at a node
\* that is not due, and none of those before it is; unless the clock's wrap misleads it
\* about a node of its buffer.
LEMMA LagTimely ==
  ASSUME IInv, TInv, "lag" \in Stages, LagProcess
  PROVE  /\ Told("lag", buf'["lag"], frameFrom')
         /\ \A x : \A i \in DOMAIN buf'["lag"] :
              buf'["lag"][i].waited <= lagTime \/ Excused("lag", x)
         /\ Len(buf["lag"]) + Len(list) < KeepAtMost =>
              \A i \in DOMAIN buf["lag"] :
                buf["lag"][i].id \notin IdsOf(buf'["lag"]) =>
                  buf["lag"][i].waited > lagTime \/ Misled("lag", buf["lag"][i])
  <1> DEFINE in == Taken(list, Room("lag"))
             c == buf["lag"]
             d == NoDelay(in)
             b == Enqueue(in, d) \o c
             n == Run(b, LagOverdue(b))
             rest == Fore(b, n)
             f == Flushed(rest)
             keep == Fore(rest, f)
             a == Len(in)
             z == Len(c)
             q == a + z - n
  <1>1. Given("lag") /\ clock \in 0..Modulus-1 /\ list \in Seq(Id)
    BY GivenHolds DEF Given
  <1>2. buf'["lag"] = keep
    <2>1. buf' = [buf EXCEPT !["lag"] = keep]
      BY Zenon DEF LagProcess, Release
    <2> QED
      BY <1>1, <2>1 DEF Given
  <1>3. /\ in \in Seq(Id) /\ c \in Seq(Entry) /\ d \in [DOMAIN in -> 0..JitterMax]
        /\ Len(in) <= Len(list) /\ Len(c) \in Nat /\ Len(list) \in Nat
        /\ Len(in) + Len(c) <= KeepAtMost
    <2>1. Len(c) \in Nat /\ Len(list) \in Nat
      BY <1>1, LenProperties DEF Given
    <2>2. Len(in) <= Len(list)
      BY <1>1, <2>1, RoomIs, TakenLength
    <2> QED
      BY <1>1, <2>1, <2>2, Taking DEF Given
  <1>4. \A i \in DOMAIN in : d[i] = 0
    BY DEF NoDelay
  <1>5. /\ Modulus \in Nat \ {0} /\ Longest \in Nat /\ lagTime \in Nat /\ lagTime < Longest
        /\ Plus(clock, 0) = clock
    <2>1. lagTime \in LagTimes /\ lagTime \in Nat /\ MaxLate \in Nat
      BY QueuesAssumption DEF IInv, TypeOK
    <2>2. Longest \in Nat /\ lagTime < Longest
      <3>1. Longest \in Nat /\ lagTime + MaxLate < Longest
        BY <2>1, LongestIs
      <3> QED
        BY <2>1, <3>1
    <2>3. Plus(clock, 0) = clock
      <3>1. clock % Modulus = clock
        BY <1>1, QueuesAssumption
      <3> QED
        BY <1>1, <3>1, QueuesAssumption DEF Plus
    <2> QED
      BY <2>1, <2>2, <2>3, QueuesAssumption
  <1>6. \A i \in DOMAIN c :
          /\ c[i].stamp = c[i].enqueued /\ c[i].waited \in 0..Longest
          /\ c[i].enqueued + Longest < Modulus =>
               /\ clock > Plus(c[i].stamp, lagTime) => c[i].waited > lagTime
               /\ c[i].waited # Longest /\ c[i].waited > lagTime =>
                    clock > Plus(c[i].stamp, lagTime)
    <2>1. ASSUME NEW i \in DOMAIN c
          PROVE  /\ c[i].stamp = c[i].enqueued /\ c[i].waited \in 0..Longest
                 /\ c[i].enqueued + Longest < Modulus =>
                      /\ clock > Plus(c[i].stamp, lagTime) => c[i].waited > lagTime
                      /\ c[i].waited # Longest /\ c[i].waited > lagTime =>
                           clock > Plus(c[i].stamp, lagTime)
      <3> DEFINE e == c[i]
      <3>1. e \in ToSet(buf["lag"])
        BY DEF ToSet
      <3>2. e \in Entry
        BY <1>3, LenProperties
      <3> HIDE DEF e
      <3>3. e.stamp = e.enqueued /\ e.waited \in 0..Longest
        BY <3>1, <3>2 DEF TInv, Told, Entry
      <3>4. ASSUME e.enqueued + Longest < Modulus
            PROVE  /\ Plus(e.enqueued, lagTime) = e.enqueued + lagTime
                   /\ clock > e.enqueued + lagTime => e.waited > lagTime
                   /\ e.waited # Longest /\ e.waited > lagTime => clock > e.enqueued + lagTime
        BY <1>5, <3>1, <3>4, WaitedIs
      <3> QED
        BY <3>3, <3>4 DEF e
    <2> QED
      BY <2>1
  <1>7. \A i, j \in DOMAIN c : i < j => c[i].waited <= c[j].waited
    BY DEF TInv, Told
  <1>8. \A e : e \in LagOverdue(b) <=> e \in ToSet(b) /\ clock > Plus(e.stamp, lagTime)
    BY DEF LagOverdue
  <1> HIDE DEF in, d, c
  <1>9. /\ b \in Seq(Entry) /\ Len(b) = a + z /\ a \in Nat /\ z \in Nat
        /\ DOMAIN b = 1..a+z /\ DOMAIN c = 1..z /\ DOMAIN in = 1..a
        /\ \A i \in 1..a : b[i].enqueued = clock /\ b[i].waited = 0 /\ b[i].stamp = clock
        /\ \A i \in a+1..a+z : b[i] = c[i - a] /\ i - a \in DOMAIN c
        /\ \A i \in DOMAIN c : b[a + i] = c[i] /\ a + i \in DOMAIN b
    <2>1. b = Enqueue(in, d) \o c
      OBVIOUS
    <2> HIDE DEF b
    <2>2. Built(b, in, d, c, a, z)
      BY <1>1, <1>3, <2>1, EnqueuedAre
    <2> HIDE DEF a, z
    <2>3. \A i \in 1..a : b[i].stamp = clock
      BY <1>4, <1>5, <2>2 DEF Built
    <2> QED
      BY <2>2, <2>3 DEF Built
  <1> HIDE DEF a, z, b
  <1>10. \A i \in DOMAIN b : i \in 1..a \/ i \in a+1..a+z
    BY <1>9
  <1>12. \A i \in DOMAIN b : b[i].stamp = b[i].enqueued /\ b[i].waited \in 0..Longest
    <2>1. ASSUME NEW i \in 1..a
          PROVE  b[i].stamp = b[i].enqueued /\ b[i].waited \in 0..Longest
      <3>1. b[i].enqueued = clock /\ b[i].waited = 0 /\ b[i].stamp = clock
        BY <1>9
      <3> QED
        BY <1>5, <3>1
    <2>2. ASSUME NEW i \in a+1..a+z
          PROVE  b[i].stamp = b[i].enqueued /\ b[i].waited \in 0..Longest
      <3>1. PICK k \in DOMAIN c : b[i] = c[k]
        BY <1>9
      <3> QED
        BY <1>6, <3>1
    <2> QED
      BY <1>10, <2>1, <2>2
  <1>13. ASSUME NEW i \in DOMAIN b, NEW j \in DOMAIN b, i < j
         PROVE  b[i].waited <= b[j].waited
    <2>1. CASE i \in 1..a
      <3>1. b[i].waited = 0 /\ b[j].waited \in 0..Longest
        BY <1>9, <1>12, <2>1
      <3> QED
        BY <1>5, <3>1
    <2>2. CASE i \in a+1..a+z
      <3>1. j \in a+1..a+z /\ i - a < j - a
        BY <1>9, <1>13, <2>2
      <3> QED
        BY <1>7, <1>9, <2>2, <3>1
    <2> QED
      BY <1>10, <2>1, <2>2
  <1>14. /\ n \in 0..a+z
         /\ \A i \in q+1..a+z : b[i] \in LagOverdue(b)
         /\ n = a + z \/ b[q] \notin LagOverdue(b)
    <2>1. /\ n \in 0..Len(b)
          /\ \A i \in Len(b)-n+1..Len(b) : b[i] \in LagOverdue(b)
          /\ n = Len(b) \/ b[Len(b) - n] \notin LagOverdue(b)
      BY <1>9, RunIs
    <2> HIDE DEF n
    <2> QED
      BY <1>9, <2>1
  <1> HIDE DEF n
  <1>15. q \in 0..a+z
    BY <1>9, <1>14
  <1>16. /\ rest \in Seq(Entry) /\ Len(rest) = q /\ \A i \in 1..q : rest[i] = b[i]
    <2>1. /\ rest \in Seq(Entry) /\ Len(rest) = Len(b) - n
          /\ \A i \in 1..Len(b)-n : rest[i] = b[i]
      <3>1. n \in 0..Len(b)
        BY <1>9, <1>14
      <3> QED
        BY <1>9, <3>1, Ends
    <2> HIDE DEF rest
    <2> QED
      BY <1>9, <1>14, <2>1
  <1> HIDE DEF rest
  <1>17. f \in 0..q /\ (q < KeepAtMost => f = 0)
    BY <1>3, <1>9, <1>14, <1>15, <1>16, QueuesAssumption DEF Flushed
  <1> HIDE DEF f
  <1>18. /\ keep \in Seq(Entry) /\ Len(keep) = q - f /\ DOMAIN keep = 1..q-f
         /\ \A i \in 1..q-f : keep[i] = rest[i]
    <2>1. /\ keep \in Seq(Entry) /\ Len(keep) = Len(rest) - f
          /\ \A i \in 1..Len(rest)-f : keep[i] = rest[i]
      <3>1. f \in 0..Len(rest)
        BY <1>16, <1>17
      <3> QED
        BY <1>16, <3>1, Ends
    <2> HIDE DEF keep
    <2> QED
      BY <1>16, <2>1, LenProperties
  <1> HIDE DEF keep
  <1>19. \A i \in DOMAIN keep : i \in 1..q /\ i \in DOMAIN b /\ keep[i] = b[i]
    BY <1>9, <1>15, <1>16, <1>17, <1>18
  <1>20. ASSUME NEW i \in DOMAIN keep, NEW x, ~Excused("lag", x)
         PROVE  keep[i].waited <= lagTime
    <2>1. i \in 1..q /\ i \in DOMAIN b /\ keep[i] = b[i]
      BY <1>19
    <2>2. q \in DOMAIN b /\ n # a + z
      BY <1>9, <1>14, <1>15, <2>1
    <2>3. b[q] \notin LagOverdue(b) /\ b[q] \in ToSet(b)
      BY <1>14, <2>2 DEF ToSet
    <2>4. ~(clock > Plus(b[q].stamp, lagTime))
      BY <1>8, <2>3
    <2>5. b[i].waited <= b[q].waited
      <3>1. i = q \/ i < q
        BY <1>15, <2>1
      <3>2. b[q].waited \in 0..Longest
        BY <1>12, <2>2
      <3>3. b[q].waited <= b[q].waited
        BY <1>5, <3>2
      <3> QED
        BY <1>13, <2>1, <2>2, <3>1, <3>3
    <2>6. b[q].waited <= lagTime
      <3>1. CASE q \in 1..a
        <4>1. b[q].waited = 0
          BY <1>9, <3>1
        <4> QED
          BY <1>5, <4>1
      <3>2. CASE q \in a+1..a+z
        <4>1. PICK k \in DOMAIN c : b[q] = c[k]
          BY <1>9, <3>2
        <4> DEFINE e == c[k]
        <4>2. e \in ToSet(buf["lag"])
          BY DEF c, ToSet
        <4>3. e.enqueued + Longest < Modulus /\ e.waited # Longest
          <5>1. ~Misled("lag", e) /\ e.waited # Longest
            BY <1>20, <4>2 DEF Excused
          <5>2. ~(e.enqueued + Longest >= Modulus)
            BY <5>1 DEF Misled
          <5>3. e.enqueued \in 0..Modulus-1
            <6>1. e \in Entry
              BY <1>3, LenProperties
            <6> QED
              BY <6>1 DEF Entry
          <5> HIDE DEF e
          <5> QED
            BY <1>5, <5>1, <5>2, <5>3
        <4>4. ~(e.waited > lagTime) /\ e.waited \in 0..Longest
          BY <1>6, <2>4, <4>1, <4>3
        <4> HIDE DEF e
        <4>5. e.waited <= lagTime
          BY <1>5, <4>4
        <4> QED
          BY <4>1, <4>5 DEF e
      <3> QED
        BY <1>10, <2>2, <3>1, <3>2
    <2>7. b[i].waited \in 0..Longest /\ b[q].waited \in 0..Longest
      BY <1>12, <2>1, <2>2
    <2> QED
      BY <1>5, <2>1, <2>5, <2>6, <2>7
  <1>21. Told("lag", keep, frameFrom')
    <2>1. \A e \in ToSet(keep) : e.stamp = e.enqueued
      BY <1>12, <1>19 DEF ToSet
    <2>2. \A i, j \in DOMAIN keep : i < j => keep[i].waited <= keep[j].waited
      BY <1>13, <1>19
    <2> QED
      BY <2>1, <2>2 DEF Told
  <1>22. ASSUME z + Len(list) < KeepAtMost, NEW i \in DOMAIN c, c[i].id \notin IdsOf(keep),
                ~Misled("lag", c[i])
         PROVE  c[i].waited > lagTime
    <2>1. q < KeepAtMost /\ f = 0
      <3>1. a <= Len(list) /\ KeepAtMost \in Nat
        BY <1>3, QueuesAssumption DEF a
      <3>2. q < KeepAtMost
        BY <1>3, <1>9, <1>14, <1>22, <3>1
      <3> QED
        BY <1>17, <3>2
    <2>2. b[a + i] = c[i] /\ a + i \in DOMAIN b
      BY <1>9
    <2>3. a + i \notin 1..q
      <3>1. ASSUME a + i \in 1..q PROVE FALSE
        <4> DEFINE j == a + i
        <4>1. j \in DOMAIN keep
          BY <1>15, <1>18, <2>1, <3>1
        <4>2. keep[j] = c[i]
          BY <1>19, <2>2, <4>1
        <4> HIDE DEF j
        <4> QED
          BY <1>22, <4>1, <4>2 DEF IdsOf
      <3> QED
        BY <3>1
    <2>4. a + i \in q+1..a+z
      BY <1>9, <1>15, <2>2, <2>3
    <2>5. clock > Plus(c[i].stamp, lagTime)
      BY <1>8, <1>14, <2>2, <2>4
    <2>6. c[i].enqueued + Longest < Modulus
      <3> DEFINE e == c[i]
      <3>1. ~(e.enqueued + Longest >= Modulus)
        BY <1>22 DEF Misled
      <3>2. e \in Entry
        BY <1>3, LenProperties
      <3>3. e.enqueued \in 0..Modulus-1
        BY <3>2 DEF Entry
      <3> HIDE DEF e
      <3>4. e.enqueued + Longest < Modulus
        BY <1>5, <3>1, <3>3
      <3> QED
        BY <3>4 DEF e
    <2> QED
      BY <1>6, <2>5, <2>6
  <1> QED
    BY <1>2, <1>20, <1>21, <1>22 DEF c, z

\* Jitter lets out every node whose time has come, and no other; unless the clock's wrap
\* misleads it about the node.
LEMMA JitterTimely ==
  ASSUME IInv, TInv, "jitter" \in Stages, JitterProcess
  PROVE  /\ Told("jitter", buf'["jitter"], frameFrom')
         /\ \A i \in DOMAIN buf'["jitter"] :
              \/ buf'["jitter"][i].waited <= Patience("jitter", buf'["jitter"][i])
              \/ Excused("jitter", buf'["jitter"][i])
         /\ Len(buf["jitter"]) + Len(list) < KeepAtMost =>
              \A i \in DOMAIN buf["jitter"] :
                buf["jitter"][i].id \notin IdsOf(buf'["jitter"]) =>
                  \/ buf["jitter"][i].waited > Patience("jitter", buf["jitter"][i])
                  \/ Misled("jitter", buf["jitter"][i])
  <1> DEFINE in == Taken(list, Room("jitter"))
             c == buf["jitter"]
  <1>1. PICK d \in [DOMAIN in -> JitterMin..JitterMax] :
          LET b == Enqueue(in, d) \o c
              due == JitterDue(b)
              rest == Only(b, ToSet(b) \ ToSet(due))
          IN buf' = [buf EXCEPT !["jitter"] = Fore(rest, Flushed(rest))]
    BY Zenon DEF JitterProcess, Release
  <1> DEFINE b == Enqueue(in, d) \o c
             due == JitterDue(b)
             rest == Only(b, ToSet(b) \ ToSet(due))
             f == Flushed(rest)
             keep == Fore(rest, f)
             a == Len(in)
             z == Len(c)
  <1>2. Given("jitter") /\ clock \in 0..Modulus-1 /\ list \in Seq(Id)
    BY GivenHolds DEF Given
  <1>3. buf'["jitter"] = keep
    <2>1. buf' = [buf EXCEPT !["jitter"] = keep]
      BY <1>1, Zenon
    <2> QED
      BY <1>2, <2>1 DEF Given
  <1>4. /\ in \in Seq(Id) /\ c \in Seq(Entry) /\ Len(in) <= Len(list) /\ Len(c) \in Nat
        /\ Len(list) \in Nat /\ Len(in) + Len(c) <= KeepAtMost
    <2>1. Len(c) \in Nat /\ Len(list) \in Nat
      BY <1>2, LenProperties DEF Given
    <2>2. Len(in) <= Len(list)
      BY <1>2, <2>1, RoomIs, TakenLength
    <2> QED
      BY <1>2, <2>1, <2>2, Taking DEF Given
  <1>5. d \in [DOMAIN in -> 0..JitterMax]
    <2>1. JitterMin..JitterMax \subseteq 0..JitterMax
      BY QueuesAssumption
    <2> QED
      BY <2>1
  <1>6. /\ clock \in Nat /\ Modulus \in Nat \ {0} /\ Longest \in Nat
        /\ JitterMax \in Nat /\ JitterMax < Longest
        /\ Plus(clock, 0) = clock
    <2>1. Longest \in Nat /\ JitterMax \in Nat /\ JitterMax < Longest
      BY QueuesAssumption, LongestIs
    <2>2. clock \in 0..Modulus-1 /\ Modulus \in Nat \ {0}
      BY <1>2, QueuesAssumption
    <2>3. clock % Modulus = clock
      BY ONLY <2>2
    <2>4. clock \in Nat /\ Plus(clock, 0) = clock
      BY <2>2, <2>3 DEF Plus
    <2> QED
      BY <2>1, <2>2, <2>4
  <1>7. \A i \in DOMAIN c :
          /\ c[i].stamp = Plus(c[i].enqueued, c[i].delay)
          /\ c[i].delay \in 1..JitterMax /\ c[i].waited \in 0..Longest
          /\ c[i].enqueued \in 0..Modulus-1 /\ c[i] \in ToSet(buf["jitter"])
    <2>1. \A e \in ToSet(buf["jitter"]) :
            /\ e.delay > 0 /\ e.stamp = Plus(e.enqueued, e.delay)
      BY DEF TInv, Told
    <2>2. \A e \in Entry : /\ e.delay \in 0..JitterMax /\ e.waited \in 0..Longest
                           /\ e.enqueued \in 0..Modulus-1
      BY DEF Entry
    <2>3. \A i \in DOMAIN c : c[i] \in ToSet(buf["jitter"])
      BY DEF ToSet
    <2>4. \A i \in DOMAIN c : c[i] \in Entry
      BY <1>4, LenProperties
    <2>5. \A t \in 0..JitterMax : t > 0 => t \in 1..JitterMax
      BY <1>6
    <2> QED
      BY <2>1, <2>2, <2>3, <2>4, <2>5
  <1>due. ASSUME NEW e \in ToSet(buf["jitter"]), e.delay \in 1..JitterMax,
                e.enqueued \in 0..Modulus-1, ~Misled("jitter", e)
         PROVE  /\ clock >= Plus(e.enqueued, e.delay) => e.waited > e.delay - 1
                /\ e.waited # Longest /\ e.waited > e.delay - 1 =>
                     clock >= Plus(e.enqueued, e.delay)
    <2> DEFINE q == e.enqueued
               t == e.delay
               w == e.waited
    <2>1. t \in 1..JitterMax /\ q \in 0..Modulus-1 /\ q + Longest < Modulus
      <3>1. ~(q + Longest >= Modulus)
        BY <1>due DEF Misled
      <3>2. t \in 1..JitterMax /\ q \in 0..Modulus-1
        BY <1>due
      <3> HIDE DEF q
      <3> QED
        BY <1>6, <3>1, <3>2
    <2>2. t \in Nat /\ t < Longest /\ t - 1 \in Nat /\ t - 1 < Longest
      <3> HIDE DEF t
      <3> QED
        BY <1>6, <2>1
    <2>3. Plus(q, t) = q + t
      BY <1>due, <2>1, <2>2, WaitedIs
    <2>4. /\ clock > q + (t - 1) => w > t - 1
          /\ w # Longest /\ w > t - 1 => clock > q + (t - 1)
      <3> DEFINE u == t - 1
      <3>1. u \in Nat /\ u < Longest
        BY <2>2
      <3> HIDE DEF u
      <3>2. /\ clock > q + u => w > u
            /\ w # Longest /\ w > u => clock > q + u
        BY <1>due, <2>1, <3>1, WaitedIs
      <3> QED
        BY <3>2 DEF u
    <2> HIDE DEF q, t, w
    <2>5. clock >= q + t <=> clock > q + (t - 1)
      BY <1>6, <2>1, <2>2
    <2> QED
      BY <2>3, <2>4, <2>5 DEF q, t, w
  <1> HIDE DEF in, c
  <1>8. Built(b, in, d, c, a, z)
    <2>1. b = Enqueue(in, d) \o c
      OBVIOUS
    <2> HIDE DEF b
    <2> QED
      BY <1>2, <1>4, <1>5, <2>1, EnqueuedAre
  <1> HIDE DEF a, z, b
  <1>9. /\ b \in Seq(Entry) /\ Len(b) = a + z /\ a \in Nat /\ z \in Nat
        /\ DOMAIN b = 1..a+z /\ DOMAIN in = 1..a
    BY <1>8 DEF Built
  <1>10. \A i \in DOMAIN b :
           /\ b[i].stamp = Plus(b[i].enqueued, b[i].delay)
           /\ \/ b[i].waited = 0 /\ b[i].delay \in 0..JitterMax /\ b[i].enqueued = clock
              \/ \E k \in DOMAIN c : b[i] = c[k]
    <2>1. ASSUME NEW i \in 1..a
          PROVE  /\ b[i].stamp = Plus(b[i].enqueued, b[i].delay)
                 /\ b[i].waited = 0 /\ b[i].delay \in 0..JitterMax /\ b[i].enqueued = clock
      <3>1. /\ b[i].enqueued = clock /\ b[i].waited = 0
            /\ b[i].delay = d[i] /\ b[i].stamp = Plus(clock, d[i])
        BY <1>8 DEF Built
      <3>2. d[i] \in 0..JitterMax
        BY <1>5, <1>9
      <3> QED
        BY <3>1, <3>2
    <2>2. ASSUME NEW i \in a+1..a+z
          PROVE  /\ b[i].stamp = Plus(b[i].enqueued, b[i].delay)
                 /\ \E k \in DOMAIN c : b[i] = c[k]
      <3>1. PICK k \in DOMAIN c : b[i] = c[k]
        BY <1>8 DEF Built
      <3> QED
        BY <1>7, <3>1
    <2>3. \A i \in DOMAIN b : i \in 1..a \/ i \in a+1..a+z
      BY <1>9
    <2> QED
      BY <2>1, <2>2, <2>3
  <1>11. /\ ToSet(due) = ToSet(b) \cap {e \in ToSet(b) : clock >= e.stamp}
         /\ rest \in Seq(Entry)
         /\ ToSet(rest) = ToSet(b) \cap (ToSet(b) \ ToSet(due))
         /\ Len(rest) \in Nat /\ Len(rest) <= Len(b)
    BY <1>9, OnlyFacts, OnlyLength DEF JitterDue
  <1> HIDE DEF due, rest
  <1>12. f \in 0..Len(rest) /\ (Len(rest) < KeepAtMost => f = 0)
    BY <1>4, <1>11, QueuesAssumption DEF Flushed
  <1> HIDE DEF f
  <1>13. /\ keep \in Seq(Entry) /\ ToSet(keep) \subseteq ToSet(rest)
         /\ f = 0 => ToSet(keep) = ToSet(rest)
    <2>1. /\ keep \in Seq(Entry) /\ Len(keep) = Len(rest) - f
          /\ \A i \in 1..Len(rest)-f : keep[i] = rest[i]
      BY <1>11, <1>12, Ends
    <2>2. ToSet(keep) \subseteq ToSet(rest)
      BY <1>11, <1>12, EndsWithin
    <2>3. ASSUME f = 0 PROVE ToSet(keep) = ToSet(rest)
      <3> HIDE DEF keep
      <3>1. DOMAIN keep = 1..Len(rest) /\ DOMAIN rest = 1..Len(rest)
        BY <1>11, <2>1, <2>3, LenProperties
      <3> QED
        BY <1>11, <2>1, <2>3, <3>1 DEF ToSet
    <2> QED
      BY <2>1, <2>2, <2>3
  <1> HIDE DEF keep
  <1>14. ASSUME NEW e \in ToSet(keep)
         PROVE  /\ e.delay > 0 /\ e.stamp = Plus(e.enqueued, e.delay)
                /\ e.waited <= Patience("jitter", e) \/ Excused("jitter", e)
    <2>1. e \in ToSet(b) /\ ~(clock >= e.stamp)
      BY <1>11, <1>13
    <2>2. /\ e.stamp = Plus(e.enqueued, e.delay)
          /\ \/ e.waited = 0 /\ e.delay \in 0..JitterMax /\ e.enqueued = clock
             \/ \E k \in DOMAIN c : e = c[k]
      BY <1>10, <2>1 DEF ToSet
    <2>3. Patience("jitter", e) = IF e.delay = 0 THEN 0 ELSE e.delay - 1
      BY DEF Patience
    <2>4. CASE e.waited = 0 /\ e.delay \in 0..JitterMax /\ e.enqueued = clock
      <3>1. e.delay # 0
        <4>1. clock >= clock
          BY <1>6
        <4> QED
          BY <1>6, <2>1, <2>2, <2>4, <4>1
      <3> DEFINE t == e.delay
      <3>2. t \in 0..JitterMax /\ t # 0
        BY <2>4, <3>1
      <3> HIDE DEF t
      <3>3. t > 0 /\ 0 <= t - 1
        BY <1>6, <3>2
      <3> QED
        BY <2>2, <2>3, <2>4, <3>1, <3>3 DEF t
    <2>5. CASE \E k \in DOMAIN c : e = c[k]
      <3>1. /\ e \in ToSet(buf["jitter"]) /\ e.delay \in 1..JitterMax
            /\ e.enqueued \in 0..Modulus-1 /\ e.waited \in 0..Longest
        BY <1>7, <2>5
      <3>2. e.delay > 0 /\ e.delay # 0 /\ e.delay - 1 \in Nat
        <4> DEFINE t == e.delay
        <4>1. t \in 1..JitterMax
          BY <3>1
        <4> HIDE DEF t
        <4>2. t > 0 /\ t # 0 /\ t - 1 \in Nat
          BY <1>6, <4>1
        <4> QED
          BY <4>2 DEF t
      <3>3. ASSUME ~Excused("jitter", e) PROVE e.waited <= e.delay - 1
        <4>1. ~Misled("jitter", e) /\ e.waited # Longest
          BY <3>3 DEF Excused
        <4>2. ~(e.waited > e.delay - 1)
          BY <1>due, <2>1, <2>2, <3>1, <4>1
        <4> DEFINE w == e.waited
                   u == e.delay - 1
        <4>3. w \in 0..Longest /\ u \in Nat /\ ~(w > u)
          BY <3>1, <3>2, <4>2
        <4> HIDE DEF w, u
        <4>4. w <= u
          BY <1>6, <4>3
        <4> QED
          BY <4>4 DEF w, u
      <3> QED
        BY <2>2, <2>3, <3>2, <3>3
    <2> QED
      BY <2>2, <2>4, <2>5
  <1>15. Told("jitter", keep, frameFrom')
    BY <1>14 DEF Told
  <1>16. \A i \in DOMAIN keep :
           keep[i].waited <= Patience("jitter", keep[i]) \/ Excused("jitter", keep[i])
    BY <1>14 DEF ToSet
  <1>17. ASSUME z + Len(list) < KeepAtMost, NEW i \in DOMAIN c, c[i].id \notin IdsOf(keep),
                ~Misled("jitter", c[i])
         PROVE  c[i].waited > Patience("jitter", c[i])
    <2> DEFINE e == c[i]
    <2>1. ToSet(keep) = ToSet(rest)
      <3>1. a <= Len(list) /\ KeepAtMost \in Nat
        BY <1>4, QueuesAssumption DEF a
      <3>2. Len(rest) < KeepAtMost
        BY <1>4, <1>9, <1>11, <1>17, <3>1
      <3> QED
        BY <1>12, <1>13, <3>2
    <2>2. e \in ToSet(b)
      BY <1>8 DEF Built, ToSet
    <2>3. e \notin ToSet(keep)
      BY <1>17 DEF IdsOf, ToSet
    <2>4. clock >= e.stamp
      BY <1>11, <2>1, <2>2, <2>3
    <2>5. /\ e.delay \in 1..JitterMax /\ e.enqueued \in 0..Modulus-1
          /\ e \in ToSet(buf["jitter"]) /\ e.stamp = Plus(e.enqueued, e.delay)
      BY <1>7
    <2>6. ~Misled("jitter", e)
      BY <1>17
    <2> HIDE DEF e
    <2>7. e.waited > e.delay - 1
      BY <1>due, <2>4, <2>5, <2>6
    <2>8. Patience("jitter", e) = IF e.delay = 0 THEN 0 ELSE e.delay - 1
      BY DEF Patience
    <2>9. e.delay # 0
      <3> DEFINE t == e.delay
      <3>1. t \in 1..JitterMax
        BY <2>5
      <3> HIDE DEF t
      <3>2. t # 0
        BY <1>6, <3>1
      <3> QED
        BY <3>2 DEF t
    <2> QED
      BY <2>7, <2>8, <2>9 DEF e
  <1> QED
    BY <1>3, <1>15, <1>16, <1>17 DEF c, z

\* Throttle keeps what came in this frame, while the frame lasts; but for packets that it
\* takes at tick 0.
LEMMA ThrottleTimely ==
  ASSUME IInv, TInv, "throttle" \in Stages, ThrottleProcess
  PROVE  /\ Told("throttle", buf'["throttle"], frameFrom')
         /\ frameFrom' # 0 => Since(clock, frameFrom') <= Frame
         /\ \A i \in DOMAIN buf'["throttle"] :
              buf'["throttle"][i].waited <= Frame \/ Excused("throttle", buf'["throttle"][i])
  <1> DEFINE in == Taken(list, Room("throttle"))
             c == buf["throttle"]
             d == NoDelay(in)
             b == Enqueue(in, d) \o c
             from == IF frameFrom = 0 THEN clock ELSE frameFrom
             a == Len(in)
             z == Len(c)
  <1>1. /\ Given("throttle") /\ clock \in 0..Modulus-1 /\ frameFrom \in 0..Modulus-1
        /\ c \in Seq(Entry) /\ Modulus \in Nat \ {0} /\ Longest \in Nat /\ Frame \in Nat
    BY GivenHolds, QueuesAssumption, LongestIs DEF Given, IInv, TypeOK
  <1>2. \A e \in ToSet(c) :
          e.enqueued = 0 \/ (frameFrom # 0 /\ e.waited <= Since(clock, frameFrom))
    BY DEF TInv, Told
  <1>3. \A e : e.enqueued = 0 => Excused("throttle", e)
    BY DEF Excused, Misled
  <1>4. CASE buf' = [buf EXCEPT !["throttle"] = <<>>] /\ frameFrom' = 0
    <2>1. buf'["throttle"] = <<>>
      BY <1>1, <1>4 DEF Given
    <2> QED
      BY <1>4, <2>1, ToldNothing
  <1>5. CASE ThrottleRests
    <2>1. buf' = buf /\ frameFrom = 0 /\ frameFrom' = 0
      BY <1>5 DEF ThrottleRests, frameVars
    <2>2. \A e \in ToSet(c) : e.enqueued = 0
      BY <1>2, <2>1
    <2>3. \A i \in DOMAIN c : Excused("throttle", c[i])
      BY <1>3, <2>2 DEF ToSet
    <2>4. Told("throttle", c, 0)
      BY <2>2 DEF Told
    <2> QED
      BY <2>1, <2>3, <2>4
  <1>6. CASE ~ThrottleOver(b, from) /\ buf' = [buf EXCEPT !["throttle"] = b] /\ frameFrom' = from
    <2>1. buf'["throttle"] = b /\ frameFrom' = from
      BY <1>1, <1>6 DEF Given
    <2>2. in \in Seq(Id) /\ d \in [DOMAIN in -> 0..JitterMax]
      BY <1>1, Taking DEF Given
    <2>3. \A i \in DOMAIN c :
            c[i].enqueued = 0 \/ (from # 0 /\ c[i].waited <= Since(clock, from))
      BY <1>2 DEF ToSet
    <2>4. from \in 0..Modulus-1 /\ (from = 0 => clock = 0)
      BY <1>1
    <2>5. ~(Since(clock, from) > Frame)
      BY <1>6 DEF ThrottleOver
    <2> HIDE DEF in, c, d, from
    <2>6. Built(b, in, d, c, a, z)
      <3>1. b = Enqueue(in, d) \o c
        OBVIOUS
      <3> HIDE DEF b
      <3> QED
        BY <1>1, <2>2, <3>1, EnqueuedAre
    <2> HIDE DEF a, z, b
    <2>7. Since(clock, from) \in Nat /\ Since(clock, from) <= Frame
      <3> DEFINE t == Since(clock, from)
      <3>1. t \in 0..Modulus-1 /\ ~(t > Frame)
        BY <1>1, <2>4, <2>5, ClockIs
      <3> HIDE DEF t
      <3>2. t \in Nat /\ t <= Frame
        BY <1>1, <3>1
      <3> QED
        BY <3>2 DEF t
    <2>8. ASSUME NEW i \in DOMAIN b
          PROVE  /\ b[i].enqueued = 0 \/ (from # 0 /\ b[i].waited <= Since(clock, from))
                 /\ b[i] \in Entry
      <3>1. i \in 1..a \/ i \in a+1..a+z
        BY <2>6 DEF Built
      <3>2. b[i] \in Entry
        BY <2>6, LenProperties DEF Built
      <3>3. CASE i \in 1..a
        <4>1. b[i].enqueued = clock /\ b[i].waited = 0
          BY <2>6, <3>3 DEF Built
        <4>2. CASE from = 0
          BY <2>4, <3>2, <4>1, <4>2
        <4>3. CASE from # 0
          <5> DEFINE t == Since(clock, from)
          <5>1. t \in Nat
            BY <2>7
          <5> HIDE DEF t
          <5>2. 0 <= t
            BY <5>1
          <5> QED
            BY <3>2, <4>1, <4>3, <5>2 DEF t
        <4> QED
          BY <4>2, <4>3
      <3>4. CASE i \in a+1..a+z
        <4>1. PICK k \in DOMAIN c : b[i] = c[k]
          BY <2>6, <3>4 DEF Built
        <4> QED
          BY <2>3, <3>2, <4>1
      <3> QED
        BY <3>1, <3>3, <3>4
    <2>9. ASSUME NEW i \in DOMAIN b PROVE b[i].waited <= Frame \/ Excused("throttle", b[i])
      <3>1. CASE b[i].enqueued = 0
        BY <1>3, <3>1
      <3>2. CASE b[i].waited <= Since(clock, from)
        <4> DEFINE t == Since(clock, from)
                   w == b[i].waited
        <4>1. w \in 0..Longest
          BY <2>8 DEF Entry
        <4>2. w <= t /\ t \in Nat /\ t <= Frame
          BY <2>7, <3>2
        <4> HIDE DEF t, w
        <4>3. w <= Frame
          BY <1>1, <4>1, <4>2
        <4> QED
          BY <4>3 DEF w
      <3> QED
        BY <2>8, <3>1, <3>2
    <2>10. Told("throttle", b, from)
      BY <2>8 DEF Told, ToSet
    <2> QED
      BY <2>1, <2>7, <2>9, <2>10
  <1>7. \/ ThrottleRests
        \/ buf' = [buf EXCEPT !["throttle"] = <<>>] /\ frameFrom' = 0
        \/ ~ThrottleOver(b, from) /\ buf' = [buf EXCEPT !["throttle"] = b] /\ frameFrom' = from
    BY Zenon DEF ThrottleProcess, ThrottleFills
  <1> QED
    BY <1>4, <1>5, <1>6, <1>7

\* Ood lets everything out when its oldest node is old, and the oldest is at the tail.
LEMMA OodTimely ==
  ASSUME IInv, TInv, "ood" \in Stages, OodProcess
  PROVE  /\ Told("ood", buf'["ood"], frameFrom')
         /\ \A i \in DOMAIN buf'["ood"] : buf'["ood"][i].waited < OodDelay
  <1> DEFINE c == buf["ood"]
  <1>1. PICK S \in SUBSET ToSet(Matching(list)) :
          LET in == Only(list, S)
              b == Enqueue(in, NoDelay(in)) \o c
          IN \/ buf' = [buf EXCEPT !["ood"] = <<>>]
             \/ ~OodOld(b) /\ buf' = [buf EXCEPT !["ood"] = b]
    BY Zenon DEF OodProcess
  <1> DEFINE in == Only(list, S)
             d == NoDelay(in)
             b == Enqueue(in, d) \o c
             a == Len(in)
             z == Len(c)
  <1>2. Given("ood") /\ clock \in 0..Modulus-1 /\ list \in Seq(Id) /\ c \in Seq(Entry)
    BY GivenHolds DEF Given
  <1>3. in \in Seq(Id) /\ d \in [DOMAIN in -> 0..JitterMax] /\ \A i \in DOMAIN in : d[i] = 0
    BY <1>2, OnlyFacts, QueuesAssumption DEF NoDelay
  <1>4. /\ Modulus \in Nat \ {0} /\ OodDelay \in Nat /\ MaxLate \in Nat /\ Longest \in Nat
        /\ OodDelay + MaxLate < Longest
    BY QueuesAssumption, LongestIs
  <1>5. Plus(clock, 0) = clock /\ Since(clock, clock) = 0
    <2>1. clock % Modulus = clock
      BY <1>2, <1>4
    <2>2. Since(clock, clock) = clock - clock
      BY <1>2, ClockIs
    <2> QED
      BY <1>2, <1>4, <2>1, <2>2 DEF Plus
  <1>6. \A i \in DOMAIN c :
          /\ c[i].stamp = c[i].enqueued /\ c[i].waited \in 0..Longest
          /\ Since(clock, c[i].enqueued) = c[i].waited
    <2>1. ASSUME NEW e \in ToSet(buf["ood"])
          PROVE  /\ e.stamp = e.enqueued /\ e.waited \in 0..Longest
                 /\ Since(clock, e.enqueued) = e.waited
      <3>1. e \in Entry
        BY LenProperties DEF IInv, TypeOK, ToSet
      <3>2. e.waited \in 0..Longest /\ e.stamp = e.enqueued
        BY <3>1 DEF TInv, Told, Entry
      <3>3. PICK i \in DOMAIN pipeline : pipeline[i] = "ood"
        BY PipelineIs DEF IInv, TypeOK
      <3>4. e.waited < OodDelay + (IF i < stage THEN late ELSE MaxLate)
        BY <3>3 DEF TInv, Young
      <3>5. late \in Nat /\ late <= MaxLate
        BY <1>4 DEF IInv, TypeOK
      <3>6. e.waited # Longest
        BY <1>4, <3>2, <3>4, <3>5
      <3>7. Measured(e)
        BY DEF IInv, Measures
      <3> QED
        BY <3>2, <3>6, <3>7 DEF Measured
    <2> QED
      BY <2>1 DEF ToSet
  <1>7. \A i, j \in DOMAIN c : i < j => c[i].waited <= c[j].waited
    BY DEF TInv, Told
  <1>8. CASE buf' = [buf EXCEPT !["ood"] = <<>>]
    <2>1. buf'["ood"] = <<>>
      BY <1>2, <1>8 DEF Given
    <2> QED
      BY <2>1, ToldNothing
  <1>9. CASE ~OodOld(b) /\ buf' = [buf EXCEPT !["ood"] = b]
    <2>1. buf'["ood"] = b
      BY <1>2, <1>9 DEF Given
    <2> HIDE DEF in, d, c
    <2>2. Built(b, in, d, c, a, z)
      <3>1. b = Enqueue(in, d) \o c
        OBVIOUS
      <3> HIDE DEF b
      <3> QED
        BY <1>2, <1>3, <3>1, EnqueuedAre
    <2> HIDE DEF a, z, b
    <2>3. /\ a \in Nat /\ z \in Nat /\ DOMAIN b = 1..a+z /\ Len(b) = a + z
          /\ \A i \in DOMAIN b : i \in 1..a \/ i \in a+1..a+z
      BY <2>2 DEF Built
    <2>4. ASSUME NEW i \in DOMAIN b
          PROVE  /\ b[i].stamp = b[i].enqueued /\ b[i].waited \in 0..Longest
                 /\ Since(clock, b[i].enqueued) = b[i].waited
      <3>1. CASE i \in 1..a
        <4>1. /\ b[i].enqueued = clock /\ b[i].waited = 0 /\ b[i].stamp = Plus(clock, d[i])
              /\ i \in DOMAIN in
          BY <2>2, <3>1 DEF Built
        <4>2. b[i].stamp = clock
          BY <1>3, <1>5, <4>1
        <4> QED
          BY <1>4, <1>5, <4>1, <4>2
      <3>2. CASE i \in a+1..a+z
        <4>1. PICK k \in DOMAIN c : b[i] = c[k]
          BY <2>2, <3>2 DEF Built
        <4> QED
          BY <1>6, <4>1
      <3> QED
        BY <2>3, <3>1, <3>2
    <2>5. ASSUME NEW i \in DOMAIN b, NEW j \in DOMAIN b, i < j
          PROVE  b[i].waited <= b[j].waited
      <3>1. CASE i \in 1..a
        <4>1. b[i].waited = 0
          BY <2>2, <3>1 DEF Built
        <4>2. b[j].waited \in 0..Longest
          BY <2>4
        <4> QED
          BY <1>4, <4>1, <4>2
      <3>2. CASE i \in a+1..a+z
        <4>1. j \in a+1..a+z /\ i - a < j - a
          BY <2>3, <2>5, <3>2
        <4>2. /\ b[i] = c[i - a] /\ i - a \in DOMAIN c
              /\ b[j] = c[j - a] /\ j - a \in DOMAIN c
          BY <2>2, <3>2, <4>1 DEF Built
        <4> QED
          BY <1>7, <4>1, <4>2
      <3> QED
        BY <2>3, <3>1, <3>2
    <2>6. ASSUME NEW i \in DOMAIN b PROVE b[i].waited < OodDelay
      <3> DEFINE n == Len(b)
      <3>1. n \in DOMAIN b /\ (i < n \/ i = n) /\ b # <<>>
        BY <2>3
      <3>2. ~(Since(clock, b[n].stamp) >= OodDelay)
        BY <1>9, <3>1 DEF OodOld
      <3> HIDE DEF n
      <3>3. /\ Since(clock, b[n].stamp) = b[n].waited /\ b[n].waited \in 0..Longest
            /\ b[i].waited \in 0..Longest
        BY <2>4, <3>1
      <3>4. b[i].waited <= b[n].waited
        BY <1>4, <2>5, <3>1, <3>3
      <3> QED
        BY <1>4, <3>2, <3>3, <3>4
    <2>7. Told("ood", b, frameFrom')
      BY <2>4, <2>5 DEF Told, ToSet
    <2> QED
      BY <2>1, <2>6, <2>7
  <1> QED
    BY <1>1, <1>8, <1>9

\* What every module's turn does to the times its nodes are told to have.
LEMMA TimelyVisit ==
  ASSUME IInv, TInv, NEW m \in Stages, Visit(m)
  PROVE  /\ Told(m, buf'[m], frameFrom')
         /\ \A i \in DOMAIN buf'[m] :
              buf'[m][i].waited <= Patience(m, buf'[m][i]) \/ Excused(m, buf'[m][i])
         /\ m = "throttle" /\ frameFrom' # 0 => Since(clock, frameFrom') <= Frame
         /\ m = "ood" => \A i \in DOMAIN buf'[m] : buf'[m][i].waited < OodDelay
         /\ m \in {"lag", "jitter"} \cap on /\ Len(buf[m]) + Len(list) < KeepAtMost =>
              \A i \in DOMAIN buf[m] :
                buf[m][i].id \notin IdsOf(buf'[m]) =>
                  buf[m][i].waited > Patience(m, buf[m][i]) \/ Misled(m, buf[m][i])
  <1>1. Given(m) /\ m \in Module
    BY GivenHolds
  <1>2. buf'[m] \in Seq(Entry)
    BY VisitTurn DEF Turn
  <1>3. CASE buf'[m] = <<>> /\ m \notin {"lag", "jitter"} \cap on
    <2>1. m = "throttle" /\ frameFrom' # 0 => Since(clock, frameFrom') <= Frame
      <3>1. CASE m = "throttle" /\ m \in on
        <4>1. ThrottleProcess
          BY <3>1 DEF Visit
        <4> QED
          BY <3>1, <4>1, ThrottleTimely
      <3>2. CASE m = "throttle" /\ m \notin on
        <4>1. frameFrom' = 0
          <5>1. CASE m \in lastOn
            BY <3>2, <5>1 DEF Visit, CloseDown
          <5>2. CASE m \notin lastOn
            BY <3>2, <5>2 DEF Visit, frameVars, TInv, Brief
          <5> QED
            BY <5>1, <5>2
        <4> QED
          BY <4>1
      <3> QED
        BY <3>1, <3>2
    <2>2. DOMAIN buf'[m] = {}
      BY <1>3
    <2> QED
      BY <1>3, <2>1, <2>2, ToldNothing
  <1>4. CASE m = "lag" /\ m \in on
    <2>1. LagProcess
      BY <1>4 DEF Visit
    <2>2. \A e : Patience("lag", e) = lagTime
      BY DEF Patience
    <2> QED
      BY <1>4, <2>1, <2>2, LagTimely
  <1>5. CASE m = "jitter" /\ m \in on
    <2>1. JitterProcess
      BY <1>5 DEF Visit
    <2> QED
      BY <1>5, <2>1, JitterTimely
  <1>6. CASE m = "throttle" /\ m \in on
    <2>1. ThrottleProcess
      BY <1>6 DEF Visit
    <2>2. \A e : Patience("throttle", e) = Frame
      BY DEF Patience
    <2> QED
      BY <1>6, <2>1, <2>2, ThrottleTimely
  <1>7. CASE m = "ood" /\ m \in on
    <2>1. OodProcess
      BY <1>7 DEF Visit
    <2>2. \A e : Patience("ood", e) = IF OodDelay = 0 THEN 0 ELSE OodDelay - 1
      BY DEF Patience
    <2>3. /\ Told("ood", buf'["ood"], frameFrom')
          /\ \A i \in DOMAIN buf'["ood"] : buf'["ood"][i].waited < OodDelay
      BY <1>7, <2>1, OodTimely
    <2>4. ASSUME NEW i \in DOMAIN buf'["ood"]
          PROVE  buf'["ood"][i].waited <= Patience("ood", buf'["ood"][i])
      <3> DEFINE w == buf'["ood"][i].waited
      <3>1. w \in Nat
        <4>1. buf'["ood"][i] \in Entry
          BY <1>2, <1>7, LenProperties
        <4> QED
          BY <4>1, LongestIs DEF Entry
      <3>2. w < OodDelay /\ OodDelay \in Nat
        BY <2>3, QueuesAssumption
      <3> HIDE DEF w
      <3>3. OodDelay # 0 /\ w <= OodDelay - 1
        BY <3>1, <3>2
      <3> QED
        BY <2>2, <3>3 DEF w
    <2> QED
      BY <1>7, <2>3, <2>4
  <1>8. CASE m \in {"bandwidth", "burstloss", "blackout"}
    <2>1. \A e : Patience(m, e) = Longest
      BY <1>8 DEF Patience
    <2>2. \A i \in DOMAIN buf'[m] : buf'[m][i].waited <= Longest
      <3>1. \A i \in DOMAIN buf'[m] : buf'[m][i] \in Entry
        BY <1>2, LenProperties
      <3> QED
        BY <3>1, LongestIs DEF Entry
    <2>3. Told(m, buf'[m], frameFrom')
      BY <1>8 DEF Told
    <2> QED
      BY <1>8, <2>1, <2>2, <2>3
  <1>9. m \notin on => buf'[m] = <<>>
    BY VisitShapes
  <1>10. m \in {"lag", "jitter", "throttle", "ood"} \/ m \in {"bandwidth", "burstloss", "blackout"}
    BY <1>1 DEF Module, Holding
  <1> QED
    BY <1>3, <1>4, <1>5, <1>6, <1>7, <1>8, <1>9, <1>10

LEMMA TimesVisit ==
  ASSUME IInv, TInv, NEW m \in Stages, Visit(m)
  PROVE  TInv'
  <1>1. /\ stage \in DOMAIN pipeline /\ pipeline[stage] = m /\ stage' = stage + 1
        /\ UNCHANGED <<clock, late, pipeline>>
        /\ Turn(m)
    BY VisitTurn
  <1>2. Stages' = Stages
    BY <1>1 DEF Stages
  <1>3. /\ \A n \in Stages : n # m => buf'[n] = buf[n]
        /\ m # "throttle" => frameFrom' = frameFrom
    BY <1>1, VisitShapes DEF Turn, IInv, TypeOK
  <1>4. /\ Told(m, buf'[m], frameFrom')
        /\ m = "throttle" /\ frameFrom' # 0 => Since(clock, frameFrom') <= Frame
        /\ m = "ood" => \A i \in DOMAIN buf'[m] : buf'[m][i].waited < OodDelay
    BY TimelyVisit
  <1>5. DOMAIN pipeline \subseteq Nat /\ (\A i \in DOMAIN pipeline : pipeline[i] = m <=> i = stage)
    <2>1. pipeline \in Pipelines
      BY DEF IInv, TypeOK
    <2>2. /\ DOMAIN pipeline = 1..Len(pipeline)
          /\ \A k, j \in DOMAIN pipeline : pipeline[k] = pipeline[j] => k = j
      BY <2>1, PipelineIs
    <2> QED
      BY <1>1, <2>2
  <1>6. Brief'
    <2>1. "throttle" \notin lastOn' => frameFrom' = 0
      <3>1. CASE m = "throttle"
        <4>1. ASSUME m \notin on PROVE frameFrom' = 0
          <5>1. CASE m \in lastOn
            BY <3>1, <4>1, <5>1 DEF Visit, CloseDown
          <5>2. CASE m \notin lastOn
            BY <3>1, <4>1, <5>2 DEF Visit, frameVars, TInv, Brief
          <5> QED
            BY <5>1, <5>2
        <4> QED
          BY <3>1, <4>1, VisitShapes
      <3>2. CASE m # "throttle"
        <4>1. "throttle" \notin lastOn' => "throttle" \notin lastOn
          <5>1. "throttle" \in lastOn => "throttle" \in Stages
            BY DEF IInv, TypeOK
          <5> QED
            BY <3>2, <5>1, VisitShapes
        <4> QED
          BY <1>3, <3>2, <4>1 DEF TInv, Brief
      <3> QED
        BY <3>1, <3>2
    <2>2. ASSUME NEW i \in DOMAIN pipeline, pipeline[i] = "throttle", frameFrom' # 0
          PROVE  Since(clock, frameFrom') <= Frame + (IF i < stage' THEN late ELSE MaxLate)
      <3>1. CASE m = "throttle"
        <4>1. i = stage /\ i < stage'
          BY <1>1, <1>5, <2>2, <3>1
        <4>2. Since(clock, frameFrom') <= Frame
          BY <1>4, <2>2, <3>1
        <4>3. late \in Nat /\ Frame \in Nat /\ Since(clock, frameFrom') \in 0..Modulus-1
          <5>1. frameFrom' \in 0..Modulus-1 /\ clock \in 0..Modulus-1
            BY VisitShapes DEF IInv, TypeOK
          <5>2. Since(clock, frameFrom') \in 0..Modulus-1
            BY <5>1, ClockIs
          <5>3. late \in Nat /\ Frame \in Nat
            BY QueuesAssumption DEF IInv, TypeOK
          <5> QED
            BY <5>2, <5>3
        <4> DEFINE t == Since(clock, frameFrom')
        <4>4. t \in 0..Modulus-1 /\ t <= Frame /\ Modulus \in Nat
          BY <4>2, <4>3, QueuesAssumption
        <4> HIDE DEF t
        <4>5. t <= Frame + late
          BY <4>3, <4>4
        <4> QED
          BY <4>1, <4>5 DEF t
      <3>2. CASE m # "throttle"
        <4>1. frameFrom' = frameFrom /\ (i < stage' <=> i < stage)
          <5>1. i # stage /\ i \in Nat /\ stage \in Nat
            BY <1>1, <1>5, <2>2, <3>2
          <5> QED
            BY <1>1, <1>3, <3>2, <5>1
        <4> QED
          BY <2>2, <4>1 DEF TInv, Brief
      <3> QED
        BY <3>1, <3>2
    <2> QED
      BY <1>1, <2>1, <2>2 DEF Brief, Since
  <1>7. \A n \in Stages : Told(n, buf'[n], frameFrom')
    <2>1. ASSUME NEW n \in Stages, n # m PROVE Told(n, buf'[n], frameFrom')
      <3>1. Told(n, buf[n], frameFrom) /\ buf'[n] = buf[n]
        BY <1>3, <2>1 DEF TInv
      <3>2. n = "throttle" => frameFrom' = frameFrom
        BY <1>3, <2>1
      <3> QED
        BY <3>1, <3>2 DEF Told
    <2> QED
      BY <1>4, <2>1
  <1>8. Young'
    <2>1. ASSUME NEW i \in DOMAIN pipeline, pipeline[i] = "ood", NEW e \in ToSet(buf'["ood"])
          PROVE  e.waited < OodDelay + (IF i < stage' THEN late ELSE MaxLate)
      <3>1. DOMAIN pipeline \subseteq Nat /\ (m = "ood" <=> i = stage) /\ "ood" \in Stages
        <4>1. pipeline \in Pipelines
          BY DEF IInv, TypeOK
        <4>2. /\ DOMAIN pipeline = 1..Len(pipeline) /\ pipeline[i] \in Stages
              /\ \A k, j \in DOMAIN pipeline : pipeline[k] = pipeline[j] => k = j
          BY <4>1, PipelineIs
        <4> QED
          BY <1>1, <2>1, <4>2
      <3>2. CASE m = "ood"
        <4>1. e.waited < OodDelay
          BY <1>4, <3>2 DEF ToSet
        <4>2. i < stage'
          BY <1>1, <3>1, <3>2
        <4>3. late \in Nat /\ OodDelay \in Nat /\ e.waited \in Nat
          <5>1. e \in Entry
            BY <1>1, <3>2, LenProperties DEF Turn, ToSet
          <5> QED
            BY <5>1, QueuesAssumption, LongestIs DEF IInv, TypeOK, Entry
        <4> QED
          BY <4>1, <4>2, <4>3
      <3>3. CASE m # "ood"
        <4>1. e \in ToSet(buf["ood"]) /\ (i < stage' <=> i < stage)
          BY <1>1, <1>3, <3>1, <3>3
        <4> QED
          BY <2>1, <4>1 DEF TInv, Young
      <3> QED
        BY <3>2, <3>3
    <2>2. ToSet(buf["ood"])' = ToSet(buf'["ood"])
      BY DEF ToSet
    <2> QED
      BY <1>1, <2>1, <2>2 DEF Young
  <1>9. \A n \in Stages' : Told(n, buf[n], frameFrom)'
    <2>1. \A n \in Stages : Told(n, buf[n], frameFrom)' <=> Told(n, buf'[n], frameFrom')
      BY <1>1 DEF Told, Since, Plus, ToSet
    <2> QED
      BY <1>2, <1>7, <2>1
  <1> QED
    BY <1>6, <1>8, <1>9 DEF TInv

\* Everything that waits waits a tick longer.
LEMMA TimesTick ==
  ASSUME IInv, TInv, Tick
  PROVE  TInv'
  <1>1. /\ stage = AfterAll /\ late' = late + 1 /\ clock' = Plus(clock, 1)
        /\ UNCHANGED <<stage, frameFrom, pipeline, lastOn>>
    BY TickIs
  <1>2. \A m \in Stages :
          /\ DOMAIN buf'[m] = DOMAIN buf[m]
          /\ \A i \in DOMAIN buf[m] : buf[m][i] \in Entry /\ buf'[m][i] = Older(buf[m][i])
    BY TickIs
  <1>3. Stages' = Stages
    BY <1>1 DEF Stages
  <1>4. /\ clock \in 0..Modulus-1 /\ Modulus \in Nat \ {0} /\ Longest \in Nat /\ late \in Nat
        /\ MaxLate \in Nat /\ late <= MaxLate /\ OodDelay \in Nat /\ Frame \in Nat
        /\ frameFrom \in 0..Modulus-1 /\ Frame + MaxLate < Longest
    BY QueuesAssumption, LongestIs DEF IInv, TypeOK
  <1>5. ASSUME frameFrom # 0, "throttle" \in Stages
        PROVE  /\ Since(clock, frameFrom) <= Frame + late /\ Since(clock, frameFrom) \in Nat
               /\ Since(clock', frameFrom) = Since(clock, frameFrom) + 1
    <2> DEFINE t == Since(clock, frameFrom)
    <2>1. PICK i \in DOMAIN pipeline : pipeline[i] = "throttle"
      BY <1>5, PipelineIs DEF IInv, TypeOK
    <2>2. i < stage
      <3>1. DOMAIN pipeline = 1..Len(pipeline) /\ Len(pipeline) \in Nat
        BY PipelineIs DEF IInv, TypeOK
      <3> QED
        BY <1>1, <3>1 DEF AfterAll
    <2>3. t <= Frame + late
      BY <1>5, <2>1, <2>2 DEF TInv, Brief
    <2>4. t \in 0..Modulus-1
      BY <1>4, ClockIs
    <2> HIDE DEF t
    <2>5. t \in Nat /\ t < Longest
      BY <1>4, <2>3, <2>4
    <2>6. Since(Plus(clock, 1), frameFrom) = t + 1
      BY <1>4, <2>5, NextTick DEF t
    <2> QED
      BY <1>1, <2>3, <2>5, <2>6 DEF t
  <1>6. Brief'
    <2>1. "throttle" \notin lastOn' => frameFrom' = 0
      BY <1>1 DEF TInv, Brief
    <2>2. ASSUME NEW i \in DOMAIN pipeline, pipeline[i] = "throttle", frameFrom # 0
          PROVE  Since(clock', frameFrom) <= Frame + (IF i < stage THEN late' ELSE MaxLate)
      <3>1. i < stage /\ "throttle" \in Stages
        <4>1. /\ DOMAIN pipeline = 1..Len(pipeline) /\ Len(pipeline) \in Nat
              /\ pipeline[i] \in Stages
          BY PipelineIs DEF IInv, TypeOK
        <4> QED
          BY <1>1, <2>2, <4>1 DEF AfterAll
      <3> DEFINE t == Since(clock, frameFrom)
                 u == Since(clock', frameFrom)
      <3>2. t \in Nat /\ t <= Frame + late /\ u = t + 1
        BY <1>5, <2>2, <3>1
      <3> HIDE DEF t, u
      <3>3. u <= Frame + late'
        BY <1>1, <1>4, <3>2
      <3> QED
        BY <3>1, <3>3 DEF u
    <2> QED
      BY <1>1, <2>1, <2>2 DEF Brief, Since
  <1>7. \A m \in Stages : \A i \in DOMAIN buf[m] :
          /\ buf[m][i] \in Entry /\ buf[m][i].waited \in 0..Longest
          /\ buf'[m][i].stamp = buf[m][i].stamp /\ buf'[m][i].enqueued = buf[m][i].enqueued
          /\ buf'[m][i].delay = buf[m][i].delay
          /\ buf'[m][i].waited =
               IF buf[m][i].waited < Longest THEN buf[m][i].waited + 1 ELSE buf[m][i].waited
    BY <1>2, OlderIs DEF Entry
  <1>8. Young'
    <2>1. ASSUME NEW i \in DOMAIN pipeline, pipeline[i] = "ood", NEW k \in DOMAIN buf["ood"]
          PROVE  buf'["ood"][k].waited < OodDelay + (IF i < stage THEN late' ELSE MaxLate)
      <3>1. "ood" \in Stages /\ i < stage
        <4>1. /\ DOMAIN pipeline = 1..Len(pipeline) /\ Len(pipeline) \in Nat
              /\ pipeline[i] \in Stages
          BY PipelineIs DEF IInv, TypeOK
        <4> QED
          BY <1>1, <2>1, <4>1 DEF AfterAll
      <3> DEFINE w == buf["ood"][k].waited
                 v == buf'["ood"][k].waited
      <3>2. w \in 0..Longest /\ v = IF w < Longest THEN w + 1 ELSE w
        BY <1>7, <3>1
      <3>3. w < OodDelay + late
        BY <2>1, <3>1 DEF TInv, Young, ToSet
      <3> HIDE DEF w, v
      <3>4. v < OodDelay + late'
        BY <1>1, <1>4, <3>2, <3>3
      <3> QED
        BY <3>1, <3>4 DEF v
    <2>2. ASSUME NEW i \in DOMAIN pipeline, pipeline[i] = "ood", NEW e \in ToSet(buf["ood"])'
          PROVE  e.waited < OodDelay + (IF i < stage THEN late' ELSE MaxLate)
      <3>1. "ood" \in Stages
        <4>1. pipeline[i] \in Stages
          BY PipelineIs DEF IInv, TypeOK
        <4> QED
          BY <2>2, <4>1
      <3>2. PICK k \in DOMAIN buf["ood"] : e = buf'["ood"][k]
        BY <1>2, <3>1 DEF ToSet
      <3> QED
        BY <2>1, <2>2, <3>2
    <2> QED
      BY <1>1, <2>2 DEF Young
  <1>9. ASSUME NEW m \in Stages PROVE Told(m, buf[m], frameFrom)'
    <2> DEFINE b == buf[m]
               o == buf'[m]
    <2>1. DOMAIN o = DOMAIN b
      BY <1>2
    <2>2. \A i \in DOMAIN b :
            /\ b[i].waited \in 0..Longest
            /\ o[i].stamp = b[i].stamp /\ o[i].enqueued = b[i].enqueued /\ o[i].delay = b[i].delay
            /\ o[i].waited = IF b[i].waited < Longest THEN b[i].waited + 1 ELSE b[i].waited
      BY <1>7
    <2>3. Told(m, b, frameFrom)
      BY DEF TInv
    <2>4. \A i \in DOMAIN b : b[i] \in Entry
      BY <1>2
    <2> HIDE DEF b, o
    <2>5. ASSUME m \in {"lag", "ood"}
          PROVE  /\ \A i \in DOMAIN b : o[i].stamp = o[i].enqueued
                 /\ \A i, j \in DOMAIN b : i < j => o[i].waited <= o[j].waited
      <3>1. \A i \in DOMAIN b : b[i].stamp = b[i].enqueued
        BY <2>3, <2>5 DEF Told, ToSet
      <3>2. ASSUME NEW i \in DOMAIN b, NEW j \in DOMAIN b, i < j
            PROVE  o[i].waited <= o[j].waited
        <4> DEFINE w == b[i].waited
                   v == b[j].waited
        <4>1. w \in 0..Longest /\ v \in 0..Longest /\ w <= v
          BY <2>2, <2>3, <2>5, <3>2 DEF Told
        <4>2. /\ o[i].waited = IF w < Longest THEN w + 1 ELSE w
              /\ o[j].waited = IF v < Longest THEN v + 1 ELSE v
          BY <2>2
        <4> HIDE DEF w, v
        <4> QED
          BY <1>4, <4>1, <4>2
      <3> QED
        BY <2>2, <3>1, <3>2
    <2>6. m = "jitter" =>
            \A i \in DOMAIN b : o[i].delay > 0 /\ o[i].stamp = Plus(o[i].enqueued, o[i].delay)
      BY <2>2, <2>3 DEF Told, ToSet
    <2>7. ASSUME m = "throttle", NEW i \in DOMAIN b
          PROVE  o[i].enqueued = 0 \/ (frameFrom # 0 /\ o[i].waited <= Since(clock', frameFrom))
      <3>1. b[i].enqueued = 0 \/ (frameFrom # 0 /\ b[i].waited <= Since(clock, frameFrom))
        BY <2>3, <2>7 DEF Told, ToSet
      <3>2. CASE b[i].enqueued = 0
        BY <2>2, <3>2
      <3>3. CASE frameFrom # 0 /\ b[i].waited <= Since(clock, frameFrom)
        <4> DEFINE w == b[i].waited
                   v == o[i].waited
                   t == Since(clock, frameFrom)
                   u == Since(clock', frameFrom)
        <4>1. w \in 0..Longest /\ v = IF w < Longest THEN w + 1 ELSE w
          BY <2>2
        <4>2. t \in Nat /\ u = t + 1 /\ w <= t
          BY <1>5, <2>7, <3>3
        <4> HIDE DEF w, v, t, u
        <4>3. v <= u
          BY <1>4, <4>1, <4>2
        <4> QED
          BY <3>3, <4>3 DEF v, u
      <3> QED
        BY <3>1, <3>2, <3>3
    <2>8. \A e \in ToSet(o) : \E i \in DOMAIN b : e = o[i]
      BY <2>1 DEF ToSet
    <2>9. /\ m \in {"lag", "ood"} =>
               /\ \A e \in ToSet(o) : e.stamp = e.enqueued
               /\ \A i, j \in DOMAIN o : i < j => o[i].waited <= o[j].waited
          /\ m = "jitter" =>
               \A e \in ToSet(o) : e.delay > 0 /\ e.stamp = Plus(e.enqueued, e.delay)
          /\ m = "throttle" =>
               \A e \in ToSet(o) :
                 e.enqueued = 0 \/ (frameFrom # 0 /\ e.waited <= Since(clock', frameFrom))
      <3>1. m \in {"lag", "ood"} =>
               /\ \A e \in ToSet(o) : e.stamp = e.enqueued
               /\ \A i, j \in DOMAIN o : i < j => o[i].waited <= o[j].waited
        BY <2>1, <2>5, <2>8
      <3>2. m = "jitter" =>
               \A e \in ToSet(o) : e.delay > 0 /\ e.stamp = Plus(e.enqueued, e.delay)
        BY <2>6, <2>8
      <3>3. m = "throttle" =>
               \A e \in ToSet(o) :
                 e.enqueued = 0 \/ (frameFrom # 0 /\ e.waited <= Since(clock', frameFrom))
        BY <2>7, <2>8
      <3> QED
        BY <3>1, <3>2, <3>3
    <2>10. frameFrom' = frameFrom /\ ToSet(buf[m])' = ToSet(o) /\ buf[m]' = o
      BY <1>1 DEF o, ToSet
    <2> QED
      BY <2>9, <2>10 DEF Told, Since, Plus
  <1> QED
    BY <1>3, <1>6, <1>8, <1>9 DEF TInv

LEMMA TimesNext ==
  ASSUME IInv, TInv, [Next]_vars
  PROVE  TInv'
  <1>1. /\ MaxLate \in Nat /\ late \in Nat /\ late <= MaxLate /\ OodDelay \in Nat
        /\ Frame \in Nat /\ DOMAIN pipeline \subseteq 1..AfterAll-1 /\ AfterAll \in Nat \ {0}
    <2>1. DOMAIN pipeline = 1..Len(pipeline) /\ Len(pipeline) \in Nat
      BY PipelineIs DEF IInv, TypeOK
    <2> QED
      BY <2>1, QueuesAssumption DEF IInv, TypeOK, AfterAll
  <1>2. CASE /\ UNCHANGED <<clock, buf, frameFrom, pipeline, lastOn>>
             /\ UNCHANGED <<stage, late>> \/ (stage = AfterAll /\ stage' = 1)
    <2>1. Stages' = Stages
      BY <1>2 DEF Stages
    <2>2. \A m \in Stages' : Told(m, buf[m], frameFrom)'
      BY <1>2, <2>1 DEF TInv, Told, Since, Plus, ToSet
    <2>3. Young'
      <3>1. CASE UNCHANGED <<stage, late>>
        BY <1>2, <3>1 DEF TInv, Young, ToSet
      <3>2. CASE stage = AfterAll /\ stage' = 1
        <4>1. ASSUME NEW i \in DOMAIN pipeline, pipeline[i] = "ood", NEW e \in ToSet(buf["ood"])
              PROVE  e.waited < OodDelay + MaxLate /\ ~(i < 1)
          <5>1. i < stage /\ ~(i < 1)
            BY <1>1, <3>2
          <5>2. e.waited < OodDelay + late
            BY <4>1, <5>1 DEF TInv, Young
          <5>3. e.waited \in Nat
            <6>1. "ood" \in Stages
              <7>1. pipeline[i] \in Stages
                BY PipelineIs DEF IInv, TypeOK
              <7> QED
                BY <4>1, <7>1
            <6>2. e \in Entry
              BY <6>1, LenProperties DEF IInv, TypeOK, ToSet
            <6> QED
              BY <6>2, LongestIs DEF Entry
          <5> QED
            BY <1>1, <5>1, <5>2, <5>3
        <4> QED
          BY <1>2, <3>2, <4>1 DEF Young, ToSet
      <3> QED
        BY <1>2, <3>1, <3>2
    <2>4. Brief'
      <3>1. "throttle" \notin lastOn' => frameFrom' = 0
        BY <1>2 DEF TInv, Brief
      <3>2. ASSUME NEW i \in DOMAIN pipeline, pipeline[i] = "throttle", frameFrom # 0
            PROVE  Since(clock, frameFrom) <= Frame + (IF i < stage' THEN late' ELSE MaxLate)
        <4>1. Since(clock, frameFrom) <= Frame + (IF i < stage THEN late ELSE MaxLate)
          BY <3>2 DEF TInv, Brief
        <4>2. CASE UNCHANGED <<stage, late>>
          BY <4>1, <4>2
        <4>3. CASE stage = AfterAll /\ stage' = 1
          <5> DEFINE t == Since(clock, frameFrom)
          <5>1. i < stage /\ ~(i < stage')
            BY <1>1, <4>3
          <5>2. t \in 0..Modulus-1
            BY ClockIs DEF IInv, TypeOK
          <5>3. t <= Frame + late
            BY <4>1, <5>1
          <5> HIDE DEF t
          <5>4. t <= Frame + MaxLate
            BY <1>1, <5>2, <5>3, QueuesAssumption
          <5> QED
            BY <5>1, <5>4 DEF t
        <4> QED
          BY <1>2, <4>2, <4>3
      <3> QED
        BY <1>2, <3>1, <3>2 DEF Brief, Since
    <2> QED
      BY <2>2, <2>3, <2>4 DEF TInv
  <1>3. CASE Receive
    <2>1. /\ UNCHANGED <<clock, buf, frameFrom, pipeline, lastOn>> /\ stage = AfterAll /\ stage' = 1
      BY <1>3 DEF Receive, Idle, moduleVars, frameVars
    <2> QED
      BY <1>2, <2>1
  <1>4. CASE Send
    <2>1. UNCHANGED <<clock, buf, frameFrom, pipeline, lastOn, stage, late>>
      BY <1>4 DEF Send, moduleVars, frameVars
    <2> QED
      BY <1>2, <2>1
  <1>5. CASE Tick
    BY <1>5, TimesTick
  <1>6. ASSUME NEW m \in Stages, Visit(m) PROVE TInv'
    BY <1>6, TimesVisit
  <1>7. CASE \/ ClockRun \/ Trigger \/ UNCHANGED vars
             \/ \E m \in Stages : Toggle(m)
             \/ \E t \in LagTimes : SetLagTime(t)
    <2>1. /\ UNCHANGED <<clock, buf, frameFrom, pipeline, lastOn>>
          /\ UNCHANGED <<stage, late>> \/ (stage = AfterAll /\ stage' = 1)
      BY <1>7, SettingsAre
    <2> QED
      BY <1>2, <2>1
  <1> QED
    BY <1>3, <1>4, <1>5, <1>6, <1>7 DEF Next

\* No packet is held back longer than its module may hold it, and lag and jitter let
\* none out early, wherever the clock starts and however often it wraps; but for packets
\* that arrive shortly before the wrap, and those throttle takes at tick 0.
THEOREM PacketsOnTime == Spec => OnTime
  <1>1. Init => TInv
    <2> SUFFICES ASSUME Init PROVE TInv
      OBVIOUS
    <2>1. /\ IInv /\ frameFrom = 0 /\ buf = [m \in Stages |-> <<>>]
      BY InitHolds DEF Init
    <2>2. \A m \in Stages : Told(m, buf[m], frameFrom)
      BY <2>1, ToldNothing
    <2>3. Young
      <3>1. \A i \in DOMAIN pipeline : pipeline[i] \in Stages
        BY <2>1, PipelineIs DEF IInv, TypeOK
      <3> QED
        BY <2>1, <3>1, EmptyBuffer DEF Young
    <2>4. Brief
      BY <2>1 DEF Brief
    <2> QED
      BY <2>2, <2>3, <2>4 DEF TInv
  <1>2. IInv /\ TInv /\ [Next]_vars => TInv'
    BY TimesNext
  <1>3. IInv /\ TInv => NotLate /\ NotEarly
    <2> SUFFICES ASSUME IInv, TInv PROVE NotLate /\ NotEarly
      OBVIOUS
    <2>1. NotLate
      BY TimelyVisit DEF NotLate, ToSet
    <2>2. ASSUME NEW m \in Stages \cap {"lag", "jitter"} \cap on, Visit(m),
                 Len(buf[m]) + Len(list) < KeepAtMost, NEW i \in DOMAIN buf[m],
                 buf[m][i].id \notin IdsOf(buf'[m])
          PROVE  buf[m][i].waited > Patience(m, buf[m][i]) \/ Misled(m, buf[m][i])
      BY <2>2, TimelyVisit
    <2> QED
      BY <2>1, <2>2 DEF NotEarly, ToSet
  <1>4. IInv /\ TInv /\ [Next]_vars => [NotLate /\ NotEarly]_vars
    BY <1>3
  <1> QED
    BY <1>1, <1>2, <1>4, QueuesInvariant, PTL DEF Spec, OnTime
==============================================================================
