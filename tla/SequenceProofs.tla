--------------------------- MODULE SequenceProofs ---------------------------
(***************************************************************************)
(* Facts about sequences that the other proofs share: what a push, a       *)
(* shift, a drop and an update do to the total of a sequence of byte       *)
(* counts, and what is left of a sequence that a set filters.              *)
(***************************************************************************)
EXTENDS SeqSums, SeqFilter, SequencesExt, FiniteSetTheorems, SequenceTheorems, TLAPS

-----------------------------------------------------------------------------
(***************************************************************************)
(* Sums.  Each proof exhibits the new running sums.                        *)
(***************************************************************************)
\* Running sums p of the first n terms of s that end in t, with every type spelled
\* out.  The lemmas about Adds keep sequences out of the provers' arithmetic.
Adds(p, s, n, t) ==
  /\ \A j \in 0..n : p[j] \in Nat /\ p[j] <= t
  /\ p[0] = 0
  /\ p[n] = t
  /\ \A j \in 1..n : p[j] = p[j - 1] + s[j] /\ s[j] \in Nat
  /\ \A i, j \in 0..n : i <= j => p[i] <= p[j]

\* A total comes with its running sums.
LEMMA SumsElim ==
  ASSUME NEW s \in Seq(Nat), NEW t \in Nat, SumsTo(s, t)
  PROVE  \E p : Adds(p, s, Len(s), t)
<1>1. PICK p \in [0..Len(s) -> 0..t] : RunningSums(p, s) /\ p[Len(s)] = t
  BY DEF SumsTo
<1>2. \A j \in 0..Len(s) : p[j] \in Nat /\ p[j] <= t
  <2>. SUFFICES ASSUME NEW j \in 0..Len(s) PROVE p[j] \in Nat /\ p[j] <= t
    OBVIOUS
  <2>1. p[j] \in 0..t
    BY <1>1
  <2>. QED BY <2>1
<1>3. \A j \in 1..Len(s) : s[j] \in Nat
  OBVIOUS
<1>. QED BY <1>1, <1>2, <1>3 DEF Adds, RunningSums

\* Any function with the values of running sums witnesses the total.
LEMMA SumsIntro ==
  ASSUME NEW s \in Seq(Nat), NEW t \in Nat, NEW p, Adds(p, s, Len(s), t)
  PROVE  SumsTo(s, t)
<1>. DEFINE q == [j \in 0..Len(s) |-> p[j]]
<1>1. Len(s) \in Nat
  OBVIOUS
<1>2. ASSUME NEW j \in 0..Len(s) PROVE q[j] = p[j] /\ p[j] \in 0..t
  BY DEF Adds
<1>3. q \in [0..Len(s) -> 0..t]
  BY <1>2
<1>4. q[0] = 0 /\ q[Len(s)] = t
  BY <1>1 DEF Adds
<1>5. ASSUME NEW j \in 1..Len(s) PROVE q[j] = q[j - 1] + s[j]
  <2>1. j \in 0..Len(s) /\ j - 1 \in 0..Len(s)
    BY <1>1
  <2>. QED BY <2>1 DEF Adds
<1>6. ASSUME NEW i \in 0..Len(s), NEW j \in 0..Len(s), i <= j PROVE q[i] <= q[j]
  BY <1>6 DEF Adds
<1>. HIDE DEF q
<1>. QED BY <1>3, <1>4, <1>5, <1>6 DEF SumsTo, RunningSums

\* Nothing adds up to nothing, and to nothing else.
LEMMA SumsEmpty ==
  ASSUME NEW t \in Nat
  PROVE  SumsTo(<<>>, t) <=> t = 0
<1>1. ASSUME SumsTo(<<>>, t) PROVE t = 0
  BY <1>1 DEF SumsTo, RunningSums
<1>2. ASSUME t = 0 PROVE SumsTo(<<>>, t)
  <2>. DEFINE p == [j \in 0..0 |-> 0]
  <2>1. p[0] = 0 /\ Len(<<>>) = 0 /\ <<>> \in Seq(Nat)
    OBVIOUS
  <2>. HIDE DEF p
  <2>2. Adds(p, <<>>, 0, t)
    BY <1>2, <2>1 DEF Adds
  <2>. QED BY <2>1, <2>2, SumsIntro
<1>. QED BY <1>1, <1>2

\* No part is larger than the whole: a queue's bytes never exceed the total.
LEMMA SumsPart ==
  ASSUME NEW s \in Seq(Nat), NEW t \in Nat, SumsTo(s, t), NEW i \in 1..Len(s)
  PROVE  s[i] <= t
<1>1. PICK p : Adds(p, s, Len(s), t)
  BY SumsElim
<1>2. Len(s) \in Nat /\ i \in 0..Len(s) /\ i - 1 \in 0..Len(s)
  OBVIOUS
<1>3. p[i] = p[i - 1] + s[i] /\ p[i] \in Nat /\ p[i] <= t /\ p[i - 1] \in Nat /\ s[i] \in Nat
  BY <1>1, <1>2 DEF Adds
<1>. QED BY <1>3

\* A push adds its bytes to the total.
LEMMA SumsAppend ==
  ASSUME NEW s \in Seq(Nat), NEW t \in Nat, NEW n \in Nat, SumsTo(s, t),
         NEW r \in Seq(Nat), Len(r) = Len(s) + 1, r[Len(r)] = n,
         \A j \in 1..Len(s) : r[j] = s[j]
  PROVE  SumsTo(r, t + n)
<1>1. PICK p : Adds(p, s, Len(s), t)
  BY SumsElim
<1>. DEFINE q == [j \in 0..Len(r) |-> IF j <= Len(s) THEN p[j] ELSE t + n]
<1>0. Len(s) \in Nat
  OBVIOUS
<1>2. \A j \in 0..Len(s) : p[j] \in Nat /\ p[j] <= t /\ q[j] = p[j]
  BY <1>0, <1>1 DEF Adds
<1>3. q[Len(r)] = t + n /\ q[0] = 0
  BY <1>0, <1>1 DEF Adds
<1>4. ASSUME NEW j \in 0..Len(r) PROVE j \in 0..Len(s) \/ j = Len(r)
  BY <1>0
<1>. HIDE DEF q
<1>5. ASSUME NEW j \in 0..Len(r) PROVE q[j] \in Nat /\ q[j] <= t + n
  <2>1. CASE j \in 0..Len(s)
    BY <2>1, <1>2
  <2>2. CASE j = Len(r)
    BY <2>2, <1>3
  <2>. QED BY <2>1, <2>2, <1>4
<1>6. ASSUME NEW j \in 1..Len(r) PROVE q[j] = q[j - 1] + r[j] /\ r[j] \in Nat
  <2>0. j - 1 \in 0..Len(s) /\ q[j - 1] = p[j - 1]
    BY <1>0, <1>2
  <2>1. CASE j \in 1..Len(s)
    <3>1. q[j] = p[j] /\ r[j] = s[j]
      BY SMTT(30), <2>1, <1>2
    <3>2. p[j] = p[j - 1] + s[j] /\ s[j] \in Nat
      BY <2>1, <1>1 DEF Adds
    <3>. QED BY <3>1, <3>2, <2>0
  <2>2. CASE j = Len(r)
    <3>1. j - 1 = Len(s) /\ p[Len(s)] = t
      BY <2>2, <1>0, <1>1 DEF Adds
    <3>. QED BY <3>1, <2>0, <2>2, <1>3
  <2>. QED BY <2>1, <2>2, <1>4
<1>7. ASSUME NEW i \in 0..Len(r), NEW j \in 0..Len(r), i <= j PROVE q[i] <= q[j]
  <2>1. CASE j \in 0..Len(s)
    <3>1. i \in 0..Len(s)
      BY <1>7, <2>1, <1>0
    <3>2. p[i] <= p[j]
      BY <3>1, <2>1, <1>7, <1>1 DEF Adds
    <3>. QED BY <3>1, <3>2, <2>1, <1>2
  <2>2. CASE j = Len(r)
    BY <2>2, <1>3, <1>5
  <2>. QED BY <2>1, <2>2, <1>4
<1>8. Adds(q, r, Len(r), t + n)
  BY <1>3, <1>5, <1>6, <1>7 DEF Adds
<1>. QED BY <1>8, SumsIntro

\* The running sums after a part is replaced.
LEMMA AddsUpdate ==
  ASSUME NEW n \in Nat, NEW s, NEW t \in Nat, NEW p, Adds(p, s, n, t),
         NEW k \in 1..n, NEW v \in Nat,
         NEW r, r[k] = v,
         \A j \in 1..n : j # k => r[j] = s[j]
  PROVE  t - s[k] + v \in Nat /\ \E q : Adds(q, r, n, t - s[k] + v)
<1>. DEFINE q == [j \in 0..n |-> IF j < k THEN p[j] ELSE p[j] - s[k] + v]
<1>0. k \in Nat /\ Adds(p, s, n, t) /\ s[k] \in Nat /\ k - 1 \in 0..n /\ k \in 0..n
  BY DEF Adds
<1>2. p[k] = p[k - 1] + s[k] /\ p[k] \in Nat /\ p[k - 1] \in Nat /\ p[n] = t /\ p[k] <= t
  BY <1>0 DEF Adds
<1>3. ASSUME NEW j \in 0..n, j < k
      PROVE  q[j] = p[j] /\ p[j] \in Nat /\ p[j] <= t - s[k]
  <2>1. p[j] <= p[k - 1] /\ p[j] \in Nat
    BY <1>0, <1>3 DEF Adds
  <2>. QED BY <2>1, <1>0, <1>2, <1>3
<1>4. ASSUME NEW j \in 0..n, j >= k
      PROVE  /\ q[j] = p[j] - s[k] + v
             /\ p[j] \in Nat /\ p[j] - s[k] \in Nat /\ p[j] <= t /\ p[k] <= p[j]
  <2>1. p[k] <= p[j] /\ p[j] \in Nat /\ p[j] <= t
    BY <1>0, <1>4 DEF Adds
  <2>. QED BY <2>1, <1>0, <1>2, <1>4
<1>. HIDE DEF q
<1>5. t - s[k] + v \in Nat
  BY <1>0, <1>2
<1>6. q[n] = t - s[k] + v /\ q[0] = 0
  <2>1. q[n] = p[n] - s[k] + v
    BY <1>0, <1>4
  <2>2. q[0] = p[0] /\ p[0] = 0
    BY <1>0, <1>3 DEF Adds
  <2>. QED BY <2>1, <2>2, <1>2
<1>7. ASSUME NEW j \in 0..n PROVE q[j] \in Nat /\ q[j] <= t - s[k] + v
  <2>1. CASE j < k
    BY <2>1, <1>0, <1>2, <1>3
  <2>2. CASE j >= k
    <3>1. q[j] = (p[j] - s[k]) + v /\ p[j] \in Nat /\ p[j] - s[k] \in Nat /\ p[j] <= t
      BY <2>2, <1>4
    <3>. QED BY <3>1, <1>0
  <2>. QED BY <2>1, <2>2, <1>0
<1>8. ASSUME NEW j \in 1..n PROVE q[j] = q[j - 1] + r[j] /\ r[j] \in Nat
  <2>1. p[j] = p[j - 1] + s[j] /\ s[j] \in Nat /\ j \in 0..n /\ j - 1 \in 0..n
    BY DEF Adds
  <2>2. CASE j < k
    <3>1. q[j] = p[j] /\ q[j - 1] = p[j - 1] /\ r[j] = s[j]
      BY <2>1, <2>2, <1>0, <1>3
    <3>. QED BY <3>1, <2>1
  <2>3. CASE j = k
    <3>1. q[j] = p[j] - s[k] + v /\ q[j - 1] = p[j - 1] /\ p[j - 1] \in Nat
      BY <2>1, <2>3, <1>0, <1>3, <1>4
    <3>. QED BY <3>1, <2>1, <2>3, <1>0
  <2>4. CASE j > k
    <3>1. q[j] = p[j] - s[k] + v /\ p[j - 1] \in Nat
      BY <2>1, <2>4, <1>0, <1>4
    <3>2. q[j - 1] = p[j - 1] - s[k] + v
      BY <2>1, <2>4, <1>0, <1>4
    <3>. QED BY <3>1, <3>2, <2>1, <2>4, <1>0
  <2>. QED BY <2>2, <2>3, <2>4, <1>0
<1>9. ASSUME NEW i \in 0..n, NEW j \in 0..n, i <= j PROVE q[i] <= q[j]
  <2>1. p[i] <= p[j] /\ i \in 0..n /\ j \in 0..n
    BY <1>9 DEF Adds
  <2>2. CASE j < k
    BY <2>1, <2>2, <1>0, <1>3, <1>9
  <2>3. CASE i < k /\ j >= k
    <3>1. q[i] = p[i] /\ p[i] \in Nat /\ p[i] <= p[k - 1]
      BY <2>1, <2>3, <1>0, <1>3 DEF Adds
    <3>2. q[j] = p[j] - s[k] + v /\ p[j] \in Nat /\ p[k] <= p[j]
      BY <2>1, <2>3, <1>4
    <3>. QED BY <3>1, <3>2, <1>0, <1>2
  <2>4. CASE i >= k
    <3>1. q[i] = p[i] - s[k] + v /\ p[i] \in Nat
      BY <2>1, <2>4, <1>4
    <3>2. q[j] = p[j] - s[k] + v /\ p[j] \in Nat
      BY <2>1, <2>4, <1>0, <1>4, <1>9
    <3>. QED BY <3>1, <3>2, <2>1, <1>0
  <2>. QED BY <2>2, <2>3, <2>4, <1>0, <1>9
<1>10. Adds(q, r, n, t - s[k] + v)
  BY <1>6, <1>7, <1>8, <1>9 DEF Adds
<1>. QED BY <1>5, <1>10

\* Replacing a part changes the total by the difference.
LEMMA SumsUpdate ==
  ASSUME NEW s \in Seq(Nat), NEW t \in Nat, SumsTo(s, t),
         NEW k \in 1..Len(s), NEW v \in Nat,
         NEW r \in Seq(Nat), Len(r) = Len(s), r[k] = v,
         \A j \in 1..Len(s) : j # k => r[j] = s[j]
  PROVE  t - s[k] + v \in Nat /\ SumsTo(r, t - s[k] + v)
<1>1. PICK p : Adds(p, s, Len(s), t)
  BY SumsElim
<1>2. Len(s) \in Nat
  OBVIOUS
<1>3. t - s[k] + v \in Nat /\ \E q : Adds(q, r, Len(s), t - s[k] + v)
  BY <1>1, <1>2, AddsUpdate
<1>. QED BY <1>3, SumsIntro

\* The running sums after a part is removed.
LEMMA AddsRemove ==
  ASSUME NEW n \in Nat, NEW s, NEW t \in Nat, NEW p, Adds(p, s, n, t),
         NEW k \in 1..n,
         NEW r,
         \A j \in 1..(n - 1) : j < k => r[j] = s[j],
         \A j \in 1..(n - 1) : j >= k => r[j] = s[j + 1]
  PROVE  t - s[k] \in Nat /\ \E q : Adds(q, r, n - 1, t - s[k])
<1>. DEFINE q == [j \in 0..(n - 1) |-> IF j < k THEN p[j] ELSE p[j + 1] - s[k]]
<1>0. k \in Nat /\ Adds(p, s, n, t) /\ n - 1 \in Nat /\ s[k] \in Nat /\ k - 1 \in 0..n /\ k \in 0..n
  BY DEF Adds
<1>2. p[k] = p[k - 1] + s[k] /\ p[k] \in Nat /\ p[k - 1] \in Nat /\ p[n] = t /\ p[k] <= t
  BY <1>0 DEF Adds
<1>3. ASSUME NEW j \in 0..(n - 1), j < k
      PROVE  q[j] = p[j] /\ p[j] \in Nat /\ p[j] <= p[k - 1] /\ p[j] <= t - s[k]
  <2>1. p[j] <= p[k - 1] /\ p[j] \in Nat
    BY <1>0, <1>3 DEF Adds
  <2>. QED BY <2>1, <1>0, <1>2, <1>3
<1>4. ASSUME NEW j \in 0..(n - 1), j >= k
      PROVE  /\ q[j] = p[j + 1] - s[k]
             /\ p[j + 1] \in Nat /\ p[j + 1] - s[k] \in Nat
             /\ p[j + 1] <= t /\ p[k] <= p[j + 1]
  <2>0. j + 1 \in 0..n /\ k <= j + 1
    BY <1>0, <1>4
  <2>1. p[k] <= p[j + 1] /\ p[j + 1] \in Nat /\ p[j + 1] <= t
    BY <2>0, <1>0 DEF Adds
  <2>. QED BY <2>1, <1>0, <1>2, <1>4
<1>. HIDE DEF q
<1>5. t - s[k] \in Nat
  BY <1>0, <1>2
<1>6. q[n - 1] = t - s[k] /\ q[0] = 0
  <2>1. q[0] = p[0] /\ p[0] = 0
    BY <1>0, <1>3 DEF Adds
  <2>2. CASE k = n
    <3>1. q[n - 1] = p[k - 1]
      BY <2>2, <1>0, <1>3
    <3>. QED BY <3>1, <2>1, <2>2, <1>0, <1>2
  <2>3. CASE k < n
    <3>1. q[n - 1] = p[n] - s[k]
      BY <2>3, <1>0, <1>4
    <3>. QED BY <3>1, <2>1, <1>2
  <2>. QED BY <2>2, <2>3, <1>0
<1>7. ASSUME NEW j \in 0..(n - 1) PROVE q[j] \in Nat /\ q[j] <= t - s[k]
  <2>1. CASE j < k
    BY <2>1, <1>0, <1>2, <1>3
  <2>2. CASE j >= k
    BY <2>2, <1>0, <1>2, <1>4
  <2>. QED BY <2>1, <2>2, <1>0
<1>8. ASSUME NEW j \in 1..(n - 1) PROVE q[j] = q[j - 1] + r[j] /\ r[j] \in Nat
  <2>0. j \in 0..(n - 1) /\ j - 1 \in 0..(n - 1) /\ j \in 1..n /\ j + 1 \in 1..n
    BY <1>0
  <2>1. p[j] = p[j - 1] + s[j] /\ s[j] \in Nat
    BY <2>0 DEF Adds
  <2>2. p[j + 1] = p[j] + s[j + 1] /\ s[j + 1] \in Nat
    BY <2>0 DEF Adds
  <2>3. CASE j < k
    <3>1. q[j] = p[j] /\ q[j - 1] = p[j - 1] /\ r[j] = s[j]
      BY <2>0, <2>3, <1>0, <1>3
    <3>. QED BY <3>1, <2>1
  <2>4. CASE j = k
    <3>1. q[j] = p[j + 1] - s[k] /\ q[j - 1] = p[j - 1] /\ p[j - 1] \in Nat /\ r[j] = s[j + 1]
      BY <2>0, <2>4, <1>0, <1>3, <1>4
    <3>. QED BY <3>1, <2>1, <2>2, <2>4, <1>0
  <2>5. CASE j > k
    <3>1. q[j] = p[j + 1] - s[k] /\ p[j + 1] \in Nat /\ r[j] = s[j + 1]
      BY <2>0, <2>5, <1>0, <1>4
    <3>2. q[j - 1] = p[j] - s[k] /\ p[j] \in Nat
      BY <2>0, <2>5, <1>0, <1>4
    <3>. QED BY <3>1, <3>2, <2>2, <1>0
  <2>. QED BY <2>3, <2>4, <2>5, <1>0
<1>9. ASSUME NEW i \in 0..(n - 1), NEW j \in 0..(n - 1), i <= j PROVE q[i] <= q[j]
  <2>0. i \in 0..n /\ j \in 0..n /\ i + 1 \in 0..n /\ j + 1 \in 0..n
    BY <1>0
  <2>1. p[i] <= p[j] /\ p[i + 1] <= p[j + 1]
    BY <2>0, <1>9 DEF Adds
  <2>2. CASE j < k
    <3>1. q[i] = p[i] /\ q[j] = p[j]
      BY <2>2, <1>0, <1>3, <1>9
    <3>. QED BY <3>1, <2>1
  <2>3. CASE i < k /\ j >= k
    <3>1. q[i] = p[i] /\ p[i] \in Nat /\ p[i] <= p[k - 1]
      BY <2>3, <1>3
    <3>2. q[j] = p[j + 1] - s[k] /\ p[j + 1] \in Nat /\ p[k] <= p[j + 1]
      BY <2>3, <1>4
    <3>. QED BY <3>1, <3>2, <1>0, <1>2
  <2>4. CASE i >= k
    <3>1. q[i] = p[i + 1] - s[k] /\ p[i + 1] \in Nat
      BY <2>4, <1>4
    <3>2. q[j] = p[j + 1] - s[k] /\ p[j + 1] \in Nat
      BY <2>4, <1>0, <1>4, <1>9
    <3>. QED BY <3>1, <3>2, <2>1, <1>0
  <2>. QED BY <2>2, <2>3, <2>4, <1>0, <1>9
<1>10. Adds(q, r, n - 1, t - s[k])
  BY <1>6, <1>7, <1>8, <1>9 DEF Adds
<1>. QED BY <1>5, <1>10

\* A removal takes the part out of the total.
LEMMA SumsRemove ==
  ASSUME NEW s \in Seq(Nat), NEW t \in Nat, SumsTo(s, t),
         NEW k \in 1..Len(s),
         NEW r \in Seq(Nat), Len(r) = Len(s) - 1,
         \A j \in 1..Len(r) : j < k => r[j] = s[j],
         \A j \in 1..Len(r) : j >= k => r[j] = s[j + 1]
  PROVE  t - s[k] \in Nat /\ SumsTo(r, t - s[k])
<1>1. PICK p : Adds(p, s, Len(s), t)
  BY SumsElim
<1>2. Len(s) \in Nat
  OBVIOUS
<1>3. t - s[k] \in Nat /\ \E q : Adds(q, r, Len(s) - 1, t - s[k])
  BY <1>1, <1>2, AddsRemove
<1>. QED BY <1>3, SumsIntro

\* Only an empty sequence of positive numbers adds up to zero.
LEMMA SumsZero ==
  ASSUME NEW s \in Seq(Nat \ {0}), SumsTo(s, 0)
  PROVE  s = <<>>
<1>1. s \in Seq(Nat)
  OBVIOUS
<1>2. ASSUME Len(s) # 0 PROVE FALSE
  <2>1. 1 \in 1..Len(s) /\ s[1] \in Nat \ {0}
    BY <1>2
  <2>2. s[1] <= 0
    BY <1>1, <2>1, SumsPart
  <2>. QED BY <2>1, <2>2
<1>. QED BY <1>2

-----------------------------------------------------------------------------
(***************************************************************************)
(* Induction over the natural numbers, by the pigeonhole principle.        *)
(***************************************************************************)
\* A set that has 0, and with a number the next one, has all; a set without n that goes on so
\* would have as many numbers as it has without 0.
LEMMA Climbs ==
  ASSUME NEW n \in Nat, NEW S \in SUBSET (0 .. n), 0 \in S, \A k \in S : k # n => k + 1 \in S
  PROVE  n \in S
<1>1. SUFFICES ASSUME n \notin S PROVE FALSE
  OBVIOUS
<1>2. IsFiniteSet(S)
  <2>1. 0 \in Int /\ n \in Int
    OBVIOUS
  <2>2. IsFiniteSet(0 .. n)
    BY <2>1, FS_Interval
  <2>. QED BY <2>2, FS_Subset
<1>3. PICK T : T = S \ {0}
  OBVIOUS
<1>4. /\ IsFiniteSet(T) /\ Cardinality(T) = Cardinality(S) - 1
      /\ Cardinality(S) \in Nat
  BY <1>2, <1>3, FS_RemoveElement, FS_CardinalityType
<1>5. PICK f : f = [k \in S |-> k + 1]
  OBVIOUS
<1>6. f \in [S -> T]
  BY <1>1, <1>3, <1>5
<1>7. \E x, y \in S : x # y /\ f[x] = f[y]
  <2>1. Cardinality(T) < Cardinality(S)
    BY <1>4
  <2>. QED BY <1>2, <1>4, <1>6, <2>1, FS_PigeonHole
<1>. QED BY <1>5, <1>7

\* Induction over the natural numbers.
LEMMA Induction ==
  ASSUME NEW S, 0 \in S, \A k \in Nat : k \in S => k + 1 \in S
  PROVE  \A n \in Nat : n \in S
<1>1. SUFFICES ASSUME NEW n \in Nat PROVE n \in S
  OBVIOUS
<1>2. PICK T : T = S \cap (0 .. n)
  OBVIOUS
<1>3. T \in SUBSET (0 .. n) /\ 0 \in T /\ \A k \in T : k # n => k + 1 \in T
  BY <1>2
<1>4. n \in T
  BY <1>3, Climbs
<1>. QED BY <1>2, <1>4

-----------------------------------------------------------------------------
(***************************************************************************)
(* Sequences that a set filters: by induction over the positions.          *)
(***************************************************************************)
\* Filter goes through the sequence, position by position.
LEMMA FilterSteps ==
  ASSUME NEW s, Len(s) \in Nat, NEW T
  PROVE  \E kept : /\ kept[0] = <<>>
                   /\ \A i \in 1 .. Len(s) :
                        kept[i] = IF s[i] \in T THEN Append(kept[i - 1], s[i]) ELSE kept[i - 1]
                   /\ Filter(s, T) = kept[Len(s)]
<1>. DEFINE Step(f, n) ==
       [i \in 0 .. n |-> IF i = 0 THEN <<>>
                         ELSE IF s[i] \in T THEN Append(f[i - 1], s[i]) ELSE f[i - 1]]
            P == {n \in Nat : \E f : f = Step(f, n)}
<1>1. 0 \in P
  <2>1. PICK f : f = [i \in 0 .. 0 |-> <<>>]
    OBVIOUS
  <2>2. f = Step(f, 0)
    BY <2>1
  <2>. QED BY <2>2
<1>2. ASSUME NEW n \in Nat, n \in P PROVE n + 1 \in P
  <2>1. PICK f : f = Step(f, n)
    BY <1>2
  <2>2. PICK g : g = [i \in 0 .. (n + 1) |->
                       IF i = 0 THEN <<>>
                       ELSE IF s[i] \in T THEN Append(f[i - 1], s[i]) ELSE f[i - 1]]
    OBVIOUS
  <2>3. \A i \in 0 .. n : g[i] = f[i]
    <3>1. ASSUME NEW i \in 0 .. n PROVE g[i] = f[i]
      <4>1. i \in 0 .. (n + 1)
        OBVIOUS
      <4>2. f[i] = IF i = 0 THEN <<>> ELSE IF s[i] \in T THEN Append(f[i - 1], s[i]) ELSE f[i - 1]
        BY <2>1
      <4>. QED BY <2>2, <4>1, <4>2
    <3>. QED BY <3>1
  <2>4. \A i \in 0 .. (n + 1) : i # 0 => i - 1 \in 0 .. n
    OBVIOUS
  <2>5. g = Step(g, n + 1)
    BY <2>2, <2>3, <2>4
  <2>. QED BY <2>5
<1>3. Len(s) \in P
  <2>. HIDE DEF P
  <2>. QED BY <1>1, <1>2, Induction
<1>4. PICK kept : kept = (CHOOSE f : f = Step(f, Len(s)))
  BY SMTT(30)
<1>5. kept = Step(kept, Len(s))
  BY <1>3, <1>4
<1>6. Filter(s, T) = kept[Len(s)]
  BY <1>4 DEF Filter
<1>7. kept[0] = <<>>
  BY <1>5
<1>8. ASSUME NEW i \in 1 .. Len(s)
      PROVE  kept[i] = IF s[i] \in T THEN Append(kept[i - 1], s[i]) ELSE kept[i - 1]
  <2>1. i \in 0 .. Len(s) /\ i # 0
    OBVIOUS
  <2>. QED BY <1>5, <2>1
<1>. QED BY <1>6, <1>7, <1>8

\* No element twice.
Distinct(s) == \A i, j \in 1 .. Len(s) : s[i] = s[j] => i = j

\* What a sequence has after an element was appended.
LEMMA AppendElements ==
  ASSUME NEW S, NEW s \in Seq(S), NEW e \in S
  PROVE  /\ Append(s, e) \in Seq(S) /\ Len(Append(s, e)) = Len(s) + 1
         /\ \A x : Contains(Append(s, e), x) <=> Contains(s, x) \/ x = e
         /\ Distinct(s) /\ ~ Contains(s, e) => Distinct(Append(s, e))
<1>1. /\ Append(s, e) \in Seq(S) /\ Len(Append(s, e)) = Len(s) + 1 /\ Len(s) \in Nat
      /\ \A i \in 1 .. Len(s) : Append(s, e)[i] = s[i]
      /\ Append(s, e)[Len(s) + 1] = e
  BY AppendProperties
<1>2. PICK t : t = Append(s, e)
  OBVIOUS
<1>3. ASSUME NEW x PROVE Contains(t, x) <=> Contains(s, x) \/ x = e
  <2>1. \A i \in 1 .. Len(t) : i \in 1 .. Len(s) \/ i = Len(s) + 1
    BY <1>1, <1>2
  <2>2. \A i \in 1 .. Len(s) : i \in 1 .. Len(t)
    BY <1>1, <1>2
  <2>3. Len(s) + 1 \in 1 .. Len(t)
    BY <1>1, <1>2
  <2>. QED BY <1>1, <1>2, <2>1, <2>2, <2>3 DEF Contains
<1>4. ASSUME Distinct(s), ~ Contains(s, e) PROVE Distinct(t)
  <2>1. SUFFICES ASSUME NEW i \in 1 .. Len(t), NEW j \in 1 .. Len(t), t[i] = t[j] PROVE i = j
    BY DEF Distinct
  <2>2. i \in 1 .. Len(s) \/ i = Len(s) + 1
    BY <1>1, <1>2
  <2>3. j \in 1 .. Len(s) \/ j = Len(s) + 1
    BY <1>1, <1>2
  <2>4. \A k \in 1 .. Len(s) : t[k] # e
    BY <1>1, <1>2, <1>4 DEF Contains
  <2>. QED BY <1>1, <1>2, <1>4, <2>1, <2>2, <2>3, <2>4 DEF Distinct
<1>. QED BY <1>1, <1>2, <1>3, <1>4

\* A filter leaves the elements that are in the set, no more often than they were.
LEMMA FilterElements ==
  ASSUME NEW S, NEW s \in Seq(S), NEW T
  PROVE  /\ Filter(s, T) \in Seq(S) /\ Len(Filter(s, T)) <= Len(s)
         /\ \A x : Contains(Filter(s, T), x) <=> Contains(s, x) /\ x \in T
         /\ Distinct(s) => Distinct(Filter(s, T))
<1>1. Len(s) \in Nat /\ \A i \in 1 .. Len(s) : s[i] \in S
  BY LenProperties, ElementOfSeq
<1>2. PICK kept : /\ kept[0] = <<>>
                  /\ \A i \in 1 .. Len(s) :
                       kept[i] = IF s[i] \in T THEN Append(kept[i - 1], s[i]) ELSE kept[i - 1]
                  /\ Filter(s, T) = kept[Len(s)]
  BY <1>1, FilterSteps
<1>. DEFINE Has(n, x) == \E i \in 1 .. n : s[i] = x
            Good(n) == /\ kept[n] \in Seq(S) /\ Len(kept[n]) <= n
                       /\ \A x : Contains(kept[n], x) <=> Has(n, x) /\ x \in T
                       /\ Distinct(s) => Distinct(kept[n])
            P == {n \in Nat : n <= Len(s) => Good(n)}
<1>3. Good(0)
  BY <1>2, EmptySeq DEF Contains, Distinct
<1>4. ASSUME NEW n \in Nat, n + 1 <= Len(s), Good(n) PROVE Good(n + 1)
  <2>1. n + 1 \in 1 .. Len(s) /\ (n + 1) - 1 = n
    BY <1>1, <1>4
  <2>2. PICK e : e = s[n + 1]
    OBVIOUS
  <2>3. e \in S /\ kept[n + 1] = IF e \in T THEN Append(kept[n], e) ELSE kept[n]
    BY <1>1, <1>2, <2>1, <2>2
  <2>4. \A x : Has(n + 1, x) <=> Has(n, x) \/ x = e
    <3>1. \A i \in 1 .. (n + 1) : i \in 1 .. n \/ i = n + 1
      OBVIOUS
    <3>2. \A i \in 1 .. n : i \in 1 .. (n + 1)
      OBVIOUS
    <3>3. n + 1 \in 1 .. (n + 1)
      OBVIOUS
    <3>. QED BY <2>2, <3>1, <3>2, <3>3
  <2>5. Distinct(s) => ~ Has(n, e)
    <3>1. \A i \in 1 .. n : i \in 1 .. Len(s) /\ i # n + 1
      BY <1>1, <2>1
    <3>. QED BY <2>1, <2>2, <3>1 DEF Distinct
  <2>6. Len(kept[n]) \in Nat
    BY <1>4, LenProperties
  <2>7. CASE e \in T
    <3>1. PICK k : k = kept[n]
      OBVIOUS
    <3>2. k \in Seq(S) /\ Len(k) \in Nat /\ Len(k) <= n /\ kept[n + 1] = Append(k, e)
      BY <1>4, <2>3, <2>6, <2>7, <3>1
    <3>3. /\ Append(k, e) \in Seq(S) /\ Len(Append(k, e)) = Len(k) + 1
          /\ \A x : Contains(Append(k, e), x) <=> Contains(k, x) \/ x = e
          /\ Distinct(k) /\ ~ Contains(k, e) => Distinct(Append(k, e))
      BY <2>3, <3>2, AppendElements
    <3>4. Len(kept[n + 1]) <= n + 1
      BY <3>2, <3>3
    <3>5. \A x : Contains(k, x) <=> Has(n, x) /\ x \in T
      BY <1>4, <3>1
    <3>6. \A x : Contains(kept[n + 1], x) <=> Has(n + 1, x) /\ x \in T
      <4>. HIDE DEF Has
      <4>. QED BY <2>4, <2>7, <3>2, <3>3, <3>5
    <3>7. Distinct(s) => Distinct(kept[n + 1])
      <4>. HIDE DEF Has
      <4>. QED BY <1>4, <2>5, <3>1, <3>2, <3>3, <3>5
    <3>. QED BY <3>2, <3>3, <3>4, <3>6, <3>7
  <2>8. CASE e \notin T
    <3>1. kept[n + 1] = kept[n]
      BY <2>3, <2>8
    <3>2. Len(kept[n]) <= n + 1
      BY <1>4, <2>6
    <3>3. \A x : Contains(kept[n], x) <=> Has(n + 1, x) /\ x \in T
      <4>. HIDE DEF Has
      <4>. QED BY <1>4, <2>4, <2>8
    <3>. QED BY <1>4, <3>1, <3>2, <3>3
  <2>. QED BY <2>7, <2>8
<1>5. Good(Len(s))
  <2>. HIDE DEF Good
  <2>1. 0 \in P
    BY <1>3
  <2>2. ASSUME NEW n \in Nat, n \in P PROVE n + 1 \in P
    BY <1>1, <1>4, <2>2
  <2>3. Len(s) \in P
    <3>. HIDE DEF P
    <3>. QED BY <1>1, <2>1, <2>2, Induction
  <2>. QED BY <1>1, <2>3
<1>6. \A x : Has(Len(s), x) <=> Contains(s, x)
  BY DEF Contains
<1>. QED BY <1>2, <1>5, <1>6

\* What is appended passes the filter or does not.
LEMMA FilterAppend ==
  ASSUME NEW S, NEW s \in Seq(S), NEW e \in S, NEW T
  PROVE  Filter(Append(s, e), T) = IF e \in T THEN Append(Filter(s, T), e) ELSE Filter(s, T)
<1>1. PICK t : t = Append(s, e)
  OBVIOUS
<1>2. /\ Len(s) \in Nat /\ Len(t) = Len(s) + 1 /\ Len(t) \in Nat
      /\ \A i \in 1 .. Len(s) : t[i] = s[i]
      /\ t[Len(s) + 1] = e
  BY <1>1, AppendProperties
<1>3. PICK k : /\ k[0] = <<>>
               /\ \A i \in 1 .. Len(s) : k[i] = IF s[i] \in T THEN Append(k[i - 1], s[i]) ELSE k[i - 1]
               /\ Filter(s, T) = k[Len(s)]
  BY <1>2, FilterSteps
<1>4. PICK m : /\ m[0] = <<>>
               /\ \A i \in 1 .. Len(t) : m[i] = IF t[i] \in T THEN Append(m[i - 1], t[i]) ELSE m[i - 1]
               /\ Filter(t, T) = m[Len(t)]
  BY <1>2, FilterSteps
<1>. DEFINE P == {n \in Nat : n <= Len(s) => k[n] = m[n]}
<1>5. 0 \in P
  BY <1>3, <1>4
<1>6. ASSUME NEW n \in Nat, n \in P PROVE n + 1 \in P
  <2>1. SUFFICES ASSUME n + 1 <= Len(s) PROVE k[n + 1] = m[n + 1]
    OBVIOUS
  <2>2. n + 1 \in 1 .. Len(s) /\ n + 1 \in 1 .. Len(t) /\ (n + 1) - 1 = n /\ k[n] = m[n]
    BY <1>2, <1>6, <2>1
  <2>. QED BY <1>2, <1>3, <1>4, <2>2
<1>7. k[Len(s)] = m[Len(s)]
  <2>1. Len(s) \in P
    <3>. HIDE DEF P
    <3>. QED BY <1>2, <1>5, <1>6, Induction
  <2>. QED BY <1>2, <2>1
<1>8. Len(s) + 1 \in 1 .. Len(t) /\ (Len(s) + 1) - 1 = Len(s)
  BY <1>2
<1>9. m[Len(s) + 1] = IF t[Len(s) + 1] \in T THEN Append(m[(Len(s) + 1) - 1], t[Len(s) + 1])
                                             ELSE m[(Len(s) + 1) - 1]
  BY <1>4, <1>8
<1>. QED BY <1>1, <1>2, <1>3, <1>4, <1>7, <1>8, <1>9

\* An empty sequence stays empty.
LEMMA FilterEmpty == \A T : Filter(<<>>, T) = <<>>
<1>1. ASSUME NEW T PROVE Filter(<<>>, T) = <<>>
  <2>1. Len(<<>>) = 0
    BY EmptySeq
  <2>. QED BY <2>1, FilterSteps
<1>. QED BY <1>1

\* The first element of a sequence passes the filter before all others, or does not pass.
LEMMA FilterTail ==
  ASSUME NEW S, NEW s \in Seq(S), s # <<>>, NEW T
  PROVE  /\ Head(s) \notin T => Filter(s, T) = Filter(Tail(s), T)
         /\ Head(s) \in T =>
              /\ Len(Filter(s, T)) = 1 + Len(Filter(Tail(s), T))
              /\ Last(Filter(s, T)) = IF Filter(Tail(s), T) = <<>> THEN Head(s)
                                                                   ELSE Last(Filter(Tail(s), T))
<1>1. PICK t : t = Tail(s)
  OBVIOUS
<1>2. PICK h : h = s[1]
  OBVIOUS
<1>3. /\ h = Head(s) /\ h \in S /\ t \in Seq(S) /\ Len(s) \in Nat /\ Len(t) \in Nat
      /\ Len(s) = Len(t) + 1 /\ \A i \in 1 .. Len(t) : t[i] = s[i + 1] /\ t[i] \in S
  BY <1>1, <1>2, HeadTailProperties
<1>4. PICK k : /\ k[0] = <<>>
               /\ \A i \in 1 .. Len(s) :
                    k[i] = IF s[i] \in T THEN Append(k[i - 1], s[i]) ELSE k[i - 1]
               /\ Filter(s, T) = k[Len(s)]
  BY <1>3, FilterSteps
<1>5. PICK m : /\ m[0] = <<>>
               /\ \A i \in 1 .. Len(t) :
                    m[i] = IF t[i] \in T THEN Append(m[i - 1], t[i]) ELSE m[i - 1]
               /\ Filter(t, T) = m[Len(t)]
  BY <1>3, FilterSteps
<1>6. /\ \A q \in Seq(S), e \in S : /\ Append(q, e) \in Seq(S) /\ Len(q) \in Nat
                                    /\ Len(Append(q, e)) = Len(q) + 1
                                    /\ Last(Append(q, e)) = e /\ Append(q, e) # <<>>
      /\ <<>> \in Seq(S) /\ Len(<<>>) = 0
  BY AppendProperties, EmptySeq, LenProperties DEF Last
<1>7. k[1] = IF h \in T THEN Append(<<>>, h) ELSE <<>>
  <2>1. 1 \in 1 .. Len(s) /\ 1 - 1 = 0
    BY <1>3
  <2>. QED BY <1>2, <1>4, <2>1
<1>. DEFINE Good(n) == /\ m[n] \in Seq(S) /\ k[n + 1] \in Seq(S)
                       /\ h \notin T => k[n + 1] = m[n]
                       /\ h \in T => /\ Len(k[n + 1]) = 1 + Len(m[n])
                                     /\ Last(k[n + 1]) = IF m[n] = <<>> THEN h ELSE Last(m[n])
            P == {n \in Nat : n <= Len(t) => Good(n)}
<1>8. Good(0)
  <2>1. PICK z : z = <<>>
    OBVIOUS
  <2>2. /\ Append(z, h) \in Seq(S) /\ Len(Append(z, h)) = Len(z) + 1 /\ Last(Append(z, h)) = h
        /\ z \in Seq(S) /\ Len(z) = 0
    BY <1>3, <1>6, <2>1
  <2>3. m[0] = z /\ k[0 + 1] = IF h \in T THEN Append(z, h) ELSE z
    BY <1>5, <1>7, <2>1
  <2>. QED BY <2>1, <2>2, <2>3
<1>9. ASSUME NEW n \in Nat, n + 1 <= Len(t), Good(n) PROVE Good(n + 1)
  <2>1. /\ n + 1 \in 1 .. Len(t) /\ (n + 1) - 1 = n
        /\ (n + 1) + 1 \in 1 .. Len(s) /\ ((n + 1) + 1) - 1 = n + 1
    BY <1>3, <1>9
  <2>2. PICK e \in S : e = t[n + 1]
    BY <1>3, <2>1
  <2>3. e = s[(n + 1) + 1]
    BY <1>3, <2>1, <2>2
  <2>4. PICK a, b : a = m[n] /\ b = k[n + 1]
    OBVIOUS
  <2>5. m[n + 1] = IF e \in T THEN Append(a, e) ELSE a
    BY <1>5, <2>1, <2>2, <2>4
  <2>6. k[(n + 1) + 1] = IF e \in T THEN Append(b, e) ELSE b
    BY <1>4, <2>1, <2>3, <2>4
  <2>7. /\ a \in Seq(S) /\ b \in Seq(S)
        /\ h \notin T => b = a
        /\ h \in T => Len(b) = 1 + Len(a) /\ Last(b) = IF a = <<>> THEN h ELSE Last(a)
    BY <1>9, <2>4
  <2>8. /\ Append(a, e) \in Seq(S) /\ Len(Append(a, e)) = Len(a) + 1 /\ Len(a) \in Nat
        /\ Last(Append(a, e)) = e /\ Append(a, e) # <<>>
    BY <1>6, <2>7
  <2>9. /\ Append(b, e) \in Seq(S) /\ Len(Append(b, e)) = Len(b) + 1 /\ Len(b) \in Nat
        /\ Last(Append(b, e)) = e /\ Append(b, e) # <<>>
    BY <1>6, <2>7
  <2>. QED BY <2>5, <2>6, <2>7, <2>8, <2>9
<1>10. Good(Len(t))
  <2>. HIDE DEF Good
  <2>1. 0 \in P
    BY <1>8
  <2>2. ASSUME NEW n \in Nat, n \in P PROVE n + 1 \in P
    BY <1>3, <1>9, <2>2
  <2>3. Len(t) \in P
    <3>. HIDE DEF P
    <3>. QED BY <1>3, <2>1, <2>2, Induction
  <2>. QED BY <1>3, <2>3
<1>. QED BY <1>1, <1>3, <1>4, <1>5, <1>10

\* One sequence after another.
LEMMA ConcatLast ==
  ASSUME NEW S, NEW s \in Seq(S), NEW t \in Seq(S)
  PROVE  /\ Len(s \o t) = Len(s) + Len(t) /\ Len(s) \in Nat /\ Len(t) \in Nat
         /\ s \o t = <<>> <=> s = <<>> /\ t = <<>>
         /\ s \o t # <<>> => Last(s \o t) = IF t = <<>> THEN Last(s) ELSE Last(t)
<1>1. PICK r : r = s \o t
  OBVIOUS
<1>2. /\ r \in Seq(S) /\ Len(r) = Len(s) + Len(t) /\ Len(s) \in Nat /\ Len(t) \in Nat
      /\ \A i \in 1 .. Len(r) : r[i] = IF i <= Len(s) THEN s[i] ELSE t[i - Len(s)]
  BY <1>1, ConcatProperties, LenProperties
<1>3. \A q \in Seq(S) : q = <<>> <=> Len(q) = 0
  BY EmptySeq
<1>4. PICK a, b, c : a = Len(s) /\ b = Len(t) /\ c = Len(r)
  OBVIOUS
<1>5. CASE b = 0
  BY <1>1, <1>2, <1>3, <1>4, <1>5 DEF Last
<1>6. CASE b # 0
  <2>1. c \in 1 .. c /\ ~ (c <= a) /\ c - a = b
    BY <1>2, <1>4, <1>6
  <2>2. r[c] = t[b]
    BY <1>2, <1>4, <2>1
  <2>. QED BY <1>1, <1>2, <1>3, <1>4, <1>6, <2>2 DEF Last
<1>. QED BY <1>5, <1>6

\* What a sequence holds.
Elements(s) == {s[i] : i \in 1 .. Len(s)}

\* What a sequence holds when its first element is taken, or one is added at its end.
LEMMA ElementsOf ==
  ASSUME NEW S, NEW s \in Seq(S)
  PROVE  /\ Elements(s) \subseteq S
         /\ s # <<>> => /\ Head(s) \in Elements(s) /\ Elements(Tail(s)) \subseteq Elements(s)
                        /\ Elements(s) \subseteq Elements(Tail(s)) \cup {Head(s)}
         /\ \A e \in S : Elements(Append(s, e)) = Elements(s) \cup {e}
<1>1. Len(s) \in Nat /\ \A i \in 1 .. Len(s) : s[i] \in S
  OBVIOUS
<1>2. ASSUME s # <<>>
      PROVE  /\ Head(s) \in Elements(s) /\ Elements(Tail(s)) \subseteq Elements(s)
             /\ Elements(s) \subseteq Elements(Tail(s)) \cup {Head(s)}
  <2>0. Tail(s) \in Seq(S)
    BY <1>2, HeadTailProperties
  <2>1. PICK t \in Seq(S) : t = Tail(s)
    BY <2>0
  <2>2. /\ Len(s) = Len(t) + 1 /\ Len(t) \in Nat /\ Head(s) = s[1]
        /\ \A i \in 1 .. Len(t) : t[i] = s[i + 1]
    BY <1>2, <2>1, HeadTailProperties
  <2>3. \A i \in 1 .. Len(s) : i = 1 \/ (i - 1 \in 1 .. Len(t) /\ s[i] = t[i - 1])
    BY <1>1, <2>2
  <2>4. \A i \in 1 .. Len(t) : i + 1 \in 1 .. Len(s)
    BY <1>1, <2>2
  <2>5. 1 \in 1 .. Len(s)
    BY <1>1, <2>2
  <2>6. \A x \in Elements(t) : x \in Elements(s)
    BY <2>2, <2>4 DEF Elements
  <2>7. \A x \in Elements(s) : x \in Elements(t) \/ x = Head(s)
    BY <2>2, <2>3 DEF Elements
  <2>8. Head(s) \in Elements(s)
    BY <2>2, <2>5 DEF Elements
  <2>. QED BY <2>1, <2>6, <2>7, <2>8
<1>3. ASSUME NEW e \in S PROVE Elements(Append(s, e)) = Elements(s) \cup {e}
  <2>0. Append(s, e) \in Seq(S)
    BY AppendProperties
  <2>1. PICK t \in Seq(S) : t = Append(s, e)
    BY <2>0
  <2>2. /\ Len(t) = Len(s) + 1 /\ t[Len(s) + 1] = e
        /\ \A i \in 1 .. Len(s) : t[i] = s[i]
    BY <2>1, AppendProperties
  <2>3. \A i \in 1 .. Len(t) : i \in 1 .. Len(s) \/ i = Len(s) + 1
    BY <1>1, <2>2
  <2>4. \A i \in 1 .. Len(s) : i \in 1 .. Len(t)
    BY <1>1, <2>2
  <2>5. Len(s) + 1 \in 1 .. Len(t)
    BY <1>1, <2>2
  <2>6. \A x \in Elements(t) : x \in Elements(s) \cup {e}
    BY <2>2, <2>3 DEF Elements
  <2>7. \A x \in Elements(s) \cup {e} : x \in Elements(t)
    BY <2>2, <2>4, <2>5 DEF Elements
  <2>. QED BY <2>1, <2>6, <2>7
<1>4. Elements(s) \subseteq S
  BY <1>1 DEF Elements
<1>. QED BY <1>2, <1>3, <1>4
=============================================================================
