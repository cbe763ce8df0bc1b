-------------------------- MODULE SleepTimerProofs --------------------------
(***************************************************************************)
(* Proofs about SleepTimer, for any timers, requests and counter.          *)
(***************************************************************************)
EXTENDS SleepTimer, FiniteSetTheorems, SequenceTheorems, TLAPS

-----------------------------------------------------------------------------
(* Least elements, and with them induction, for sets of numbers.           *)

\* A set of natural numbers has a least one: intervals are well-founded.
LEMMA LeastNat ==
  ASSUME NEW S \in SUBSET Nat, S # {}
  PROVE  \E m \in S : \A n \in S : m <= n
<1> DEFINE R == StrictSubsetOrdering(Nat)
           T == {1 .. n : n \in S}
<1>1. T \subseteq FiniteSubsetsOf(Nat)
  BY FS_Interval DEF FiniteSubsetsOf
<1>2. IsWellFoundedOn(R, FiniteSubsetsOf(Nat))
  BY FS_StrictSubsetOrderingWellFounded
<1>3. T # {}
  OBVIOUS
<1>4. \E x \in T : \A y \in T : ~ (<<y, x>> \in R)
  <2> HIDE DEF R, T
  <2>1. QED BY <1>1, <1>2, <1>3, WFMin
<1>5. PICK m \in S : \A n \in S : ~ (<<1 .. n, 1 .. m>> \in R)
  BY <1>4
<1>6. ASSUME NEW n \in S, n < m PROVE FALSE
  <2>1. 1 .. n \subseteq 1 .. m
    BY <1>6
  <2>2. m \in 1 .. m /\ m \notin 1 .. n
    BY <1>6
  <2>3. 1 .. n \in SUBSET Nat /\ 1 .. m \in SUBSET Nat
    OBVIOUS
  <2>4. <<1 .. n, 1 .. m>> \in R
    BY <2>1, <2>2, <2>3 DEF StrictSubsetOrdering
  <2>5. QED BY <1>5, <2>4
<1>7. QED
  BY <1>6

\* What holds of 0 and of the next with each, holds up to k.
LEMMA UpTo ==
  ASSUME NEW k \in Nat, NEW S, 0 \in S,
         \A n \in 1 .. k : n - 1 \in S => n \in S
  PROVE  \A n \in 0 .. k : n \in S
<1> DEFINE Bad == {n \in 0 .. k : n \notin S}
<1> SUFFICES ASSUME Bad # {} PROVE FALSE
  OBVIOUS
<1>1. Bad \in SUBSET Nat
  OBVIOUS
<1>2. \E m \in Bad : \A n \in Bad : m <= n
  <2> HIDE DEF Bad
  <2>1. QED BY <1>1, LeastNat
<1>3. PICK m \in Bad : \A n \in Bad : m <= n
  BY <1>2
<1>4. m \in 1 .. k /\ m - 1 \in 0 .. k /\ m - 1 \notin Bad
  BY <1>3
<1>5. QED
  BY <1>4

-----------------------------------------------------------------------------
(* The list of deltas.                                                     *)

Entry == [timer : Timers, delta : Nat]

LEMMA EntryType ==
  ASSUME NEW l \in Seq(Entry), NEW i \in 1 .. Len(l)
  PROVE  l[i].timer \in Timers /\ l[i].delta \in Nat
<1>1. l[i] \in Entry
  OBVIOUS
<1>2. QED
  BY <1>1 DEF Entry

\* g sums the first k deltas.
Sums(l, k, g) ==
  /\ g \in [0 .. k -> Int] /\ g[0] = 0
  /\ \A n \in 1 .. k : g[n] = g[n - 1] + l[n].delta

LEMMA SumsExist ==
  ASSUME NEW l \in Seq(Entry)
  PROVE  \E g : Sums(l, Len(l), g)
<1> DEFINE S == {k \in 0 .. Len(l) : \E g : Sums(l, k, g)}
<1>1. 0 \in S
  <2>1. Sums(l, 0, [n \in 0 .. 0 |-> 0])
    BY DEF Sums
  <2>2. QED
    BY <2>1
<1>2. ASSUME NEW m \in 1 .. Len(l), m - 1 \in S
      PROVE  m \in S
  <2>1. PICK g : Sums(l, m - 1, g)
    BY <1>2
  <2> DEFINE h == [n \in 0 .. m |-> IF n = m THEN g[m - 1] + l[m].delta ELSE g[n]]
  <2>2. l[m].delta \in Int
    BY EntryType
  <2>3. g[m - 1] \in Int /\ \A n \in 0 .. m - 1 : g[n] \in Int
    BY <2>1 DEF Sums
  <2>4. h \in [0 .. m -> Int] /\ h[0] = 0
    BY <2>1, <2>2, <2>3 DEF Sums
  <2>5. ASSUME NEW n \in 1 .. m PROVE h[n] = h[n - 1] + l[n].delta
    BY <2>1 DEF Sums
  <2>6. Sums(l, m, h)
    BY <2>4, <2>5 DEF Sums
  <2> HIDE DEF h
  <2>7. QED
    BY <2>6
<1>3. \A n \in 0 .. Len(l) : n \in S
  <2> HIDE DEF S
  <2>1. Len(l) \in Nat
    OBVIOUS
  <2>2. QED BY <1>1, <1>2, <2>1, UpTo
<1>4. QED
  BY <1>3

\* What the recursive sum is: nothing at first, then a delta more with each timer.
LEMMA UntilStep ==
  ASSUME NEW l \in Seq(Entry)
  PROVE  /\ Until(l, 0) = 0
         /\ \A i \in 0 .. Len(l) : Until(l, i) \in Int
         /\ \A i \in 1 .. Len(l) : Until(l, i) = Until(l, i - 1) + l[i].delta
<1> DEFINE Rec(g) == g = [n \in 0 .. Len(l) |-> IF n = 0 THEN 0 ELSE g[n - 1] + l[n].delta]
           s == CHOOSE g : Rec(g)
<1>1. PICK g : Sums(l, Len(l), g)
  BY SumsExist
<1>2. Rec(g)
  BY <1>1 DEF Sums
<1>3. Rec(s)
  <2> HIDE DEF Rec
  <2>1. QED BY <1>2
<1>4. \A i : Until(l, i) = s[i]
  BY DEF Until
<1> HIDE DEF s
<1>5. s[0] = 0 /\ \A i \in 1 .. Len(l) : s[i] = s[i - 1] + l[i].delta
  BY <1>3
<1> DEFINE T == {i \in 0 .. Len(l) : s[i] \in Int}
<1>6. \A i \in 0 .. Len(l) : i \in T
  <2>1. 0 \in T
    BY <1>5
  <2>2. ASSUME NEW i \in 1 .. Len(l), i - 1 \in T PROVE i \in T
    <3>1. l[i].delta \in Int
      BY EntryType
    <3>2. QED
      BY <1>5, <2>2, <3>1
  <2> HIDE DEF T
  <2>3. Len(l) \in Nat
    OBVIOUS
  <2>4. QED
    BY <2>1, <2>2, <2>3, UpTo
<1>7. QED
  BY <1>4, <1>5, <1>6

\* It is the only one that does so.
LEMMA UntilIs ==
  ASSUME NEW l \in Seq(Entry), NEW g, g[0] = 0,
         \A i \in 1 .. Len(l) : g[i] = g[i - 1] + l[i].delta
  PROVE  \A i \in 0 .. Len(l) : Until(l, i) = g[i]
<1> DEFINE S == {i \in 0 .. Len(l) : Until(l, i) = g[i]}
<1>1. 0 \in S
  BY UntilStep
<1>2. ASSUME NEW i \in 1 .. Len(l), i - 1 \in S PROVE i \in S
  BY <1>2, UntilStep
<1>3. \A i \in 0 .. Len(l) : i \in S
  <2> HIDE DEF S
  <2>1. Len(l) \in Nat
    OBVIOUS
  <2>2. QED BY <1>1, <1>2, <2>1, UpTo
<1>4. QED
  BY <1>3

\* A later place is not earlier.
LEMMA UntilGrows ==
  ASSUME NEW l \in Seq(Entry)
  PROVE  /\ \A i \in 0 .. Len(l) : Until(l, i) \in Nat
         /\ \A i, j \in 0 .. Len(l) : i <= j => Until(l, i) <= Until(l, j)
<1>1. \A i \in 0 .. Len(l) : Until(l, i) \in Int
  BY UntilStep
<1>2. ASSUME NEW i \in 0 .. Len(l)
      PROVE  \A j \in 0 .. Len(l) : i <= j => Until(l, i) <= Until(l, j)
  <2> DEFINE S == {j \in 0 .. Len(l) : i <= j => Until(l, i) <= Until(l, j)}
  <2>1. 0 \in S
    BY <1>1
  <2>2. ASSUME NEW j \in 1 .. Len(l), j - 1 \in S PROVE j \in S
    <3>1. l[j].delta \in Nat
      BY EntryType
    <3>2. Until(l, j) = Until(l, j - 1) + l[j].delta
      BY UntilStep
    <3>3. Until(l, j) \in Int /\ Until(l, j - 1) \in Int /\ Until(l, i) \in Int
      BY <1>1
    <3>4. QED
      BY <2>2, <3>1, <3>2, <3>3
  <2>3. \A j \in 0 .. Len(l) : j \in S
    <3> HIDE DEF S
    <3>1. Len(l) \in Nat
      OBVIOUS
    <3>2. QED BY <2>1, <2>2, <3>1, UpTo
  <2>4. QED
    BY <2>3
<1>3. \A i \in 0 .. Len(l) : Until(l, 0) <= Until(l, i)
  BY <1>2
<1>4. Until(l, 0) = 0
  BY UntilStep
<1>5. QED
  BY <1>1, <1>2, <1>3, <1>4

\* Time passes: each timer's time gets less, down to 0.
LEMMA UpdatedTimes ==
  ASSUME NEW l \in Seq(Entry), NEW n \in Nat
  PROVE  LET p == Updated(l, n)
         IN /\ p \in Seq(Entry) /\ Len(p) = Len(l)
            /\ \A i \in 1 .. Len(l) : /\ p[i].timer = l[i].timer
                                      /\ Until(p, i) = Clip(Until(l, i) - n)
<1> DEFINE p == Updated(l, n)
           g == [i \in 0 .. Len(l) |-> Clip(Until(l, i) - n)]
<1>1. \A i \in 0 .. Len(l) : Until(l, i) \in Nat
  BY UntilGrows
<1>2. ASSUME NEW i \in 1 .. Len(l)
      PROVE  /\ p[i].timer = l[i].timer /\ p[i].delta = g[i] - g[i - 1]
             /\ p[i] \in Entry
  <2>1. l[i] \in Entry
    OBVIOUS
  <2>2. i \in 0 .. Len(l) /\ i - 1 \in 0 .. Len(l) /\ DOMAIN l = 1 .. Len(l)
    OBVIOUS
  <2>3. p[i] = [l[i] EXCEPT !.delta = g[i] - g[i - 1]]
    BY <2>2 DEF Updated
  <2>4. Until(l, i - 1) <= Until(l, i)
    BY <2>2, UntilGrows
  <2>5. g[i] - g[i - 1] \in Nat
    BY <1>1, <2>2, <2>4 DEF Clip
  <2> HIDE DEF g, p
  <2>6. QED
    BY <2>1, <2>3, <2>5 DEF Entry
<1>3. DOMAIN p = 1 .. Len(l) /\ p = [i \in 1 .. Len(l) |-> p[i]]
  BY DEF Updated
<1>4. p \in Seq(Entry) /\ Len(p) = Len(l)
  <2> HIDE DEF p
  <2>1. p \in [1 .. Len(l) -> Entry]
    BY <1>2, <1>3
  <2>2. QED
    BY <2>1
<1>5. g[0] = 0
  BY UntilStep DEF Clip
<1>6. \A i \in 0 .. Len(l) : g[i] \in Int
  BY <1>1 DEF Clip
<1>7. \A i \in 1 .. Len(p) : g[i] = g[i - 1] + p[i].delta
  <2> HIDE DEF g, p
  <2>1. QED
    BY <1>2, <1>4, <1>6
<1>8. \A i \in 0 .. Len(p) : Until(p, i) = g[i]
  <2> HIDE DEF g, p
  <2>1. QED
    BY <1>4, <1>5, <1>7, UntilIs
<1>9. \A i \in 1 .. Len(l) : Until(p, i) = Clip(Until(l, i) - n)
  <2> HIDE DEF p
  <2>1. QED
    BY <1>4, <1>8
<1> HIDE DEF p
<1>10. QED
  BY <1>2, <1>4, <1>9 DEF p

\* Those that expire by then are the first of the list.
LEMMA BehindIs ==
  ASSUME NEW l \in Seq(Entry), NEW ticks \in Nat
  PROVE  /\ Behind(l, ticks) \in 0 .. Len(l)
         /\ \A i \in 1 .. Len(l) : i <= Behind(l, ticks) <=> Until(l, i) <= ticks
<1> DEFINE soon == {i \in DOMAIN l : Until(l, i) <= ticks}
           late == {i \in 1 .. Len(l) : Until(l, i) > ticks}
<1>1. Len(l) \in Nat /\ DOMAIN l = 1 .. Len(l)
  OBVIOUS
<1>2. \A i \in 1 .. Len(l) : Until(l, i) \in Nat
  BY UntilGrows
<1>3. \A i, j \in 1 .. Len(l) : i <= j => Until(l, i) <= Until(l, j)
  BY UntilGrows
<1>4. PICK n \in 0 .. Len(l) : soon = 1 .. n
  <2>1. CASE late = {}
    BY <1>1, <1>2, <2>1
  <2>2. CASE late # {}
    <3>1. PICK m \in late : \A i \in late : m <= i
      <4>1. late \in SUBSET Nat
        BY <1>1
      <4> HIDE DEF late
      <4>2. QED BY <2>2, <4>1, LeastNat
    <3>2. \A i \in 1 .. Len(l) : i < m => Until(l, i) <= ticks
      BY <1>1, <1>2, <3>1
    <3>3. \A i \in 1 .. Len(l) : m <= i => ~ Until(l, i) <= ticks
      BY <1>1, <1>2, <1>3, <3>1
    <3>4. m - 1 \in 0 .. Len(l) /\ soon = 1 .. (m - 1)
      BY <1>1, <3>1, <3>2, <3>3
    <3>5. QED
      BY <3>4
  <2>3. QED
    BY <2>1, <2>2
<1>5. Cardinality(1 .. n) = n
  BY FS_Interval
<1>6. Behind(l, ticks) = n
  BY <1>4, <1>5 DEF Behind
<1>7. QED
  BY <1>1, <1>4, <1>6

LEMMA InsertedAt ==
  ASSUME NEW S, NEW s \in Seq(S), NEW k \in 1 .. Len(s) + 1, NEW e \in S
  PROVE  /\ InsertAt(s, k, e) \in Seq(S) /\ Len(InsertAt(s, k, e)) = Len(s) + 1
         /\ \A i \in 1 .. Len(s) + 1 :
              InsertAt(s, k, e)[i] = IF i < k THEN s[i] ELSE IF i = k THEN e ELSE s[i - 1]
<1> DEFINE a == SubSeq(s, 1, k - 1)
           b == <<e>>
           c == SubSeq(s, k, Len(s))
<1>0. Len(s) \in Nat /\ k \in Int /\ \A i \in 1 .. Len(s) : s[i] \in S
  OBVIOUS
<1>1. /\ a \in Seq(S) /\ Len(a) = k - 1
      /\ \A i \in 1 .. k - 1 : a[i] = s[i]
  BY <1>0, SubSeqProperties
<1>2. b \in Seq(S) /\ Len(b) = 1 /\ b[1] = e
  OBVIOUS
<1>3. /\ c \in Seq(S) /\ Len(c) = Len(s) - k + 1
      /\ \A i \in 1 .. Len(s) - k + 1 : c[i] = s[k + i - 1]
  BY <1>0, SubSeqProperties
<1>4. InsertAt(s, k, e) = (a \o b) \o c
  BY DEF InsertAt
<1> HIDE DEF a, b, c
<1>5. /\ a \o b \in Seq(S) /\ Len(a \o b) = k
      /\ \A i \in 1 .. k : (a \o b)[i] = IF i < k THEN s[i] ELSE e
  <2>1. /\ a \o b \in Seq(S) /\ Len(a \o b) = Len(a) + Len(b)
        /\ \A i \in 1 .. Len(a) + Len(b) : (a \o b)[i] =
              IF i <= Len(a) THEN a[i] ELSE b[i - Len(a)]
    BY <1>1, <1>2, ConcatProperties
  <2>2. QED
    BY <1>0, <1>1, <1>2, <2>1
<1> DEFINE d == a \o b
<1> HIDE DEF d
<1>6. d \in Seq(S) /\ Len(d) = k /\ \A i \in 1 .. k : d[i] = IF i < k THEN s[i] ELSE e
  BY <1>5 DEF d
<1>7. /\ d \o c \in Seq(S) /\ Len(d \o c) = Len(d) + Len(c)
      /\ \A i \in 1 .. Len(d) + Len(c) : (d \o c)[i] =
            IF i <= Len(d) THEN d[i] ELSE c[i - Len(d)]
  BY <1>3, <1>6, ConcatProperties
<1>8. Len(d \o c) = Len(s) + 1
  BY <1>0, <1>3, <1>6, <1>7
<1>9. ASSUME NEW i \in 1 .. Len(s) + 1
      PROVE  (d \o c)[i] = IF i < k THEN s[i] ELSE IF i = k THEN e ELSE s[i - 1]
  <2>1. i \in 1 .. Len(d) + Len(c)
    BY <1>0, <1>3, <1>6
  <2>2. CASE i <= k
    BY <1>0, <1>6, <1>7, <2>1, <2>2
  <2>3. CASE i > k
    <3>1. i - k \in 1 .. Len(s) - k + 1 /\ k + (i - k) - 1 = i - 1
      BY <1>0, <2>3
    <3>2. c[i - k] = s[k + (i - k) - 1]
      BY <1>3, <3>1
    <3>3. ~ i <= Len(d) /\ i - Len(d) = i - k
      BY <1>0, <1>6, <2>3
    <3>4. (d \o c)[i] = c[i - k]
      BY <1>7, <2>1, <3>3
    <3>5. QED
      BY <1>0, <2>3, <3>1, <3>2, <3>4
  <2>4. i <= k \/ i > k
    BY <1>0
  <2>5. QED
    BY <2>2, <2>3, <2>4
<1>10. QED
  BY <1>4, <1>7, <1>8, <1>9 DEF d

LEMMA RemovedAt ==
  ASSUME NEW S, NEW s \in Seq(S), NEW k \in 1 .. Len(s)
  PROVE  /\ RemoveAt(s, k) \in Seq(S) /\ Len(RemoveAt(s, k)) = Len(s) - 1
         /\ \A i \in 1 .. Len(s) - 1 :
              RemoveAt(s, k)[i] = IF i < k THEN s[i] ELSE s[i + 1]
<1> DEFINE a == SubSeq(s, 1, k - 1)
           b == SubSeq(s, k + 1, Len(s))
<1>0. Len(s) \in Nat /\ k \in Int /\ \A i \in 1 .. Len(s) : s[i] \in S
  OBVIOUS
<1>1. /\ a \in Seq(S) /\ Len(a) = k - 1
      /\ \A i \in 1 .. k - 1 : a[i] = s[i]
  BY <1>0, SubSeqProperties
<1>2. /\ b \in Seq(S) /\ Len(b) = Len(s) - k
      /\ \A i \in 1 .. Len(s) - k : b[i] = s[k + i]
  <2>1. k + 1 \in Int /\ \A i \in k + 1 .. Len(s) : s[i] \in S
    BY <1>0
  <2>2. /\ b \in Seq(S) /\ Len(b) = IF k + 1 <= Len(s) THEN Len(s) - (k + 1) + 1 ELSE 0
        /\ \A i \in 1 .. Len(s) - (k + 1) + 1 : b[i] = s[(k + 1) + i - 1]
    BY <1>0, <2>1, SubSeqProperties
  <2> HIDE DEF b
  <2>3. QED
    BY <1>0, <2>2
<1>3. RemoveAt(s, k) = a \o b
  BY DEF RemoveAt
<1> HIDE DEF a, b
<1>4. /\ a \o b \in Seq(S) /\ Len(a \o b) = Len(a) + Len(b)
      /\ \A i \in 1 .. Len(a) + Len(b) : (a \o b)[i] =
            IF i <= Len(a) THEN a[i] ELSE b[i - Len(a)]
  BY <1>1, <1>2, ConcatProperties
<1>5. ASSUME NEW i \in 1 .. Len(s) - 1
      PROVE  (a \o b)[i] = IF i < k THEN s[i] ELSE s[i + 1]
  <2>1. i \in 1 .. Len(a) + Len(b)
    BY <1>0, <1>1, <1>2
  <2> DEFINE v == (a \o b)[i]
  <2>6. v = IF i <= Len(a) THEN a[i] ELSE b[i - Len(a)]
    BY <1>4, <2>1
  <2> HIDE DEF v
  <2>7. v = IF i <= k - 1 THEN a[i] ELSE b[i - (k - 1)]
    BY <1>1, <2>6
  <2>8. (a \o b)[i] = v
    BY DEF v
  <2>2. CASE i < k
    <3>1. i \in 1 .. k - 1 /\ i <= k - 1
      BY <1>0, <2>2
    <3>2. v = a[i] /\ a[i] = s[i]
      BY <1>1, <2>7, <3>1
    <3>3. QED
      BY <2>2, <2>8, <3>2
  <2>3. CASE i >= k
    <3>1. i - (k - 1) \in 1 .. Len(s) - k /\ k + (i - (k - 1)) = i + 1 /\ ~(i <= k - 1)
      BY <1>0, <2>3
    <3>4. b[i - (k - 1)] = s[k + (i - (k - 1))]
      BY <1>2, <3>1
    <3>5. v = b[i - (k - 1)]
      BY <2>7, <3>1
    <3>2. (a \o b)[i] = b[i - (k - 1)] /\ b[i - (k - 1)] = s[i + 1]
      BY <2>8, <3>1, <3>4, <3>5
    <3>3. QED
      BY <1>0, <2>3, <3>2
  <2>4. i < k \/ i >= k
    BY <1>0
  <2>5. QED
    BY <2>2, <2>3, <2>4
<1>6. a \o b \in Seq(S) /\ Len(a \o b) = Len(s) - 1
  BY <1>0, <1>1, <1>2, <1>4
<1>7. QED
  BY <1>3, <1>5, <1>6, Zenon

\* A timer is inserted behind those that expire before it or with it; the times of
\* the others do not change.
LEMMA InsertedTimes ==
  ASSUME NEW l \in Seq(Entry), NEW t \in Timers, NEW ticks \in Nat
  PROVE  /\ Inserted(l, t, ticks) \in Seq(Entry)
         /\ Len(Inserted(l, t, ticks)) = Len(l) + 1
         /\ \A i \in 1 .. Len(l) + 1 :
              /\ Inserted(l, t, ticks)[i].timer =
                   IF i <= Behind(l, ticks) THEN l[i].timer
                   ELSE IF i = Behind(l, ticks) + 1 THEN t ELSE l[i - 1].timer
              /\ Until(Inserted(l, t, ticks), i) =
                   IF i <= Behind(l, ticks) THEN Until(l, i)
                   ELSE IF i = Behind(l, ticks) + 1 THEN ticks ELSE Until(l, i - 1)
<1> DEFINE n == Behind(l, ticks)
           delta == ticks - Until(l, n)
           e == [timer |-> t, delta |-> delta]
           later == [i \in DOMAIN l |->
                       IF i = n + 1 THEN [l[i] EXCEPT !.delta = @ - delta] ELSE l[i]]
           p == InsertAt(later, n + 1, e)
           g == [i \in 0 .. Len(l) + 1 |-> IF i <= n THEN Until(l, i)
                                           ELSE IF i = n + 1 THEN ticks ELSE Until(l, i - 1)]
<1>1. Inserted(l, t, ticks) = p
  BY DEF Inserted
<1>2. /\ n \in 0 .. Len(l) /\ Len(l) \in Nat /\ DOMAIN l = 1 .. Len(l)
      /\ \A i \in 1 .. Len(l) : i <= n <=> Until(l, i) <= ticks
  BY BehindIs
<1> HIDE DEF n
<1>3. \A i \in 0 .. Len(l) : Until(l, i) \in Nat
  BY UntilGrows
<1>4. Until(l, n) <= ticks /\ delta \in Nat
  <2>1. CASE n = 0
    BY <2>1, UntilStep
  <2>2. CASE n # 0
    BY <1>2, <1>3, <2>2
  <2>3. QED
    BY <1>2, <1>3, <2>1, <2>2
<1>5. \A i \in 1 .. Len(l) : /\ l[i] \in Entry /\ l[i].delta \in Nat /\ l[i].timer \in Timers
                             /\ Until(l, i) = Until(l, i - 1) + l[i].delta
  BY EntryType, UntilStep
<1>6. ASSUME NEW i \in 1 .. Len(l)
      PROVE  /\ later[i] \in Entry /\ later[i].timer = l[i].timer
             /\ later[i].delta = IF i = n + 1 THEN Until(l, i) - ticks ELSE l[i].delta
  <2>1. CASE i = n + 1
    <3>1. later[i] = [l[i] EXCEPT !.delta = l[i].delta - delta]
      BY <1>2, <2>1
    <3>2. l[i].delta - delta = Until(l, i) - ticks /\ Until(l, i) > ticks
      BY <1>2, <1>3, <1>4, <1>5, <2>1
    <3>3. l[i].delta - delta \in Nat
      BY <1>2, <1>3, <3>2
    <3> HIDE DEF later, delta
    <3>4. QED
      BY <1>5, <2>1, <3>1, <3>2, <3>3 DEF Entry
  <2>2. CASE i # n + 1
    BY <1>2, <1>5, <2>2
  <2>3. QED
    BY <2>1, <2>2
<1>7. later \in Seq(Entry) /\ Len(later) = Len(l)
  <2>1. later \in [1 .. Len(l) -> Entry]
    <3>1. DOMAIN later = 1 .. Len(l) /\ later = [i \in 1 .. Len(l) |-> later[i]]
      BY <1>2
    <3> HIDE DEF later
    <3>2. QED
      BY <1>6, <3>1
  <2>2. QED
    BY <1>2, <2>1
<1>8. e \in Entry /\ e.timer = t /\ e.delta = delta
  BY <1>4 DEF Entry
<1>9. n + 1 \in 1 .. Len(later) + 1
  BY <1>2, <1>7
<1> HIDE DEF later, e
<1>10. /\ p \in Seq(Entry) /\ Len(p) = Len(later) + 1
       /\ \A i \in 1 .. Len(later) + 1 :
            p[i] = IF i < n + 1 THEN later[i] ELSE IF i = n + 1 THEN e ELSE later[i - 1]
  <2> DEFINE m == n + 1
  <2>1. m \in 1 .. Len(later) + 1
    BY <1>9
  <2> HIDE DEF m
  <2>2. /\ InsertAt(later, m, e) \in Seq(Entry) /\ Len(InsertAt(later, m, e)) = Len(later) + 1
        /\ \A i \in 1 .. Len(later) + 1 : InsertAt(later, m, e)[i] =
             IF i < m THEN later[i] ELSE IF i = m THEN e ELSE later[i - 1]
    BY <1>7, <1>8, <2>1, InsertedAt
  <2>3. QED
    BY <2>2 DEF m
<1> HIDE DEF p
<1>11. ASSUME NEW i \in 1 .. Len(l) + 1
       PROVE  /\ p[i].timer = IF i <= n THEN l[i].timer
                              ELSE IF i = n + 1 THEN t ELSE l[i - 1].timer
              /\ g[i] = g[i - 1] + p[i].delta
  <2>1. g[i - 1] = IF i <= n + 1 THEN Until(l, i - 1)
                   ELSE IF i = n + 2 THEN ticks ELSE Until(l, i - 2)
    BY <1>2
  <2>2. CASE i <= n
    <3>1. i \in 1 .. Len(l) /\ p[i] = later[i] /\ i # n + 1
      BY <1>2, <1>7, <1>10, <2>2
    <3>2. g[i] = Until(l, i) /\ g[i - 1] = Until(l, i - 1)
      BY <1>2, <2>1, <2>2
    <3> HIDE DEF g
    <3>3. QED
      BY <1>5, <1>6, <2>2, <3>1, <3>2
  <2>3. CASE i = n + 1
    <3>1. p[i] = e /\ ~ i <= n
      BY <1>2, <1>7, <1>10, <2>3
    <3>2. g[i] = ticks /\ g[i - 1] = Until(l, n)
      BY <1>2, <2>1, <2>3
    <3>3. ticks = Until(l, n) + delta
      BY <1>2, <1>3
    <3> HIDE DEF g, delta
    <3>4. QED
      BY <1>8, <2>3, <3>1, <3>2, <3>3
  <2>4. CASE i > n + 1
    <3>1. i - 1 \in 1 .. Len(l) /\ p[i] = later[i - 1] /\ ~ i <= n /\ i # n + 1
      BY <1>2, <1>7, <1>10, <2>4
    <3>2. g[i] = Until(l, i - 1)
      BY <1>2, <2>4
    <3>3. g[i - 1] = IF i - 1 = n + 1 THEN ticks ELSE Until(l, i - 2)
      BY <1>2, <2>1, <2>4
    <3>4. Until(l, i - 1) = Until(l, i - 2) + l[i - 1].delta
      <4>1. (i - 1) - 1 = i - 2
        BY <1>2
      <4>2. QED
        BY <1>5, <3>1, <4>1
    <3>5. Until(l, i - 1) \in Nat
      BY <1>3, <3>1
    <3> HIDE DEF g
    <3>6. p[i].timer = l[i - 1].timer
      BY <1>6, <3>1
    <3>7. p[i].delta = IF i - 1 = n + 1 THEN Until(l, i - 1) - ticks ELSE l[i - 1].delta
      BY <1>6, <3>1
    <3>8. g[i] = g[i - 1] + p[i].delta
      BY <3>2, <3>3, <3>4, <3>5, <3>7
    <3>9. QED
      BY <3>1, <3>6, <3>8
  <2>5. i <= n \/ i = n + 1 \/ i > n + 1
    BY <1>2
  <2>6. QED
    BY <2>2, <2>3, <2>4, <2>5
<1>12. g[0] = 0 /\ \A i \in 1 .. Len(l) + 1 : g[i] = IF i <= n THEN Until(l, i)
                           ELSE IF i = n + 1 THEN ticks ELSE Until(l, i - 1)
  BY <1>2, UntilStep
<1> HIDE DEF g
<1>13. \A i \in 0 .. Len(p) : Until(p, i) = g[i]
  BY <1>7, <1>10, <1>11, <1>12, UntilIs
<1>14. Len(p) = Len(l) + 1
  BY <1>7, <1>10
<1>15. QED
  BY <1>1, <1>2, <1>10, <1>11, <1>12, <1>13, <1>14 DEF n

\* Without one timer, the times of the others do not change.
LEMMA RemovedTimes ==
  ASSUME NEW l \in Seq(Entry), NEW k \in 1 .. Len(l)
  PROVE  /\ Removed(l, k) \in Seq(Entry)
         /\ Len(Removed(l, k)) = Len(l) - 1
         /\ \A i \in 1 .. Len(l) - 1 :
              /\ Removed(l, k)[i].timer = IF i < k THEN l[i].timer ELSE l[i + 1].timer
              /\ Until(Removed(l, k), i) = IF i < k THEN Until(l, i) ELSE Until(l, i + 1)
<1> DEFINE later == [i \in DOMAIN l |->
                       IF i = k + 1 THEN [l[i] EXCEPT !.delta = @ + l[k].delta] ELSE l[i]]
           p == RemoveAt(later, k)
           g == [i \in 0 .. Len(l) - 1 |-> IF i < k THEN Until(l, i) ELSE Until(l, i + 1)]
<1>1. Removed(l, k) = p
  BY DEF Removed
<1>2. Len(l) \in Nat /\ DOMAIN l = 1 .. Len(l) /\ k \in Nat
  OBVIOUS
<1>3. \A i \in 0 .. Len(l) : Until(l, i) \in Nat
  BY UntilGrows
<1>4. \A i \in 1 .. Len(l) : /\ l[i] \in Entry /\ l[i].delta \in Nat /\ l[i].timer \in Timers
                             /\ Until(l, i) = Until(l, i - 1) + l[i].delta
  BY EntryType, UntilStep
<1>5. ASSUME NEW i \in 1 .. Len(l)
      PROVE  /\ later[i] \in Entry /\ later[i].timer = l[i].timer
             /\ later[i].delta = IF i = k + 1 THEN l[i].delta + l[k].delta ELSE l[i].delta
  <2>1. CASE i = k + 1
    <3>1. later[i] = [l[i] EXCEPT !.delta = l[i].delta + l[k].delta]
      BY <1>2, <2>1
    <3>2. l[i].delta + l[k].delta \in Nat
      BY <1>4
    <3> HIDE DEF later
    <3>3. QED
      BY <1>4, <2>1, <3>1, <3>2 DEF Entry
  <2>2. CASE i # k + 1
    BY <1>2, <1>4, <2>2
  <2>3. QED
    BY <2>1, <2>2
<1>6. later \in Seq(Entry) /\ Len(later) = Len(l)
  <2>1. later \in [1 .. Len(l) -> Entry]
    <3>1. DOMAIN later = 1 .. Len(l) /\ later = [i \in 1 .. Len(l) |-> later[i]]
      BY <1>2
    <3> HIDE DEF later
    <3>2. QED
      BY <1>5, <3>1
  <2>2. QED
    BY <1>2, <2>1
<1> HIDE DEF later
<1>7. /\ p \in Seq(Entry) /\ Len(p) = Len(later) - 1
      /\ \A i \in 1 .. Len(later) - 1 : p[i] = IF i < k THEN later[i] ELSE later[i + 1]
  BY <1>6, RemovedAt
<1> HIDE DEF p
<1>8. ASSUME NEW i \in 1 .. Len(l) - 1
      PROVE  /\ p[i].timer = IF i < k THEN l[i].timer ELSE l[i + 1].timer
             /\ g[i] = g[i - 1] + p[i].delta
  <2>1. g[i - 1] = IF i <= k THEN Until(l, i - 1) ELSE Until(l, i)
    BY <1>2
  <2>2. i \in 1 .. Len(l) /\ i + 1 \in 1 .. Len(l) /\ i \in 1 .. Len(later) - 1
    BY <1>2, <1>6
  <2>3. CASE i < k
    <3>1. p[i] = later[i] /\ i # k + 1
      BY <1>2, <1>7, <2>2, <2>3
    <3>2. g[i] = Until(l, i) /\ g[i - 1] = Until(l, i - 1)
      BY <1>2, <2>1, <2>3
    <3> HIDE DEF g
    <3>3. QED
      BY <1>4, <1>5, <2>2, <2>3, <3>1, <3>2
  <2>4. CASE i >= k
    <3>1. p[i] = later[i + 1]
      BY <1>2, <1>7, <2>2, <2>4
    <3>2. g[i] = Until(l, i + 1)
      BY <1>2, <2>4
    <3>3. Until(l, i + 1) = Until(l, i) + l[i + 1].delta
      <4>1. (i + 1) - 1 = i
        BY <1>2
      <4>2. QED
        BY <1>4, <2>2, <4>1
    <3>4. Until(l, i) = Until(l, i - 1) + l[i].delta
      BY <1>4, <2>2
    <3>5. /\ Until(l, i) \in Nat /\ Until(l, i + 1) \in Nat /\ Until(l, i - 1) \in Nat
          /\ l[i].delta \in Nat /\ l[i + 1].delta \in Nat
      <4>1. i - 1 \in 0 .. Len(l)
        BY <1>2
      <4>2. QED
        BY <1>3, <1>4, <2>2, <4>1
    <3> HIDE DEF g
    <3>6. p[i].timer = l[i + 1].timer
      BY <1>5, <2>2, <3>1
    <3>7. p[i].delta = IF i = k THEN l[i + 1].delta + l[k].delta ELSE l[i + 1].delta
      <4>1. i + 1 = k + 1 <=> i = k
        BY <1>2
      <4>2. QED
        BY <1>5, <2>2, <3>1, <4>1
    <3>8. g[i] = g[i - 1] + p[i].delta
      <4>1. CASE i = k
        BY <2>1, <3>2, <3>3, <3>4, <3>5, <3>7, <4>1
      <4>2. CASE i > k
        BY <1>2, <2>1, <3>2, <3>3, <3>4, <3>5, <3>7, <4>2
      <4>3. QED
        BY <1>2, <2>4, <4>1, <4>2
    <3>9. QED
      BY <1>2, <2>4, <3>6, <3>8
  <2>5. i < k \/ i >= k
    BY <1>2
  <2>6. QED
    BY <2>3, <2>4, <2>5
<1>9. g[0] = 0 /\ \A i \in 1 .. Len(l) - 1 :
                    g[i] = IF i < k THEN Until(l, i) ELSE Until(l, i + 1)
  BY <1>2, UntilStep
<1> HIDE DEF g
<1>10. Len(p) = Len(l) - 1
  BY <1>6, <1>7
<1>11. \A i \in 1 .. Len(p) : g[i] = g[i - 1] + p[i].delta
  BY <1>8, <1>10
<1>12. \A i \in 0 .. Len(p) : Until(p, i) = g[i]
  BY <1>7, <1>9, <1>11, UntilIs
<1>13. \A i \in 1 .. Len(l) - 1 :
         Until(p, i) = IF i < k THEN Until(l, i) ELSE Until(l, i + 1)
  <2>1. ASSUME NEW i \in 1 .. Len(l) - 1
        PROVE  i \in 0 .. Len(p)
    BY <1>2, <1>10
  <2>2. QED
    BY <1>9, <1>12, <2>1
<1>14. QED
  BY <1>1, <1>7, <1>8, <1>10, <1>13

\* The list's timers are distinct.
Good(l) ==
  /\ l \in Seq(Entry)
  /\ \A i, j \in 1 .. Len(l) : l[i].timer = l[j].timer => i = j

Names(l) == {l[i].timer : i \in 1 .. Len(l)}

\* A timer of l, and its time.
In(l, t, time) == \E j \in 1 .. Len(l) : l[j].timer = t /\ Until(l, j) = time

LEMMA HeadIsFirst ==
  ASSUME NEW l \in Seq(Entry), l # <<>>
  PROVE  /\ 1 \in 1 .. Len(l) /\ l[1].timer \in Timers /\ l[1].delta \in Nat
         /\ Until(l, 1) = l[1].delta
         /\ \A i \in 1 .. Len(l) : Until(l, i) \in Nat /\ l[1].delta <= Until(l, i)
<1>1. Len(l) \in Nat /\ Len(l) # 0
  BY EmptySeq
<1>2. 1 \in 1 .. Len(l) /\ l[1].timer \in Timers /\ l[1].delta \in Nat
  BY <1>1, EntryType
<1>3. Until(l, 1) = Until(l, 0) + l[1].delta /\ Until(l, 0) = 0
  <2>1. 1 - 1 = 0
    OBVIOUS
  <2>2. QED
    BY <1>2, <2>1, UntilStep
<1>4. Until(l, 1) = l[1].delta
  BY <1>2, <1>3
<1>5. \A i \in 1 .. Len(l) : Until(l, i) \in Nat /\ Until(l, 1) <= Until(l, i)
  BY <1>1, <1>2, UntilGrows
<1>6. QED
  BY <1>2, <1>4, <1>5

LEMMA UpdatedShape ==
  ASSUME NEW l, Good(l), NEW n \in Nat
  PROVE  /\ Good(Updated(l, n)) /\ Names(Updated(l, n)) = Names(l)
         /\ Updated(l, n) = <<>> <=> l = <<>>
         /\ \A i \in 1 .. Len(Updated(l, n)) : \E j \in 1 .. Len(l) :
              /\ Updated(l, n)[i].timer = l[j].timer
              /\ Until(Updated(l, n), i) = Clip(Until(l, j) - n)
         /\ l # <<>> => /\ Updated(l, n)[1].timer = l[1].timer
                        /\ Updated(l, n)[1].delta = Clip(l[1].delta - n)
<1> DEFINE p == Updated(l, n)
<1>0. l \in Seq(Entry) /\ Len(l) \in Nat
  BY DEF Good
<1>1. /\ p \in Seq(Entry) /\ Len(p) = Len(l)
      /\ \A i \in 1 .. Len(l) : /\ p[i].timer = l[i].timer
                                /\ Until(p, i) = Clip(Until(l, i) - n)
  BY <1>0, UpdatedTimes
<1> HIDE DEF p
<1>2. p = <<>> <=> l = <<>>
  BY <1>0, <1>1, EmptySeq
<1>3. Good(p) /\ Names(p) = Names(l)
  BY <1>1 DEF Good, Names
<1>4. ASSUME l # <<>>
      PROVE  p[1].timer = l[1].timer /\ p[1].delta = Clip(l[1].delta - n)
  BY <1>0, <1>1, <1>2, <1>4, HeadIsFirst
<1>5. QED
  BY <1>1, <1>2, <1>3, <1>4 DEF p

LEMMA InsertedShape ==
  ASSUME NEW l, Good(l), NEW t \in Timers, t \notin Names(l), NEW ticks \in Nat
  PROVE  /\ Good(Inserted(l, t, ticks)) /\ Names(Inserted(l, t, ticks)) = Names(l) \cup {t}
         /\ Inserted(l, t, ticks) # <<>>
         /\ \A i \in 1 .. Len(Inserted(l, t, ticks)) :
              \/ Inserted(l, t, ticks)[i].timer = t /\ Until(Inserted(l, t, ticks), i) = ticks
              \/ /\ Inserted(l, t, ticks)[i].timer # t
                 /\ In(l, Inserted(l, t, ticks)[i].timer, Until(Inserted(l, t, ticks), i))
         /\ Inserted(l, t, ticks)[1].timer # t =>
              l # <<>> /\ Inserted(l, t, ticks)[1].delta = l[1].delta
<1> DEFINE p == Inserted(l, t, ticks)
           n == Behind(l, ticks)
<1>0. /\ l \in Seq(Entry) /\ Len(l) \in Nat
      /\ \A i, j \in 1 .. Len(l) : l[i].timer = l[j].timer => i = j
      /\ \A i \in 1 .. Len(l) : l[i].timer # t
  BY DEF Good, Names
<1>1. /\ p \in Seq(Entry) /\ Len(p) = Len(l) + 1
      /\ \A i \in 1 .. Len(l) + 1 :
           /\ p[i].timer = IF i <= n THEN l[i].timer
                           ELSE IF i = n + 1 THEN t ELSE l[i - 1].timer
           /\ Until(p, i) = IF i <= n THEN Until(l, i)
                            ELSE IF i = n + 1 THEN ticks ELSE Until(l, i - 1)
  BY <1>0, InsertedTimes
<1>2. n \in 0 .. Len(l)
  BY <1>0, BehindIs
<1> HIDE DEF p, n
<1>3. p # <<>>
  BY <1>0, <1>1, EmptySeq
\* where each of p comes from, and each of l goes to
<1> DEFINE from(i) == IF i <= n THEN i ELSE i - 1
           to(j) == IF j <= n THEN j ELSE j + 1
<1>4. ASSUME NEW i \in 1 .. Len(p), i # n + 1
      PROVE  /\ from(i) \in 1 .. Len(l) /\ i = to(from(i))
             /\ p[i].timer = l[from(i)].timer /\ Until(p, i) = Until(l, from(i))
  BY <1>0, <1>1, <1>2, <1>4
<1>5. ASSUME NEW j \in 1 .. Len(l)
      PROVE  /\ to(j) \in 1 .. Len(p) /\ to(j) # n + 1 /\ from(to(j)) = j
             /\ p[to(j)].timer = l[j].timer
  BY <1>0, <1>1, <1>2
<1>6. n + 1 \in 1 .. Len(p) /\ p[n + 1].timer = t /\ Until(p, n + 1) = ticks
  BY <1>0, <1>1, <1>2
<1> HIDE DEF from, to
<1>7. Good(p)
  <2>1. ASSUME NEW i \in 1 .. Len(p), NEW j \in 1 .. Len(p), p[i].timer = p[j].timer
        PROVE  i = j
    <3>1. CASE i = n + 1 \/ j = n + 1
      BY <1>0, <1>4, <1>6, <2>1, <3>1
    <3>2. CASE i # n + 1 /\ j # n + 1
      BY <1>0, <1>4, <2>1, <3>2
    <3>3. QED
      BY <3>1, <3>2
  <2>2. QED
    BY <1>1, <2>1 DEF Good
<1>8. Names(p) = Names(l) \cup {t}
  <2>1. ASSUME NEW i \in 1 .. Len(p)
        PROVE  p[i].timer = t \/ \E j \in 1 .. Len(l) : p[i].timer = l[j].timer
    BY <1>4, <1>6
  <2>2. ASSUME NEW j \in 1 .. Len(l)
        PROVE  \E i \in 1 .. Len(p) : p[i].timer = l[j].timer
    BY <1>5
  <2>3. ASSUME NEW x PROVE x \in Names(p) <=> x \in Names(l) \cup {t}
    <3>1. x \in Names(p) => x \in Names(l) \cup {t}
      BY <2>1, Zenon DEF Names
    <3>2. x \in Names(l) => x \in Names(p)
      BY <2>2, Zenon DEF Names
    <3>3. t \in Names(p)
      BY <1>6, Zenon DEF Names
    <3>4. QED
      BY <3>1, <3>2, <3>3
  <2>4. QED
    BY <2>3
<1>9. ASSUME NEW i \in 1 .. Len(p)
      PROVE  \/ p[i].timer = t /\ Until(p, i) = ticks
             \/ p[i].timer # t /\ In(l, p[i].timer, Until(p, i))
  BY <1>0, <1>4, <1>6 DEF In
<1>10. ASSUME p[1].timer # t
       PROVE  l # <<>> /\ p[1].delta = l[1].delta
  <2>1. 1 \in 1 .. Len(p) /\ 1 # n + 1 /\ n # 0
    BY <1>1, <1>3, <1>6, <1>10, HeadIsFirst
  <2>2. from(1) = 1
    BY <1>2, <2>1 DEF from
  <2>3. l # <<>> /\ Until(p, 1) = Until(l, 1)
    BY <1>0, <1>4, <2>1, <2>2, EmptySeq
  <2>4. QED
    BY <1>0, <1>1, <1>3, <2>3, HeadIsFirst
<1>11. QED
  BY <1>3, <1>7, <1>8, <1>9, <1>10 DEF p

LEMMA RemovedShape ==
  ASSUME NEW l, Good(l), NEW k \in 1 .. Len(l)
  PROVE  /\ Good(Removed(l, k)) /\ Names(Removed(l, k)) = Names(l) \ {l[k].timer}
         /\ Removed(l, k) = <<>> <=> Len(l) = 1
         /\ \A i \in 1 .. Len(Removed(l, k)) :
              In(l, Removed(l, k)[i].timer, Until(Removed(l, k), i))
         /\ k # 1 => l # <<>> /\ Removed(l, k)[1].delta = l[1].delta
<1> DEFINE p == Removed(l, k)
<1>0. /\ l \in Seq(Entry) /\ Len(l) \in Nat
      /\ \A i, j \in 1 .. Len(l) : l[i].timer = l[j].timer => i = j
  BY DEF Good
<1>1. /\ p \in Seq(Entry) /\ Len(p) = Len(l) - 1
      /\ \A i \in 1 .. Len(l) - 1 :
           /\ p[i].timer = IF i < k THEN l[i].timer ELSE l[i + 1].timer
           /\ Until(p, i) = IF i < k THEN Until(l, i) ELSE Until(l, i + 1)
  BY <1>0, RemovedTimes
<1> HIDE DEF p
<1>2. p = <<>> <=> Len(l) = 1
  BY <1>0, <1>1, EmptySeq
<1> DEFINE from(i) == IF i < k THEN i ELSE i + 1
           to(j) == IF j < k THEN j ELSE j - 1
<1>3. ASSUME NEW i \in 1 .. Len(p)
      PROVE  /\ from(i) \in 1 .. Len(l) /\ from(i) # k /\ i = to(from(i))
             /\ p[i].timer = l[from(i)].timer /\ Until(p, i) = Until(l, from(i))
  BY <1>0, <1>1
<1>4. ASSUME NEW j \in 1 .. Len(l), j # k
      PROVE  to(j) \in 1 .. Len(p) /\ p[to(j)].timer = l[j].timer
  BY <1>0, <1>1, <1>4
<1> HIDE DEF to
<1>5. Good(p)
  <2> HIDE DEF from
  <2>1. ASSUME NEW i \in 1 .. Len(p), NEW j \in 1 .. Len(p), p[i].timer = p[j].timer
        PROVE  i = j
    BY <1>0, <1>3, <2>1
  <2>2. QED
    BY <1>1, <2>1 DEF Good
<1>6. Names(p) = Names(l) \ {l[k].timer}
  <2> HIDE DEF from
  <2>1. ASSUME NEW i \in 1 .. Len(p)
        PROVE  \E j \in 1 .. Len(l) : p[i].timer = l[j].timer /\ l[j].timer # l[k].timer
    BY <1>0, <1>3
  <2>2. ASSUME NEW j \in 1 .. Len(l), l[j].timer # l[k].timer
        PROVE  \E i \in 1 .. Len(p) : p[i].timer = l[j].timer
    BY <1>4, <2>2
  <2>3. ASSUME NEW t PROVE t \in Names(p) => t \in Names(l) /\ t # l[k].timer
    BY <2>1 DEF Names
  <2>4. ASSUME NEW t PROVE t \in Names(l) /\ t # l[k].timer => t \in Names(p)
    BY <2>2 DEF Names
  <2>5. QED
    BY <2>3, <2>4
<1>7. \A i \in 1 .. Len(p) : In(l, p[i].timer, Until(p, i))
  BY <1>3 DEF In
<1>8. ASSUME k # 1
      PROVE  l # <<>> /\ p[1].delta = l[1].delta
  <2>1. l # <<>> /\ Len(l) # 1 /\ 1 < k
    BY <1>0, <1>8, EmptySeq
  <2>2. p # <<>>
    BY <1>2, <2>1
  <2>3. Until(p, 1) = Until(l, 1)
    <3>1. 1 \in 1 .. Len(p) /\ from(1) = 1
      BY <1>1, <2>1, <2>2, HeadIsFirst
    <3>2. QED
      BY <1>3, <3>1
  <2>4. QED
    BY <1>0, <1>1, <2>1, <2>2, <2>3, HeadIsFirst
<1>9. QED
  BY <1>2, <1>5, <1>6, <1>7, <1>8 DEF p

\* The handler's choice: expired, and of the highest priority among these.
LEMMA FirstToRingIs ==
  ASSUME NEW l, Good(l), Expired(l) # {}
  PROVE  /\ FirstToRing(l) \in 1 .. Len(l) /\ Until(l, FirstToRing(l)) = 0
         /\ \A j \in 1 .. Len(l) : Until(l, j) = 0 =>
              Priority[l[FirstToRing(l)].timer] <= Priority[l[j].timer]
<1> DEFINE P(i) == Priority[l[i].timer]
           levels == {P(i) : i \in Expired(l)}
<1>1. Expired(l) = {i \in 1 .. Len(l) : Until(l, i) = 0}
  BY DEF Expired, Good
<1>2. \A i \in Expired(l) : P(i) \in Nat
  BY <1>1, EntryType, ConstantsAssumption DEF Good
<1>3. levels \in SUBSET Nat /\ levels # {}
  BY <1>2
<1>4. \E m \in levels : \A n \in levels : m <= n
  <2> HIDE DEF levels
  <2>1. QED BY <1>3, LeastNat
<1>5. PICK a \in Expired(l) : \A j \in Expired(l) : P(a) <= P(j)
  BY <1>4
<1> DEFINE best == {i \in Expired(l) : P(i) = P(a)}
<1>6. best \in SUBSET Nat /\ best # {}
  BY <1>1
<1>7. PICK b \in best : \A j \in best : b <= j
  <2> HIDE DEF best
  <2>1. QED BY <1>6, LeastNat
<1>8. b \in Expired(l) /\ \A j \in Expired(l) : P(b) < P(j) \/ (P(b) = P(j) /\ b <= j)
  BY <1>2, <1>5, <1>7
<1>9. /\ FirstToRing(l) \in Expired(l)
      /\ \A j \in Expired(l) :
           \/ Priority[l[FirstToRing(l)].timer] < Priority[l[j].timer]
           \/ /\ Priority[l[FirstToRing(l)].timer] = Priority[l[j].timer]
              /\ FirstToRing(l) <= j
  BY <1>8 DEF FirstToRing
<1>10. QED
  BY <1>1, <1>2, <1>9

-----------------------------------------------------------------------------
(* The counter.                                                            *)

LEMMA Numbers ==
  /\ W \in Nat /\ W > 6 /\ MaxBusy \in Nat /\ MaxStall \in Nat
  /\ W \div 2 \in Nat /\ 2 * (W \div 2) <= W /\ W <= 2 * (W \div 2) + 1
BY ConstantsAssumption DEF SLEEPTIMER_COMPARE_MIN_DIFF

LEMMA WrapType == \A n \in Int : Wrap(n) \in Counts
BY Numbers DEF Wrap, Counts

\* Numbers of one wrap more or less.
LEMMA WrapCases ==
  /\ \A n \in -W .. -1 : Wrap(n) = n + W
  /\ \A n \in 0 .. W - 1 : Wrap(n) = n
  /\ \A n \in W .. 2 * W - 1 : Wrap(n) = n - W
<1>1. \A n \in -W .. -1 : Wrap(n) = n + W
  BY Numbers DEF Wrap
<1>2. \A n \in 0 .. W - 1 : Wrap(n) = n
  BY Numbers DEF Wrap
<1>3. \A n \in W .. 2 * W - 1 : Wrap(n) = n - W
  BY Numbers DEF Wrap
<1>4. QED
  BY <1>1, <1>2, <1>3

\* How far ahead of the counter the compare register is.
Ahead == Wrap(compare - counter)

\* The difference of two counts.
LEMMA WrapDifference ==
  ASSUME NEW a \in Counts, NEW b \in Counts
  PROVE  /\ Wrap(a - b) \in Counts
         /\ Wrap(a - b) = IF a < b THEN a - b + W ELSE a - b
<1>1. W \in Nat /\ a \in Nat /\ b \in Nat /\ a < W /\ b < W
  BY Numbers DEF Counts
<1>2. CASE a < b
  <2>1. a - b \in -W .. -1
    BY <1>1, <1>2
  <2>2. QED
    BY <1>1, <1>2, <2>1, WrapCases, WrapType
<1>3. CASE a >= b
  <2>1. a - b \in 0 .. W - 1
    BY <1>1, <1>3
  <2>2. QED
    BY <1>1, <1>3, <2>1, WrapCases, WrapType
<1>4. QED
  BY <1>1, <1>2, <1>3

\* A sum of a count and less than a wrap.
LEMMA WrapSum ==
  ASSUME NEW a \in Counts, NEW n \in 0 .. W
  PROVE  /\ Wrap(a + n) \in Counts
         /\ Wrap(a + n) = IF a + n < W THEN a + n ELSE a + n - W
<1>1. W \in Nat /\ a \in Nat /\ n \in Nat /\ a < W /\ n <= W
  BY Numbers DEF Counts
<1>2. CASE a + n < W
  <2>1. a + n \in 0 .. W - 1
    BY <1>1, <1>2
  <2>2. QED
    BY <1>2, <2>1, WrapCases, WrapType
<1>3. CASE a + n >= W
  <2>1. a + n \in W .. 2 * W - 1
    BY <1>1, <1>3
  <2>2. QED
    BY <1>1, <1>3, <2>1, WrapCases, WrapType
<1>4. QED
  BY <1>1, <1>2, <1>3

\* What sleeptimer_hal_set_compare() writes matches within the margin if the time
\* is near, and in time or a tick early otherwise.
LEMMA MarginedAhead ==
  ASSUME counter \in Counts, NEW value \in Counts
  PROVE  /\ Margined(value) \in Counts
         /\ Wrap(value - counter) < 3 => Wrap(Margined(value) - counter) \in {2, 3}
         /\ Wrap(value - counter) >= 3 =>
              Wrap(Margined(value) - counter) \in
                {Wrap(value - counter) - 1, Wrap(value - counter)}
<1> DEFINE near == Wrap(value - counter) < 3
           wanted == IF near THEN Wrap(counter + 3) ELSE value
           m == wanted % (W - 1)
<1>1. W \in Nat /\ W > 6 /\ counter \in Int /\ value \in Int
  BY Numbers DEF Counts
<1>2. Margined(value) = Wrap(m - 1)
  BY DEF Margined, SLEEPTIMER_COMPARE_MIN_DIFF
<1>3. Wrap(counter + 3) = IF counter + 3 < W THEN counter + 3 ELSE counter + 3 - W
  BY <1>1, WrapSum
<1>4. wanted \in Counts
  BY <1>1, <1>3 DEF Counts
<1>5. m = IF wanted = W - 1 THEN 0 ELSE wanted
  <2> HIDE DEF wanted
  <2>1. \A n \in 0 .. W - 1 : n % (W - 1) = IF n = W - 1 THEN 0 ELSE n
    BY <1>1
  <2>2. QED
    BY <1>4, <2>1 DEF Counts
<1> HIDE DEF m, wanted
<1>6. Wrap(m - 1) = IF m = 0 THEN W - 1 ELSE m - 1
  <2>1. m \in Counts /\ 1 \in Counts
    BY <1>1, <1>4, <1>5 DEF Counts
  <2>2. Wrap(m - 1) = IF m < 1 THEN m - 1 + W ELSE m - 1
    BY <2>1, WrapDifference
  <2>3. m \in Nat
    BY <2>1 DEF Counts
  <2>4. QED
    BY <1>1, <2>2, <2>3
<1>7. Margined(value) \in Counts
  BY <1>1, <1>2, <1>4, <1>5, <1>6 DEF Counts
<1>8. /\ Wrap(wanted - counter) \in Counts
      /\ Wrap(wanted - counter) =
           IF wanted < counter THEN wanted - counter + W ELSE wanted - counter
  BY <1>4, WrapDifference
<1>9. Wrap(Margined(value) - counter) = IF Margined(value) < counter
        THEN Margined(value) - counter + W ELSE Margined(value) - counter
  BY <1>7, WrapDifference
<1>10. Wrap(wanted - counter) >= 3
  <2>1. CASE near
    BY <1>1, <1>3, <1>4, <1>8, <2>1 DEF wanted, Counts
  <2>2. CASE ~near
    <3>1. wanted = value
      BY <2>2 DEF wanted
    <3>2. QED
      BY <1>1, <1>8, <2>2, <3>1 DEF Counts
  <2>3. QED
    BY <2>1, <2>2
<1>11. Wrap(Margined(value) - counter) \in {Wrap(wanted - counter) - 1, Wrap(wanted - counter)}
  BY <1>1, <1>2, <1>4, <1>5, <1>6, <1>8, <1>9, <1>10 DEF Counts
<1>12. near => Wrap(wanted - counter) = 3
  BY <1>1, <1>3, <1>4, <1>8 DEF wanted, Counts
<1>13. ~near => wanted = value
  BY DEF wanted
<1>14. Wrap(value - counter) \in Int
  BY WrapDifference DEF Counts
<1>15. QED
  BY <1>7, <1>11, <1>12, <1>13, <1>14

-----------------------------------------------------------------------------
(* Types, and who may be where.                                            *)

\* No timer of l has more than n ticks to go.
Within(l, n) == \A i \in 1 .. Len(l) : Until(l, i) <= n

LEMMA UpdatedWithin ==
  ASSUME NEW l, Good(l), NEW n \in Nat, Within(l, n), NEW m \in Nat
  PROVE  Within(Updated(l, m), n)
<1>1. l \in Seq(Entry)
  BY DEF Good
<1>2. Len(Updated(l, m)) = Len(l)
      /\ \A i \in 1 .. Len(l) : Until(Updated(l, m), i) = Clip(Until(l, i) - m)
  BY <1>1, UpdatedTimes
<1>3. SUFFICES ASSUME NEW i \in 1 .. Len(l) PROVE Until(Updated(l, m), i) <= n
  BY <1>2 DEF Within
<1>4. Until(l, i) \in Nat /\ Until(l, i) <= n
  BY <1>1, UntilGrows DEF Within
<1>5. Until(Updated(l, m), i) = Clip(Until(l, i) - m)
  BY <1>2
<1>6. QED
  BY <1>4, <1>5 DEF Clip

LEMMA InsertedWithin ==
  ASSUME NEW l, Good(l), NEW n \in Nat, Within(l, n),
         NEW t \in Timers, t \notin Names(l), NEW ticks \in 0 .. n
  PROVE  Within(Inserted(l, t, ticks), n)
<1>1. SUFFICES ASSUME NEW i \in 1 .. Len(Inserted(l, t, ticks))
               PROVE  Until(Inserted(l, t, ticks), i) <= n
  BY DEF Within
<1>2. ticks \in Nat /\ ticks <= n
  OBVIOUS
<1>3. \/ Until(Inserted(l, t, ticks), i) = ticks
      \/ In(l, Inserted(l, t, ticks)[i].timer, Until(Inserted(l, t, ticks), i))
  BY <1>2, InsertedShape
<1>4. QED
  BY <1>2, <1>3 DEF In, Within

LEMMA RemovedWithin ==
  ASSUME NEW l, Good(l), NEW n \in Nat, Within(l, n), NEW k \in 1 .. Len(l)
  PROVE  Within(Removed(l, k), n)
<1>1. SUFFICES ASSUME NEW i \in 1 .. Len(Removed(l, k))
               PROVE  Until(Removed(l, k), i) <= n
  BY DEF Within
<1>2. In(l, Removed(l, k)[i].timer, Until(Removed(l, k), i))
  BY RemovedShape
<1>3. QED
  BY <1>2 DEF In, Within

HandleType ==
  [period : 0 .. W \div 2, expected : Counts, error : 0 .. 999, sum : 0 .. 999]

Flat ==
  /\ counter \in Counts /\ compare \in Counts /\ last \in Counts
  /\ channel \in BOOLEAN /\ enabled \in BOOLEAN
  /\ matched \in BOOLEAN /\ overflowed \in BOOLEAN
  /\ handle \in [Timers -> HandleType]
  /\ at \in [Contexts -> {"idle", "insert", "compare"}]
  /\ timer \in [Contexts -> Timers \cup {None}]
  /\ timeout \in [Contexts -> 0 .. W \div 2]
  /\ irq \in {"none", "overflow", "set", "update", "ring", "call", "called", "finish"}
  /\ local \subseteq {"OF", "COMP"} /\ ringing \in Timers \cup {None}
  /\ due \in [Timers -> Int]

Lists == Good(list) /\ Within(list, W - 1)

\* The handler's callback makes its call within the handler, a task none of its
\* sections; who has yet to insert a timer has one of its own that does not run; who
\* has yet to set the comparator has a list to set it for.
Turns ==
  /\ at[Isr] # "idle" => irq = "called"
  /\ at[Task] = "compare" => irq = "none"
  /\ \A c \in Contexts : /\ at[c] = "insert" <=> timer[c] # None
                         /\ timer[c] \notin Names(list)
                         /\ at[c] = "compare" => list # <<>>
  /\ timer[Task] = timer[Isr] => timer[Task] = None
  /\ irq = "set" => list # <<>>
  /\ irq = "ring" => Expired(list) # {}
  /\ irq = "finish" => Expired(list) = {}

Paused == busy \in 0 .. MaxBusy /\ (~Busy => busy = 0)

TInv == Flat /\ Lists /\ Turns /\ Paused

LEMMA SinceType == Flat => Since \in Nat /\ Since < W
<1>1. SUFFICES ASSUME Flat PROVE Since \in Counts
  BY Numbers DEF Counts
<1>2. QED
  BY <1>1, WrapDifference DEF Flat, Since

LEMMA ListedNames == Lists => Listed = Names(list) /\ Names(list) \subseteq Timers
<1>1. SUFFICES ASSUME Lists PROVE Listed = Names(list) /\ Names(list) \subseteq Timers
  OBVIOUS
<1>2. list \in Seq(Entry)
  BY <1>1 DEF Lists, Good
<1>3. DOMAIN list = 1 .. Len(list)
  BY <1>2
<1>4. \A i \in 1 .. Len(list) : list[i].timer \in Timers
  BY <1>2, EntryType
<1>5. QED
  BY <1>3, <1>4 DEF Listed, Names

LEMMA PlaceIs ==
  ASSUME Lists, NEW t \in Names(list)
  PROVE  Place(t) \in 1 .. Len(list) /\ list[Place(t)].timer = t
<1>1. DOMAIN list = 1 .. Len(list)
  BY DEF Lists, Good
<1>2. \E i \in DOMAIN list : list[i].timer = t
  BY <1>1 DEF Names
<1>3. QED
  BY <1>1, <1>2 DEF Place

LEMMA NowShape ==
  ASSUME Flat, Lists
  PROVE  /\ Good(Now) /\ Names(Now) = Names(list) /\ (Now = <<>> <=> list = <<>>)
         /\ Len(Now) = Len(list) /\ Within(Now, W - 1)
         /\ \A n \in Nat : Within(list, n) => Within(Now, n)
         /\ \A i \in 1 .. Len(list) : /\ Now[i].timer = list[i].timer
                                      /\ Until(Now, i) = Clip(Until(list, i) - Since)
<1>1. Since \in Nat /\ Good(list) /\ list \in Seq(Entry)
  BY SinceType DEF Lists, Good
<1> HIDE DEF Since
<1>2. Good(Now) /\ Names(Now) = Names(list) /\ (Now = <<>> <=> list = <<>>)
  BY <1>1, UpdatedShape DEF Now
<1>3. \A n \in Nat : Within(list, n) => Within(Now, n)
  BY <1>1, UpdatedWithin DEF Now
<1>4. Len(Now) = Len(list)
  BY <1>1, UpdatedTimes DEF Now
<1>5. \A i \in 1 .. Len(list) : /\ Now[i].timer = list[i].timer
                                /\ Until(Now, i) = Clip(Until(list, i) - Since)
  BY <1>1, UpdatedTimes DEF Now
<1>6. Within(Now, W - 1)
  <2> DEFINE w == W - 1
  <2>1. w \in Nat /\ Within(list, w)
    BY Numbers DEF Lists
  <2> HIDE DEF w
  <2>2. Within(Now, w)
    BY <1>3, <2>1
  <2>3. QED
    BY <2>2 DEF w
<1>7. QED
  BY <1>2, <1>3, <1>4, <1>5, <1>6

LEMMA CorrectionType ==
  ASSUME Flat, NEW t \in Timers
  PROVE  /\ Correction(t) \in Int
         /\ handle[t].period \in Nat /\ handle[t].expected \in Counts
         /\ handle[t].error \in 0 .. 999 /\ handle[t].sum \in 0 .. 999
<1>1. handle[t] \in HandleType
  BY DEF Flat
<1>2. handle[t].period \in 0 .. W \div 2 /\ handle[t].expected \in Counts
      /\ handle[t].error \in 0 .. 999 /\ handle[t].sum \in 0 .. 999
  BY <1>1 DEF HandleType
<1>3. Wrap(counter - handle[t].expected) \in Counts
  BY <1>2, WrapDifference DEF Flat
<1>4. Correction(t) \in Int
  BY <1>3, Numbers DEF Correction, Counts
<1>5. QED
  BY <1>2, <1>4, Numbers

\* Whose timer is to be inserted.
LEMMA ToInsert ==
  ASSUME TInv, NEW c \in Contexts, at[c] = "insert"
  PROVE  /\ timer[c] \in Timers /\ timer[c] \notin Names(list)
         /\ timeout[c] \in Nat /\ timeout[c] <= W \div 2 /\ timeout[c] <= W - 1
<1>1. timer[c] \in Timers /\ timer[c] \notin Names(list) /\ timeout[c] \in 0 .. W \div 2
  BY DEF TInv, Flat, Turns
<1>2. QED
  BY <1>1, Numbers

\* Which timer rings.
LEMMA ToRing ==
  ASSUME TInv, irq = "ring"
  PROVE  /\ FirstToRing(list) \in 1 .. Len(list) /\ Until(list, FirstToRing(list)) = 0
         /\ list[FirstToRing(list)].timer \in Timers
         /\ list[FirstToRing(list)].timer \in Names(list)
         /\ Good(Removed(list, FirstToRing(list)))
         /\ Names(Removed(list, FirstToRing(list))) =
              Names(list) \ {list[FirstToRing(list)].timer}
<1>1. Good(list) /\ Expired(list) # {} /\ list \in Seq(Entry)
  BY DEF TInv, Lists, Good, Turns
<1>2. FirstToRing(list) \in 1 .. Len(list) /\ Until(list, FirstToRing(list)) = 0
  BY <1>1, FirstToRingIs
<1>3. list[FirstToRing(list)].timer \in Timers /\ list[FirstToRing(list)].timer \in Names(list)
  BY <1>1, <1>2, EntryType DEF Names
<1>4. Good(Removed(list, FirstToRing(list)))
      /\ Names(Removed(list, FirstToRing(list))) = Names(list) \ {list[FirstToRing(list)].timer}
  BY <1>1, <1>2, RemovedShape
<1>5. QED
  BY <1>2, <1>3, <1>4

\* The list stays one of different timers, none of them a wrap of the counter away.
LEMMA ListSteps == TInv /\ [Next]_vars => Lists'
<1> SUFFICES ASSUME TInv, [Next]_vars PROVE Lists'
  OBVIOUS
<1>1. Flat /\ Lists /\ Turns /\ Good(list) /\ Within(list, W - 1) /\ W - 1 \in Nat
  BY Numbers DEF TInv, Lists
<1>2. list' = list => Lists'
  BY <1>1 DEF Lists
<1>3. list' = Now => Lists'
  BY <1>1, NowShape DEF Lists
<1>4. ASSUME NEW c \in Contexts, NEW t \in Timers, Stop(c, t) PROVE Lists'
  <2>1. CASE t \in Listed
    <3>1. t \in Names(list)
      BY <1>1, <2>1, ListedNames
    <3>2. Place(t) \in 1 .. Len(Now) /\ Good(Now) /\ Within(Now, W - 1)
      BY <1>1, <3>1, PlaceIs, NowShape
    <3>3. list' = Removed(Now, Place(t))
      BY <1>4, <2>1 DEF Stop
    <3> HIDE DEF Now
    <3>4. Good(Removed(Now, Place(t))) /\ Within(Removed(Now, Place(t)), W - 1)
      BY <1>1, <3>2, RemovedShape, RemovedWithin
    <3>5. QED
      BY <3>3, <3>4 DEF Lists
  <2>2. CASE t \notin Listed
    BY <1>3, <1>4, <2>2 DEF Stop
  <2>3. QED
    BY <2>1, <2>2
<1>5. ASSUME NEW c \in Contexts, Insert(c) PROVE Lists'
  <2>1. timer[c] \in Timers /\ timer[c] \notin Names(list) /\ timeout[c] \in 0 .. W - 1
    BY <1>1, <1>5, ToInsert DEF Insert
  <2>2. list' = Inserted(Now, timer[c], timeout[c])
    BY <1>5 DEF Insert
  <2>3. Good(Now) /\ Within(Now, W - 1) /\ timer[c] \notin Names(Now)
    BY <1>1, <2>1, NowShape
  <2> HIDE DEF Now
  <2>4. timeout[c] \in Nat
    BY <2>1
  <2>5. Good(Inserted(Now, timer[c], timeout[c]))
    BY <2>1, <2>3, <2>4, InsertedShape
  <2>6. Within(Inserted(Now, timer[c], timeout[c]), W - 1)
    BY <1>1, <2>1, <2>3, InsertedWithin
  <2>7. QED
    BY <2>2, <2>5, <2>6 DEF Lists
<1>6. ASSUME Ring PROVE Lists'
  <2> DEFINE i == FirstToRing(list)
  <2>1. i \in 1 .. Len(list)
    BY <1>6, ToRing DEF Ring, Irq
  <2>2. list' = Removed(list, i)
    BY <1>6 DEF Ring
  <2> HIDE DEF i
  <2>3. QED
    BY <1>1, <2>1, <2>2, RemovedShape, RemovedWithin DEF Lists
<1>7. ASSUME RingPeriodic PROVE Lists'
  <2> DEFINE i == FirstToRing(list)
             t == list[i].timer
             spare == IF handle[t].sum + handle[t].error >= 1000 THEN 1 ELSE 0
             n == Wrap(handle[t].period - Correction(t) - spare)
             l == Removed(list, i)
  <2>1. i \in 1 .. Len(list) /\ t \in Timers /\ t \notin Names(l) /\ Good(l)
    BY <1>7, ToRing DEF RingPeriodic, Irq
  <2>2. list' = Inserted(l, t, n)
    BY <1>7 DEF RingPeriodic
  <2>3. handle[t].period \in Int /\ Correction(t) \in Int /\ spare \in Int
    BY <1>1, <2>1, CorrectionType
  <2>4. n \in Counts
    BY <2>3, WrapType
  <2>5. n \in Nat /\ n \in 0 .. W - 1
    BY <2>4, Numbers DEF Counts
  <2> HIDE DEF n, t, spare
  <2>6. Within(l, W - 1)
    BY <1>1, <2>1, RemovedWithin
  <2> HIDE DEF i, l
  <2>7. Good(Inserted(l, t, n))
    BY <2>1, <2>5, InsertedShape
  <2>8. Within(Inserted(l, t, n), W - 1)
    BY <1>1, <2>1, <2>5, <2>6, InsertedWithin
  <2>9. QED
    BY <2>2, <2>7, <2>8 DEF Lists
<1>8. ASSUME Tick \/ Interrupted \/ OverflowSet \/ RingAgain \/ Finish PROVE list' = list
  BY <1>8 DEF Tick, Interrupted, OverflowSet, RingAgain, Finish
<1>9. ASSUME Overflow \/ Update PROVE list' = Now
  BY <1>9 DEF Overflow, Update
<1>10. ASSUME NEW c \in Contexts, NEW t \in Timers, Start(c, t) \/ StartRunning(c, t)
       PROVE  list' = list
  BY <1>10 DEF Start, StartRunning
<1>11. ASSUME NEW c \in Contexts, Compare(c) PROVE list' = list
  BY <1>11 DEF Compare
<1>12. ASSUME NEW c \in Contexts, Query(c) PROVE list' = Now
  BY <1>12 DEF Query
<1>13. CASE UNCHANGED vars
  BY <1>2, <1>13 DEF vars
<1>14. CASE Next
  BY <1>2, <1>3, <1>4, <1>5, <1>6, <1>7, <1>8, <1>9, <1>10, <1>11, <1>12, <1>14
     DEF Next, Handler, Call
<1>15. QED
  BY <1>13, <1>14

\* What the actions leave as it is, and what a section does to the hardware.
Hardware ==
  /\ counter \in Counts /\ compare \in Counts /\ last \in Counts
  /\ channel \in BOOLEAN /\ enabled \in BOOLEAN
  /\ matched \in BOOLEAN /\ overflowed \in BOOLEAN

LEMMA ComparatorType ==
  ASSUME Hardware, Lists, list # <<>>, SetComparator
  PROVE  /\ compare' \in Counts /\ channel' \in BOOLEAN
         /\ enabled' \in BOOLEAN /\ matched' \in BOOLEAN
<1>1. list[1].delta \in Nat /\ last \in Int /\ counter \in Counts
  BY HeadIsFirst, Numbers DEF Lists, Good, Hardware, Counts
<1>2. Wrap(last + list[1].delta) \in Counts
  BY <1>1, WrapType
<1>3. Margined(Wrap(last + list[1].delta)) \in Counts
  BY <1>1, <1>2, MarginedAhead
<1>4. QED
  BY <1>3 DEF SetComparator, Hardware

LEMMA HardwareSteps == TInv /\ [Next]_vars => Hardware'
<1> SUFFICES ASSUME TInv, [Next]_vars PROVE Hardware'
  OBVIOUS
<1>1. Hardware /\ Lists
  BY DEF TInv, Flat, Hardware
<1>2. CASE Tick
  <2>1. counter' \in Counts
    BY <1>1, <1>2, Numbers, WrapType DEF Tick, Hardware, Counts
  <2>2. matched' \in BOOLEAN /\ overflowed' \in BOOLEAN
    BY <1>2 DEF Tick
  <2>3. QED
    BY <1>1, <1>2, <2>1, <2>2 DEF Tick, Hardware
<1>3. ASSUME hardware' = hardware, last' \in {last, counter} PROVE Hardware'
  BY <1>1, <1>3 DEF hardware, Hardware
<1>4. ASSUME counter' = counter, overflowed' = overflowed, last' = last,
             list # <<>>, SetComparator
      PROVE  Hardware'
  BY <1>1, <1>4, ComparatorType DEF Hardware
<1>5. ASSUME counter' = counter, overflowed' = overflowed, last' \in {last, counter},
             DisableComparator
      PROVE  Hardware'
  BY <1>1, <1>5 DEF Hardware, DisableComparator
<1>6. ASSUME NEW c \in Contexts, NEW t \in Timers, Stop(c, t) PROVE Hardware'
  BY <1>1, <1>5, <1>6 DEF Stop, Hardware
<1>7. ASSUME NEW c \in Contexts, NEW t \in Timers, Start(c, t) \/ StartRunning(c, t)
      PROVE  Hardware'
  BY <1>3, <1>7 DEF Start, StartRunning
<1>8. ASSUME NEW c \in Contexts, Insert(c) \/ Query(c) PROVE Hardware'
  BY <1>3, <1>8 DEF Insert, Query
<1>9. ASSUME NEW c \in Contexts, Compare(c) PROVE Hardware'
  BY <1>4, <1>9 DEF Compare, TInv, Turns
<1>10. CASE Interrupted
  BY <1>1, <1>10 DEF Interrupted, Hardware
<1>11. CASE Overflow \/ Update
  BY <1>3, <1>11 DEF Overflow, Update
<1>12. CASE OverflowSet
  BY <1>4, <1>12 DEF OverflowSet, Irq, TInv, Turns
<1>13. CASE Ring \/ RingAgain \/ RingPeriodic
  BY <1>3, <1>13 DEF Ring, RingAgain, RingPeriodic
<1>14. CASE Finish
  BY <1>4, <1>5, <1>14 DEF Finish
<1>15. CASE UNCHANGED vars
  BY <1>3, <1>15 DEF vars
<1>16. CASE Next
  BY <1>2, <1>6, <1>7, <1>8, <1>9, <1>10, <1>11, <1>12, <1>13, <1>14, <1>16
     DEF Next, Handler, Call
<1>17. QED
  BY <1>15, <1>16

Places ==
  /\ at \in [Contexts -> {"idle", "insert", "compare"}]
  /\ timer \in [Contexts -> Timers \cup {None}]
  /\ timeout \in [Contexts -> 0 .. W \div 2]
  /\ irq \in {"none", "overflow", "set", "update", "ring", "call", "called", "finish"}
  /\ local \subseteq {"OF", "COMP"} /\ ringing \in Timers \cup {None}

\* What a timer may be started for.
LEMMA RequestType ==
  ASSUME NEW t \in Timers, NEW r \in Requests[t]
  PROVE  /\ r.timeout \in 1 .. W \div 2 /\ r.period \in 0 .. W \div 2 /\ r.error \in 0 .. 999
         /\ r.period \in {0, r.timeout}
  BY ConstantsAssumption

LEMMA PlacesSteps == TInv /\ [Next]_vars => Places'
<1> SUFFICES ASSUME TInv, [Next]_vars PROVE Places'
  OBVIOUS
<1>1. Places /\ 0 \in 0 .. W \div 2
  BY Numbers DEF TInv, Flat, Places
<1>2. ASSUME calls' = calls, handling' = handling PROVE Places'
  BY <1>1, <1>2 DEF calls, handling, Places
<1>3. ASSUME NEW c \in Contexts, NEW t \in Timers, Start(c, t) PROVE Places'
  <2>1. PICK r \in Requests[t] : timeout' = [timeout EXCEPT ![c] = r.timeout]
    BY <1>3 DEF Start
  <2>2. r.timeout \in 0 .. W \div 2
    BY RequestType, Numbers
  <2>3. timeout' \in [Contexts -> 0 .. W \div 2]
    BY <1>1, <2>1, <2>2 DEF Places
  <2>4. at' \in [Contexts -> {"idle", "insert", "compare"}]
        /\ timer' \in [Contexts -> Timers \cup {None}]
    BY <1>1, <1>3 DEF Start, Goes, Places
  <2>5. QED
    BY <1>1, <1>3, <2>3, <2>4 DEF Start, Called, Places
<1>4. ASSUME NEW c \in Contexts, NEW t \in Timers, StartRunning(c, t) PROVE Places'
  BY <1>1, <1>4 DEF StartRunning, Called, calls, Places
<1>5. ASSUME NEW c \in Contexts, NEW t \in Timers, Stop(c, t) PROVE Places'
  BY <1>1, <1>5 DEF Stop, Called, Goes, Places
<1>6. ASSUME NEW c \in Contexts, Insert(c) PROVE Places'
  BY <1>1, <1>6 DEF Insert, Goes, handling, Places
<1>7. ASSUME NEW c \in Contexts, Compare(c) PROVE Places'
  BY <1>1, <1>7 DEF Compare, Goes, handling, Places
<1>8. ASSUME NEW c \in Contexts, Query(c) PROVE Places'
  BY <1>1, <1>8 DEF Query, Called, calls, Places
<1>9. CASE Tick
  BY <1>2, <1>9 DEF Tick
<1>10. CASE Interrupted
  BY <1>1, <1>10 DEF Interrupted, Irq, calls, Places
<1>11. CASE Overflow \/ OverflowSet
  BY <1>1, <1>11 DEF Overflow, OverflowSet, Irq, calls, Places
<1>12. CASE Update
  BY <1>1, <1>12 DEF Update, calls, Places
<1>13. CASE Ring \/ RingAgain \/ RingPeriodic
  <2>1. ringing' = list[FirstToRing(list)].timer /\ irq = "ring" /\ irq' = "call"
        /\ calls' = calls /\ local' = local
    BY <1>13 DEF Ring, RingAgain, RingPeriodic, Irq
  <2>2. ringing' \in Timers
    BY <2>1, ToRing
  <2>3. QED
    BY <1>1, <2>1, <2>2 DEF calls, Places
<1>14. CASE Finish
  BY <1>1, <1>14 DEF Finish, Irq, calls, Places
<1>15. CASE UNCHANGED vars
  BY <1>2, <1>15 DEF vars
<1>16. CASE Next
  BY <1>3, <1>4, <1>5, <1>6, <1>7, <1>8, <1>9, <1>10, <1>11, <1>12, <1>13, <1>14, <1>16
     DEF Next, Handler, Call
<1>17. QED
  BY <1>15, <1>16

Handled == handle \in [Timers -> HandleType] /\ due \in [Timers -> Int]

\* What is written to a handle.
Written(h, n, k) == [h EXCEPT !.expected = n, !.sum = k]

LEMMA HandleWritten ==
  ASSUME NEW h \in HandleType, NEW n \in Counts, NEW k \in 0 .. 999
  PROVE  /\ Written(h, n, k) \in HandleType
         /\ [h EXCEPT !.error = k, !.sum = k] \in HandleType
<1>1. ASSUME NEW g \in HandleType PROVE [g EXCEPT !.sum = k] \in HandleType
  BY DEF HandleType
<1>2. [h EXCEPT !.expected = n] \in HandleType /\ [h EXCEPT !.error = k] \in HandleType
  BY DEF HandleType
<1>3. [[h EXCEPT !.expected = n] EXCEPT !.sum = k] \in HandleType
      /\ [[h EXCEPT !.error = k] EXCEPT !.sum = k] \in HandleType
  BY <1>1, <1>2
<1>4. QED
  BY <1>3 DEF Written

\* The errors of conversion that make up a tick, and what is left of them.
Spare(h) == IF h.sum + h.error >= 1000 THEN 1 ELSE 0
Rest(h) == (h.sum + h.error) - 1000 * Spare(h)

LEMMA SpareTick ==
  ASSUME NEW h \in HandleType
  PROVE  Spare(h) \in {0, 1} /\ Rest(h) \in 0 .. 999
<1> DEFINE s == h.sum
           e == h.error
<1>1. s \in 0 .. 999 /\ e \in 0 .. 999
  BY DEF HandleType
<1>2. Spare(h) = (IF s + e >= 1000 THEN 1 ELSE 0) /\ Rest(h) = (s + e) - 1000 * Spare(h)
  BY DEF Spare, Rest
<1> HIDE DEF s, e
<1>3. s \in Int /\ e \in Int /\ 0 <= s /\ s <= 999 /\ 0 <= e /\ e <= 999
  BY <1>1
<1>4. CASE s + e >= 1000
  <2>1. s + e - 1000 \in 0 .. 999
    BY <1>3, <1>4
  <2>2. QED
    BY <1>2, <1>3, <1>4, <2>1
<1>5. CASE ~(s + e >= 1000)
  <2>1. s + e \in 0 .. 999
    BY <1>3, <1>5
  <2>2. QED
    BY <1>2, <1>3, <1>5, <2>1
<1>6. QED
  BY <1>4, <1>5

LEMMA HandledSteps == TInv /\ [Next]_vars => Handled'
<1> SUFFICES ASSUME TInv, [Next]_vars PROVE Handled'
  OBVIOUS
<1>1. Handled /\ Flat /\ counter \in Int /\ W \in Nat /\ W > 6
  BY Numbers DEF TInv, Flat, Handled, Counts
<1>2. ASSUME handle' = handle, due' = due PROVE Handled'
  BY <1>1, <1>2 DEF Handled
<1>3. ASSUME NEW t \in Timers, Forget(t) PROVE Handled'
  <2>1. Unused \in HandleType
    BY <1>1, Numbers DEF Unused, HandleType, Counts
  <2>2. QED
    BY <1>1, <1>3, <2>1 DEF Forget, Handled
<1>4. ASSUME NEW c \in Contexts, NEW t \in Timers, Start(c, t) PROVE Handled'
  <2>1. PICK r \in Requests[t] :
          /\ handle' = [handle EXCEPT ![t] =
               [period |-> r.period, error |-> r.error, sum |-> 0,
                expected |-> IF r.period = 0 THEN 0 ELSE Wrap(counter + r.period)]]
          /\ due' = [due EXCEPT ![t] = r.timeout]
    BY <1>4 DEF Start
  <2>2. r.timeout \in Int /\ r.period \in 0 .. W \div 2 /\ r.error \in 0 .. 999
    BY RequestType
  <2>3. Wrap(counter + r.period) \in Counts /\ 0 \in Counts
    BY <1>1, <2>2, WrapType DEF Counts
  <2>4. [period |-> r.period, error |-> r.error, sum |-> 0,
         expected |-> IF r.period = 0 THEN 0 ELSE Wrap(counter + r.period)] \in HandleType
    BY <2>2, <2>3 DEF HandleType
  <2>5. QED
    BY <1>1, <2>1, <2>2, <2>4 DEF Handled
<1>5. ASSUME NEW c \in Contexts, NEW t \in Timers, StartRunning(c, t) PROVE Handled'
  <2>1. handle[t] \in HandleType
    BY <1>1 DEF Handled
  <2>2. handle' = [handle EXCEPT ![t] = [handle[t] EXCEPT !.error = 0, !.sum = 0]] /\ due' = due
    BY <1>1, <1>5 DEF StartRunning, Handled
  <2>3. [handle[t] EXCEPT !.error = 0, !.sum = 0] \in HandleType
    <3>1. 0 \in Counts /\ 0 \in 0 .. 999
      BY <1>1 DEF Counts
    <3> DEFINE h == handle[t]
    <3> HIDE DEF h
    <3>2. h \in HandleType
      BY <2>1 DEF h
    <3>3. [h EXCEPT !.error = 0, !.sum = 0] \in HandleType
      BY <3>1, <3>2, HandleWritten
    <3>4. QED
      BY <3>3, Zenon DEF h
  <2>4. QED
    BY <1>1, <2>2, <2>3 DEF Handled
<1>6. ASSUME NEW c \in Contexts, NEW t \in Timers, Stop(c, t) PROVE Handled'
  BY <1>2, <1>3, <1>6 DEF Stop
<1>7. ASSUME NEW c \in Contexts, Insert(c) PROVE Handled'
  <2>1. timeout[c] \in Int /\ handle' = handle
    BY <1>1, <1>7, Numbers DEF Insert, Flat
  <2>2. QED
    BY <1>1, <1>7, <2>1 DEF Insert, Handled
<1>8. ASSUME NEW c \in Contexts, Compare(c) \/ Query(c) PROVE Handled'
  BY <1>2, <1>8 DEF Compare, Query
<1>9. CASE Tick
  BY <1>1, <1>9 DEF Tick, Handled
<1>10. CASE Interrupted \/ Overflow \/ OverflowSet \/ Update \/ Finish
  BY <1>2, <1>10 DEF Interrupted, Overflow, OverflowSet, Update, Finish
<1>11. CASE Ring
  BY <1>3, <1>11, ToRing DEF Ring, Irq
<1>12. CASE RingAgain
  <2> DEFINE t == list[FirstToRing(list)].timer
  <2>1. t \in Timers
    BY <1>12, ToRing DEF RingAgain, Irq
  <2>2. handle' = [handle EXCEPT ![t].expected = Wrap(@ + handle[t].period)]
        /\ due' = [due EXCEPT ![t] = @ + handle[t].period]
    BY <1>12 DEF RingAgain
  <2> HIDE DEF t
  <2>3. handle[t].period \in Int /\ handle[t].expected \in Int /\ handle[t] \in HandleType
    BY <1>1, <2>1, CorrectionType DEF Handled, Counts
  <2>4. Wrap(handle[t].expected + handle[t].period) \in Counts
    BY <2>3, WrapType
  <2>5. handle' = [handle EXCEPT ![t] =
          [handle[t] EXCEPT !.expected = Wrap(handle[t].expected + handle[t].period)]]
    BY <2>2
  <2>6. [handle[t] EXCEPT !.expected = Wrap(handle[t].expected + handle[t].period)] \in HandleType
    BY <2>3, <2>4 DEF HandleType
  <2>7. handle' \in [Timers -> HandleType]
    BY <1>1, <2>5, <2>6 DEF Handled
  <2>8. due' \in [Timers -> Int]
    BY <1>1, <2>1, <2>2, <2>3 DEF Handled
  <2>9. QED
    BY <2>7, <2>8 DEF Handled
<1>13. CASE RingPeriodic
  <2> DEFINE t == list[FirstToRing(list)].timer
             total == handle[t].sum + handle[t].error
             spare == IF total >= 1000 THEN 1 ELSE 0
             rest == total - 1000 * spare
             h == handle[t]
  <2>1. t \in Timers
    BY <1>13, ToRing DEF RingPeriodic, Irq
  <2>2. handle' = [handle EXCEPT ![t].expected = Wrap(@ - spare + handle[t].period),
                                 ![t].sum = rest]
        /\ due' = [due EXCEPT ![t] = @ - spare + handle[t].period]
    BY <1>13 DEF RingPeriodic
  <2>3. spare = Spare(h) /\ rest = Rest(h)
    <3>1. spare = Spare(h)
      BY DEF Spare
    <3> HIDE DEF spare
    <3>2. rest = Rest(h)
      BY <3>1 DEF Rest
    <3>3. QED
      BY <3>1, <3>2
  <2> HIDE DEF spare, rest, t
  <2>4. handle' = [handle EXCEPT ![t] = Written(h, Wrap(h.expected - spare + h.period), rest)]
    BY <1>1, <2>1, <2>2 DEF Handled, Written
  <2>5. h \in HandleType /\ h.period \in Int /\ h.expected \in Int
    BY <1>1, <2>1, CorrectionType DEF Handled, Counts
  <2>6. spare \in Int /\ rest \in 0 .. 999
    BY <2>3, <2>5, SpareTick
  <2>7. due' \in [Timers -> Int]
    BY <1>1, <2>1, <2>2, <2>5, <2>6 DEF Handled
  <2> HIDE DEF h
  <2>8. Wrap(h.expected - spare + h.period) \in Counts
    BY <2>5, <2>6, WrapType
  <2>9. Written(h, Wrap(h.expected - spare + h.period), rest) \in HandleType
    BY <2>5, <2>6, <2>8, HandleWritten
  <2>10. handle' \in [Timers -> HandleType]
    BY <1>1, <2>4, <2>9 DEF Handled
  <2>11. QED
    BY <2>7, <2>10 DEF Handled
<1>14. CASE UNCHANGED vars
  BY <1>2, <1>14 DEF vars
<1>15. CASE Next
  BY <1>4, <1>5, <1>6, <1>7, <1>8, <1>9, <1>10, <1>11, <1>12, <1>13, <1>15
     DEF Next, Handler, Call
<1>16. QED
  BY <1>14, <1>15

LEMMA TurnsSteps == TInv /\ [Next]_vars => Turns'
<1> SUFFICES ASSUME TInv, [Next]_vars PROVE Turns'
  OBVIOUS
<1>1. Turns /\ Flat /\ Lists /\ None \notin Timers /\ Names(list) \subseteq Timers
      /\ at \in [Contexts -> {"idle", "insert", "compare"}]
      /\ timer \in [Contexts -> Timers \cup {None}]
      /\ Contexts = {Task, Isr} /\ Task # Isr /\ Task \in Contexts /\ Isr \in Contexts
  BY ListedNames, ConstantsAssumption DEF TInv, Flat, Contexts, Task, Isr
<1>2. Names(Now) = Names(list) /\ (Now = <<>> <=> list = <<>>)
  BY <1>1, NowShape
<1> HIDE DEF Now
<1>3. ASSUME at' = at, timer' = timer, irq' = irq, list' = list PROVE Turns'
  BY <1>1, <1>3 DEF Turns
<1>4. ASSUME NEW c \in Contexts, at[c] = "idle", c = Task => irq = "none",
             c = Isr => irq = "call"
      PROVE  at[Task] # "compare" \/ c = Task
  BY <1>1, <1>4 DEF Turns
<1>5. ASSUME NEW c \in Contexts, NEW t \in Timers, Start(c, t) PROVE Turns'
  <2>1. /\ t \notin Names(list) /\ t # timer[Task] /\ t # None
        /\ at' = [at EXCEPT ![c] = "insert"] /\ timer' = [timer EXCEPT ![c] = t]
        /\ irq' = (IF c = Isr THEN "called" ELSE irq) /\ list' = list
        /\ at[c] = "idle" /\ (c = Task => irq = "none") /\ (c = Isr => irq = "call")
    BY <1>1, <1>5, ListedNames DEF Start, Goes, Called, MayCall
  <2>2. c = Task => timer[Isr] = None
    BY <1>1, <2>1 DEF Turns
  <2>3. QED
    BY <1>1, <2>1, <2>2 DEF Turns
<1>6. ASSUME NEW c \in Contexts, NEW t \in Timers, StartRunning(c, t) PROVE Turns'
  <2>1. /\ at' = at /\ timer' = timer /\ list' = list
        /\ irq' = (IF c = Isr THEN "called" ELSE irq)
        /\ at[c] = "idle" /\ (c = Task => irq = "none") /\ (c = Isr => irq = "call")
    BY <1>6 DEF StartRunning, Called, MayCall, calls
  <2>2. QED
    BY <1>1, <2>1 DEF Turns
<1>7. ASSUME NEW c \in Contexts, Query(c) PROVE Turns'
  <2>1. /\ at' = at /\ timer' = timer /\ list' = Now
        /\ irq' = (IF c = Isr THEN "called" ELSE irq)
        /\ at[c] = "idle" /\ (c = Task => irq = "none") /\ (c = Isr => irq = "call")
    BY <1>7 DEF Query, Called, MayCall, calls
  <2>2. QED
    BY <1>1, <1>2, <2>1 DEF Turns
<1>8. ASSUME NEW c \in Contexts, Insert(c) PROVE Turns'
  <2> DEFINE next == IF Head(list').timer = timer[c] THEN "compare" ELSE "idle"
  <2>1. /\ at[c] = "insert" /\ (c = Task => irq = "none") /\ irq' = irq
        /\ at' = [at EXCEPT ![c] = next] /\ timer' = [timer EXCEPT ![c] = None]
        /\ list' = Inserted(Now, timer[c], timeout[c])
    BY <1>8 DEF Insert, Goes, MayGoOn, handling
  <2>2. next \in {"compare", "idle"}
    OBVIOUS
  <2> HIDE DEF next
  <2>3. timer[c] \in Timers /\ timer[c] \notin Names(Now) /\ timeout[c] \in Nat /\ Good(Now)
    BY <1>1, <1>2, <2>1, ToInsert, NowShape
  <2>4. Names(list') = Names(list) \cup {timer[c]} /\ list' # <<>>
    BY <1>2, <2>1, <2>3, InsertedShape
  <2>5. c = Isr => irq = "called"
    BY <1>1, <2>1 DEF Turns
  <2>6. irq' \in {"none", "called"}
    BY <1>1, <2>1, <2>5
  <2>7. \A d \in Contexts : timer'[d] \notin Names(list')
    BY <1>1, <2>1, <2>3, <2>4 DEF Turns
  <2>8. \A d \in Contexts : at'[d] = "insert" <=> timer'[d] # None
    BY <1>1, <2>1, <2>2 DEF Turns
  <2>9. timer'[Task] = timer'[Isr] => timer'[Task] = None
    BY <1>1, <2>1 DEF Turns
  <2>10. (at'[Isr] # "idle" => irq' = "called") /\ (at'[Task] = "compare" => irq' = "none")
    BY <1>1, <2>1, <2>2, <2>5 DEF Turns
  <2>11. QED
    BY <2>4, <2>6, <2>7, <2>8, <2>9, <2>10 DEF Turns
<1>9. ASSUME NEW c \in Contexts, Compare(c) PROVE Turns'
  <2>1. /\ at[c] = "compare" /\ at' = [at EXCEPT ![c] = "idle"] /\ timer' = timer
        /\ list' = list /\ irq' = irq
    BY <1>9 DEF Compare, Goes, handling
  <2>2. QED
    BY <1>1, <2>1 DEF Turns
<1>10. ASSUME NEW c \in Contexts, NEW t \in Timers, Stop(c, t) PROVE Turns'
  <2> DEFINE next == IF t \in Listed /\ Place(t) = 1 /\ Len(list) > 1 THEN "compare" ELSE "idle"
  <2>1. /\ at' = [at EXCEPT ![c] = next] /\ timer' = timer
        /\ list' = (IF t \in Listed THEN Removed(Now, Place(t)) ELSE Now)
        /\ irq' = (IF c = Isr THEN "called" ELSE irq)
        /\ at[c] = "idle" /\ (c = Task => irq = "none") /\ (c = Isr => irq = "call")
    BY <1>10 DEF Stop, Called, MayCall, Goes
  <2>2. next \in {"compare", "idle"}
    OBVIOUS
  <2>3. Names(list') \subseteq Names(list) /\ (next = "compare" => list' # <<>>)
    <3>1. CASE t \notin Listed
      BY <1>2, <2>1, <3>1
    <3>2. CASE t \in Listed
      <4>1. Place(t) \in 1 .. Len(Now) /\ Good(Now) /\ Len(Now) = Len(list)
        BY <1>1, <3>2, ListedNames, PlaceIs, NowShape
      <4>2. list' = Removed(Now, Place(t))
        BY <2>1, <3>2
      <4>3. Names(list') = Names(Now) \ {Now[Place(t)].timer} /\ (list' = <<>> <=> Len(Now) = 1)
        BY <4>1, <4>2, RemovedShape
      <4>4. QED
        BY <1>2, <4>1, <4>3
    <3>3. QED
      BY <3>1, <3>2
  <2> HIDE DEF next
  <2>4. irq' \in {"none", "called"}
    BY <1>1, <2>1
  <2>5. timer[c] = None /\ None \notin Names(list')
    BY <1>1, <2>1, <2>3 DEF Turns
  <2>6. \A d \in Contexts : timer'[d] \notin Names(list')
    BY <1>1, <2>1, <2>3 DEF Turns
  <2>7. \A d \in Contexts : at'[d] = "insert" <=> timer'[d] # None
    BY <1>1, <2>1, <2>2, <2>5 DEF Turns
  <2>8. \A d \in Contexts : at'[d] = "compare" => list' # <<>>
    BY <1>1, <2>1, <2>3 DEF Turns
  <2>9. (at'[Isr] # "idle" => irq' = "called") /\ (at'[Task] = "compare" => irq' = "none")
    BY <1>1, <2>1 DEF Turns
  <2>10. QED
    BY <1>1, <2>1, <2>4, <2>6, <2>7, <2>8, <2>9 DEF Turns
<1>11. CASE Tick
  BY <1>3, <1>11 DEF Tick, calls, handling
<1>12. CASE Interrupted
  BY <1>1, <1>12 DEF Interrupted, Irq, calls, Turns
<1>13. CASE Overflow
  <2>1. at' = at /\ timer' = timer /\ list' = Now /\ irq = "overflow"
        /\ (irq' = "set" => list # <<>>) /\ irq' \in {"set", "update", "none"}
    BY <1>13 DEF Overflow, calls
  <2>2. QED
    BY <1>1, <1>2, <2>1 DEF Turns
<1>14. CASE OverflowSet
  <2>1. at' = at /\ timer' = timer /\ list' = list /\ irq = "set"
        /\ irq' \in {"update", "none"}
    BY <1>14 DEF OverflowSet, Irq, calls
  <2>2. QED
    BY <1>1, <2>1 DEF Turns
<1>15. CASE Update
  <2>1. at' = at /\ timer' = timer /\ list' = Now /\ at[Isr] = "idle" /\ irq # "none"
        /\ irq' = (IF Expired(list') # {} THEN "ring" ELSE "finish")
    BY <1>15 DEF Update, calls
  <2>2. QED
    BY <1>1, <1>2, <2>1 DEF Turns
<1>16. CASE Ring \/ RingAgain \/ RingPeriodic
  <2>1. at' = at /\ timer' = timer /\ irq = "ring" /\ irq' = "call"
    BY <1>16 DEF Ring, RingAgain, RingPeriodic, Irq, calls
  <2>2. Names(list') \subseteq Names(list)
    <3> DEFINE i == FirstToRing(list)
               t == list[i].timer
    <3>1. t \in Timers /\ t \in Names(list) /\ Good(Removed(list, i))
          /\ Names(Removed(list, i)) = Names(list) \ {t}
      BY <2>1, ToRing
    <3>2. CASE Ring
      BY <3>1, <3>2 DEF Ring
    <3>3. CASE RingAgain
      BY <3>3 DEF RingAgain
    <3>4. CASE RingPeriodic
      <4> DEFINE spare == IF handle[t].sum + handle[t].error >= 1000 THEN 1 ELSE 0
                 n == Wrap(handle[t].period - Correction(t) - spare)
                 l == Removed(list, i)
      <4>1. list' = Inserted(l, t, n)
        BY <3>4 DEF RingPeriodic
      <4>2. n \in Nat
        <5>1. handle[t].period \in Int /\ Correction(t) \in Int /\ spare \in Int
          BY <1>1, <3>1, CorrectionType
        <5>2. n \in Counts
          BY <5>1, WrapType
        <5>3. QED
          BY <5>2, Numbers DEF Counts
      <4>3. Good(l) /\ Names(l) = Names(list) \ {t}
        BY <3>1
      <4> HIDE DEF n, spare, l, t, i
      <4>4. Names(Inserted(l, t, n)) = Names(l) \cup {t}
        BY <3>1, <4>2, <4>3, InsertedShape
      <4>5. QED
        BY <3>1, <4>1, <4>3, <4>4
    <3>5. QED
      BY <1>16, <3>2, <3>3, <3>4
  <2>3. QED
    BY <1>1, <2>1, <2>2 DEF Turns
<1>17. CASE Finish
  BY <1>1, <1>17 DEF Finish, Irq, calls, Turns
<1>18. CASE UNCHANGED vars
  BY <1>3, <1>18 DEF vars, calls, handling
<1>19. CASE Next
  BY <1>5, <1>6, <1>7, <1>8, <1>9, <1>10, <1>11, <1>12, <1>13, <1>14, <1>15, <1>16, <1>17,
     <1>19 DEF Next, Handler, Call
<1>20. QED
  BY <1>18, <1>19

\* A step of the code.
Turn == Handler \/ \E c \in Contexts : Call(c)

\* Only the counter's going on is counted.
LEMMA OnlyTickCounts ==
  ASSUME Turn
  PROVE  counter' = counter
<1>1. ASSUME NEW c \in Contexts, NEW t \in Timers, Start(c, t) \/ StartRunning(c, t)
      PROVE  counter' = counter
  BY <1>1 DEF Start, StartRunning, hardware
<1>2. ASSUME NEW c \in Contexts, NEW t \in Timers, Stop(c, t)
      PROVE  counter' = counter
  BY <1>2 DEF Stop
<1>3. ASSUME NEW c \in Contexts, Insert(c) \/ Compare(c) \/ Query(c)
      PROVE  counter' = counter
  BY <1>3 DEF Insert, Compare, Query, hardware
<1>4. ASSUME Handler PROVE counter' = counter
  BY <1>4 DEF Handler, Interrupted, Overflow, OverflowSet, Update, Ring, RingAgain,
              RingPeriodic, Finish, hardware
<1>5. QED
  BY <1>1, <1>2, <1>3, <1>4 DEF Turn, Call

LEMMA PausedSteps == TInv /\ [Next]_vars => Paused'
<1> SUFFICES ASSUME TInv, [Next]_vars PROVE Paused'
  OBVIOUS
<1>1. busy \in 0 .. MaxBusy /\ MaxBusy \in Nat /\ (~Busy => busy = 0)
  BY Numbers DEF TInv, Paused
<1>2. CASE UNCHANGED vars
  BY <1>1, <1>2 DEF vars, hardware, calls, handling, Busy, Paused
<1>3. CASE Next
  <2>1. CountBusy
    BY <1>3 DEF Next
  <2>2. Busy /\ counter' # counter => busy < MaxBusy
    BY <1>3, OnlyTickCounts DEF Tick, Next, Turn
  <2>3. QED
    BY <1>1, <2>1, <2>2 DEF CountBusy, Paused
<1>4. QED
  BY <1>2, <1>3

LEMMA TInvInitially == Init => TInv
<1> SUFFICES ASSUME Init PROVE TInv
  OBVIOUS
<1>1. 0 \in Counts /\ 0 \in 0 .. W \div 2 /\ 0 \in 0 .. MaxBusy
  BY Numbers DEF Counts
<1>2. Unused \in HandleType
  BY <1>1 DEF Unused, HandleType
<1>3. Flat
  <2>1. Hardware
    BY <1>1 DEF Init, Hardware
  <2>2. Handled
    BY <1>2 DEF Init, Handled
  <2>3. Places
    BY <1>1 DEF Init, Places
  <2>4. QED
    BY <2>1, <2>2, <2>3 DEF Flat, Hardware, Handled, Places
<1>4. Lists
  BY DEF Init, Lists, Good, Within
<1>5. Turns
  BY DEF Init, Turns, Names, Contexts, Task, Isr
<1>6. Paused
  BY <1>1 DEF Init, Paused
<1>7. QED
  BY <1>3, <1>4, <1>5, <1>6 DEF TInv

LEMMA TInvStep == TInv /\ [Next]_vars => TInv'
<1>1. SUFFICES ASSUME TInv, [Next]_vars PROVE TInv'
  OBVIOUS
<1>2. Flat'
  BY <1>1, HardwareSteps, PlacesSteps, HandledSteps DEF Flat, Hardware, Places, Handled
<1>3. QED
  BY <1>1, <1>2, ListSteps, TurnsSteps, PausedSteps DEF TInv

\* What the handle says of a timer that runs.
LEMMA TypesFollow == TInv => TypeOK
<1> SUFFICES ASSUME TInv PROVE TypeOK
  OBVIOUS
<1>1. Flat /\ Good(list) /\ Within(list, W - 1) /\ list \in Seq(Entry) /\ DOMAIN list = 1 .. Len(list)
  BY DEF TInv, Lists, Good
<1>2. W \in Nat /\ W \div 2 \in Nat /\ W \div 2 <= W - 1
  BY Numbers
<1>3. \A i \in 1 .. Len(list) : list[i] \in [timer : Timers, delta : Counts]
  <2>1. TAKE i \in 1 .. Len(list)
  <2>2. list[i] \in Entry /\ list[i].delta \in Nat
    BY <1>1, EntryType
  <2>3. i \in 0 .. Len(list) /\ i - 1 \in 0 .. Len(list) /\ Len(list) \in Nat
    BY <1>1
  <2>4. Until(list, i) = Until(list, i - 1) + list[i].delta
    BY <1>1, UntilStep
  <2>5. Until(list, i - 1) \in Nat /\ Until(list, i) \in Nat
    BY <1>1, <2>3, UntilGrows
  <2>6. Until(list, i) <= W - 1
    BY <1>1 DEF Within
  <2>7. list[i].delta \in Counts
    BY <1>2, <2>2, <2>4, <2>5, <2>6 DEF Counts
  <2>8. QED
    BY <2>2, <2>7 DEF Entry
<1>4. list \in Seq([timer : Timers, delta : Counts])
  <2>1. list = [i \in 1 .. Len(list) |-> list[i]] /\ Len(list) \in Nat
    BY <1>1
  <2> DEFINE n == Len(list)
             R == [timer : Timers, delta : Counts]
  <2>2. n \in Nat /\ list \in [1 .. n -> R]
    BY <1>3, <2>1
  <2> HIDE DEF n, R
  <2>3. list \in Seq(R)
    BY <2>2
  <2>4. QED
    BY <2>3 DEF R
<1>5. \A i, j \in DOMAIN list : list[i].timer = list[j].timer => i = j
  BY <1>1 DEF Good
<1>6. 0 .. W \div 2 \subseteq Counts
  BY <1>2 DEF Counts
<1>7. HandleType \subseteq
        [period : Counts, expected : Counts, error : 0 .. 999, sum : 0 .. 999]
  BY <1>6 DEF HandleType
<1>8. handle \in [Timers -> [period : Counts, expected : Counts, error : 0 .. 999,
                              sum : 0 .. 999]]
      /\ timeout \in [Contexts -> Counts]
  BY <1>1, <1>6, <1>7 DEF Flat
<1>9. busy \in 0 .. MaxBusy
  BY DEF TInv, Paused
<1>10. QED
  BY <1>1, <1>4, <1>5, <1>8, <1>9 DEF Flat, TypeOK

LEMMA TInvAlways == Spec => []TInv
<1>1. Init => TInv
  BY TInvInitially
<1>2. TInv /\ [Next]_vars => TInv'
  BY TInvStep
<1>3. QED
  BY <1>1, <1>2, PTL DEF Spec

\* Every variable of the sleep timer has its type, and no timer is in the list of
\* sl_sleeptimer.c twice, whatever the tasks, the callbacks and the counter do.
THEOREM TypeCorrect == Spec => []TypeOK
<1>1. TInv => TypeOK
  BY TypesFollow
<1>2. QED
  BY <1>1, TInvAlways, PTL

-----------------------------------------------------------------------------
(* Time. The bounds under which the service keeps it: a section of the      *)
(* task's or the interrupt's reads the counter twice within a tick, and     *)
(* nothing takes half a wrap of the counter.                                *)

MaxLate == SLEEPTIMER_COMPARE_MIN_DIFF + 1 + 2 * MaxBusy

\* Late by a whole period, a periodic timer that also drops a tick for the error of
\* its conversion would be started for a wrap of the counter less one.
Punctual ==
  /\ MaxStall <= 1
  /\ MaxLate + 2 <= W \div 2
  /\ \A t \in Timers : \A r \in Requests[t] :
       r.period > 0 /\ r.error > 0 => r.period > MaxLate

\* A periodic timer was due from its start, which is a while before it is inserted.
Slack(t) == IF handle[t].period = 0 THEN 0 ELSE MaxBusy

\* When it expects to be called back is when it is due.
Follows(t) == handle[t].expected - counter - due[t] \in {-W, 0, W}

Handles == \A t \in Timers :
  handle[t].period > 0 /\ handle[t].error > 0 => handle[t].period > MaxLate

Starting == \A c \in Contexts : at[c] = "insert" =>
  /\ timeout[c] >= 1
  /\ timeout[c] - busy <= due[timer[c]] /\ due[timer[c]] <= timeout[c]
  /\ handle[timer[c]].period # 0 => Follows(timer[c])

\* How long ago the list was brought up to date.
Fresh ==
  /\ irq \in {"ring", "call", "called", "finish", "set"} => Since <= busy
  /\ irq \in {"finish", "set"} \/ at[Task] = "compare" => Since <= 1
  /\ list # <<>> => Since <= list[1].delta + 4 + busy

\* That u, the sum of the deltas up to t, is the time t is due.
Told(t, u) ==
  /\ u <= Clip(due[t] + Since + Slack(t)) /\ u >= Clip(due[t] + Since - Slack(t))
  /\ u <= (W \div 2) + MaxBusy
  /\ handle[t].period # 0 => Follows(t)

Deltas == \A i \in 1 .. Len(list) : Told(list[i].timer, Until(list, i))

NotLate == \A t \in Names(list) : due[t] >= -(4 + busy + Slack(t))

\* The interrupt is pending, or comes in time for all timers.
Armed == list # <<>> /\ irq = "none" /\ at[Task] # "compare" =>
  /\ enabled
  /\ matched \/ /\ channel
                /\ Since + Ahead <= list[1].delta + 3
                /\ \A t \in Names(list) : Ahead <= due[t] + 3 + Slack(t)

PInv == Handles /\ Starting /\ Fresh /\ Deltas /\ NotLate /\ Armed

Numeric ==
  /\ MaxBusy \in Nat /\ MaxStall \in Nat /\ MaxStall <= 1
  /\ MaxLate = 4 + 2 * MaxBusy /\ MaxLate + 2 <= W \div 2
  /\ W \in Nat /\ W > 6 /\ W \div 2 \in Nat /\ 2 * (W \div 2) <= W
  /\ busy \in Nat /\ busy <= MaxBusy
  /\ counter \in Nat /\ counter < W /\ compare \in Nat /\ compare < W
  /\ last \in Nat /\ last < W
  /\ Since \in Nat /\ Since < W /\ Ahead \in Nat /\ Ahead < W

LEMMA Bounds ==
  ASSUME Punctual, TInv
  PROVE  Numeric
<1>1. MaxLate = 4 + 2 * MaxBusy
  BY Numbers DEF MaxLate, SLEEPTIMER_COMPARE_MIN_DIFF
<1>2. counter \in Counts /\ compare \in Counts /\ last \in Counts
  BY DEF TInv, Flat
<1>3. Ahead \in Counts
  BY <1>2, WrapDifference DEF Ahead
<1>4. Since \in Nat /\ Since < W
  BY SinceType DEF TInv
<1>5. MaxStall <= 1 /\ MaxLate + 2 <= W \div 2 /\ busy \in 0 .. MaxBusy
  BY DEF Punctual, TInv, Paused
<1>6. QED
  BY <1>1, <1>2, <1>3, <1>4, <1>5, Numbers DEF Counts, Numeric

LEMMA TimerTypes ==
  ASSUME Punctual, TInv, NEW t \in Timers
  PROVE  /\ due[t] \in Int
         /\ handle[t].period \in Nat /\ handle[t].period <= W \div 2
         /\ handle[t].expected \in Nat /\ handle[t].expected < W
         /\ Slack(t) \in Nat /\ Slack(t) <= MaxBusy
         /\ handle[t].period = 0 => Slack(t) = 0
         /\ handle[t].period # 0 => Slack(t) = MaxBusy
<1>n. Numeric
  BY Bounds
<1>1. handle[t] \in HandleType /\ due[t] \in Int
  BY DEF TInv, Flat
<1>2. handle[t].period \in 0 .. W \div 2 /\ handle[t].expected \in Counts
  BY <1>1 DEF HandleType
<1>3. QED
  BY <1>1, <1>2, <1>n DEF Slack, Counts, Numeric

\* The first timer, and what its delta bounds.
LEMMA FirstTimer ==
  ASSUME Punctual, TInv, PInv, list # <<>>
  PROVE  /\ list[1].delta \in Nat /\ list[1].delta = Until(list, 1)
         /\ 1 \in 1 .. Len(list) /\ list[1].timer \in Names(list)
         /\ list[1].delta <= (W \div 2) + MaxBusy
         /\ Since <= list[1].delta + 4 + busy
         /\ \A i \in 1 .. Len(list) : list[1].delta <= Until(list, i)
<1>1. list \in Seq(Entry)
  BY DEF TInv, Lists, Good
<1>2. 1 \in 1 .. Len(list) /\ list[1].delta \in Nat /\ Until(list, 1) = list[1].delta
      /\ \A i \in 1 .. Len(list) : list[1].delta <= Until(list, i)
  BY <1>1, HeadIsFirst
<1>3. Told(list[1].timer, Until(list, 1))
  BY <1>2 DEF PInv, Deltas
<1>4. QED
  BY <1>2, <1>3 DEF Told, PInv, Fresh, Names

\* A timer of the list.
LEMMA OfList ==
  ASSUME Punctual, TInv, PInv, NEW i \in 1 .. Len(list)
  PROVE  /\ list # <<>> /\ list[i].timer \in Timers /\ list[i].timer \in Names(list)
         /\ Until(list, i) \in Nat /\ list[1].delta <= Until(list, i)
         /\ Told(list[i].timer, Until(list, i))
         /\ due[list[i].timer] >= -(4 + busy + Slack(list[i].timer))
<1>1. list \in Seq(Entry)
  BY DEF TInv, Lists, Good
<1>2. list # <<>> /\ list[i].timer \in Timers /\ list[i].timer \in Names(list)
  BY <1>1, EntryType DEF Names
<1>3. Until(list, i) \in Nat /\ list[1].delta <= Until(list, i)
  BY <1>1, <1>2, HeadIsFirst
<1>4. QED
  BY <1>2, <1>3 DEF PInv, Deltas, NotLate

\* What a tick does.
LEMMA TickFacts ==
  ASSUME Punctual, TInv, PInv, Tick, CountBusy
  PROVE  /\ counter' = IF counter = W - 1 THEN 0 ELSE counter + 1
         /\ Busy => Busy' /\ busy' = busy + 1
         /\ ~Busy => busy = 0 /\ busy' = 0
         /\ Since + 1 < W => Since' = Since + 1
         /\ list # <<>> => Since + 1 < W
         /\ \A t \in Names(list) : due'[t] = due[t] - 1
         /\ \A c \in Contexts : timer[c] \in Timers => due'[timer[c]] = due[timer[c]] - 1
<1>n. Numeric
  BY Bounds
<1>1. counter' = IF counter = W - 1 THEN 0 ELSE counter + 1
  <2>1. counter' = Wrap(counter + 1) /\ counter \in Counts /\ 1 \in 0 .. W
    BY <1>n DEF Tick, TInv, Flat, Numeric
  <2>2. Wrap(counter + 1) = IF counter + 1 < W THEN counter + 1 ELSE counter + 1 - W
    BY <2>1, WrapSum
  <2>3. QED
    BY <2>1, <2>2, <1>n DEF Numeric
<1>2. counter' # counter
  BY <1>1, <1>n DEF Numeric
<1>3. Busy => Busy' /\ busy < MaxBusy
  BY DEF Tick, Busy, calls, handling
<1>4. ~Busy => busy = 0
  BY DEF TInv, Paused
<1>5. (Busy => Busy' /\ busy' = busy + 1) /\ (~Busy => busy = 0 /\ busy' = 0)
  BY <1>2, <1>3, <1>4, <1>n DEF CountBusy, Numeric
<1>6. Since + 1 < W => Since' = Since + 1
  <2>1. last' = last /\ counter' \in Counts /\ counter \in Counts /\ last \in Counts
    BY <1>1, <1>n DEF Tick, TInv, Flat, Counts, Numeric
  <2>2. Since = IF counter < last THEN counter - last + W ELSE counter - last
    BY <2>1, WrapDifference DEF Since
  <2>3. Since' = IF counter' < last THEN counter' - last + W ELSE counter' - last
    BY <2>1, WrapDifference DEF Since
  <2>4. QED
    BY <1>1, <2>2, <2>3, <1>n DEF Numeric
<1>7. list # <<>> => Since + 1 < W
  <2>1. SUFFICES ASSUME list # <<>> PROVE Since + 1 < W
    OBVIOUS
  <2>2. /\ list[1].delta \in Nat /\ list[1].delta <= (W \div 2) + MaxBusy
        /\ Since <= list[1].delta + 4 + busy
    BY <2>1, FirstTimer
  <2>3. QED
    BY <2>2, <1>n DEF Numeric
<1>8. \A t \in Names(list) : due'[t] = due[t] - 1
  BY ListedNames DEF Tick, TInv
<1>9. \A c \in Contexts : timer[c] \in Timers => due'[timer[c]] = due[timer[c]] - 1
  BY DEF Tick, Contexts
<1>10. QED
  BY <1>1, <1>5, <1>6, <1>7, <1>8, <1>9

\* A time less than a wrap away is a wrap more or less from what it is a count of.
LEMMA Multiples ==
  ASSUME NEW e \in Nat, e < W, NEW c \in Nat, c < W, NEW d \in Int, -W < d, d < W,
         e - c - d \in {-2 * W, -W, 0, W, 2 * W}
  PROVE  e - c - d \in {-W, 0, W}
  BY Numbers

\* How far from now a timer of the list may be due.
LEMMA DueBounds ==
  ASSUME Punctual, TInv, PInv, NEW i \in 1 .. Len(list)
  PROVE  /\ due[list[i].timer] \in Int
         /\ -W < due[list[i].timer] - 1 /\ due[list[i].timer] < W
         /\ due[list[i].timer] + Since <= (W \div 2) + MaxBusy + Slack(list[i].timer)
         /\ due[list[i].timer] >= -MaxLate
<1>n. Numeric
  BY Bounds
<1> DEFINE t == list[i].timer
           u == Until(list, i)
           s == Slack(t)
           d == due[t]
<1>1. t \in Timers /\ u \in Nat /\ Told(t, u) /\ d >= -(4 + busy + s)
  BY OfList
<1>2. d \in Int /\ s \in Nat /\ s <= MaxBusy
  BY <1>1, TimerTypes
<1>3. u >= Clip(d + Since - s) /\ u <= (W \div 2) + MaxBusy
  BY <1>1 DEF Told
<1> HIDE DEF t, u, s, d
<1>4. d + Since - s <= u
  <2>1. Since \in Nat
    BY <1>n DEF Numeric
  <2>2. QED
    BY <1>1, <1>2, <1>3, <2>1, SMTT(60) DEF Clip
<1>5. d >= -MaxLate /\ d + Since <= (W \div 2) + MaxBusy + s
  BY <1>1, <1>2, <1>3, <1>4, <1>n DEF Numeric
<1>6. -W < d - 1 /\ d < W
  <2>1. /\ W \in Nat /\ W \div 2 \in Nat /\ 2 * (W \div 2) <= W /\ MaxBusy \in Nat
        /\ MaxLate = 4 + 2 * MaxBusy /\ MaxLate + 2 <= W \div 2 /\ Since \in Nat
    BY <1>n DEF Numeric
  <2>2. QED
    BY <1>2, <1>5, <2>1
<1>7. QED
  BY <1>2, <1>5, <1>6 DEF s, d, t

LEMMA TickFollows ==
  ASSUME Punctual, TInv, PInv, Tick, CountBusy, NEW t \in Timers,
         Follows(t), due'[t] = due[t] - 1, -W < due[t] - 1, due[t] < W
  PROVE  Follows(t)'
<1>n. Numeric
  BY Bounds
<1> DEFINE e == handle[t].expected
           d == due[t]
<1>1. e \in Nat /\ e < W /\ d \in Int
  BY TimerTypes
<1>2. e - counter - d \in {-W, 0, W}
  BY DEF Follows
<1>3. -W < d - 1 /\ d < W
  OBVIOUS
<1>4. Follows(t)' <=> e - counter' - (d - 1) \in {-W, 0, W}
  BY DEF Follows, Tick
<1> HIDE DEF e, d
<1>5. counter' = IF counter = W - 1 THEN 0 ELSE counter + 1
  BY TickFacts
<1>6. e - counter' - (d - 1) \in {-2 * W, -W, 0, W, 2 * W}
  BY <1>1, <1>2, <1>5, <1>n DEF Numeric
<1>7. counter' \in Nat /\ counter' < W /\ d - 1 \in Int /\ d - 1 < W
  BY <1>1, <1>3, <1>5, <1>n DEF Numeric
<1>8. e - counter' - (d - 1) \in {-W, 0, W}
  BY <1>1, <1>3, <1>6, <1>7, Multiples
<1>9. QED
  BY <1>4, <1>8

\* The compare register comes nearer, or matches.
LEMMA TickAhead ==
  ASSUME Punctual, TInv, PInv, Tick, CountBusy
  PROVE  /\ counter = compare => Ahead = 0
         /\ counter # compare => Ahead >= 1 /\ Ahead' = Ahead - 1
<1>n. Numeric
  BY Bounds
<1>1. compare' = compare /\ counter' \in Counts /\ counter \in Counts /\ compare \in Counts
  BY TickFacts, <1>n DEF Tick, TInv, Flat, Counts, Numeric
<1>2. Ahead = IF compare < counter THEN compare - counter + W ELSE compare - counter
  BY <1>1, WrapDifference DEF Ahead
<1>3. Ahead' = IF compare < counter' THEN compare - counter' + W ELSE compare - counter'
  BY <1>1, WrapDifference DEF Ahead
<1>4. counter' = IF counter = W - 1 THEN 0 ELSE counter + 1
  BY TickFacts
<1>5. QED
  BY <1>2, <1>3, <1>4, <1>n DEF Numeric

LEMMA TickKeeps ==
  ASSUME Punctual, TInv, PInv, Tick, CountBusy
  PROVE  PInv'
<1>n. Numeric
  BY Bounds
<1>1. /\ list' = list /\ last' = last /\ handle' = handle /\ at' = at /\ timer' = timer
      /\ timeout' = timeout /\ irq' = irq /\ channel' = channel /\ enabled' = enabled
      /\ matched' = (matched \/ (channel /\ counter = compare))
  BY DEF Tick, calls, handling
<1>2. /\ Busy => Busy' /\ busy' = busy + 1
      /\ ~Busy => busy = 0 /\ busy' = 0
      /\ Since + 1 < W => Since' = Since + 1
      /\ list # <<>> => Since + 1 < W
      /\ \A t \in Names(list) : due'[t] = due[t] - 1
      /\ \A c \in Contexts : timer[c] \in Timers => due'[timer[c]] = due[timer[c]] - 1
  BY TickFacts
<1>3. Names(list)' = Names(list) /\ \A t : Slack(t)' = Slack(t)
  BY <1>1 DEF Names, Slack
<1>4. Handles'
  BY <1>1 DEF PInv, Handles
<1>5. Starting'
  <2>1. SUFFICES ASSUME NEW c \in Contexts, at[c] = "insert"
                 PROVE  /\ timeout[c] >= 1 /\ timeout[c] - busy' <= due'[timer[c]]
                        /\ due'[timer[c]] <= timeout[c]
                        /\ handle[timer[c]].period # 0 => Follows(timer[c])'
    BY <1>1 DEF Starting
  <2>2. PICK t \in Timers : t = timer[c]
    BY <2>1, ToInsert
  <2> DEFINE n == timeout[c]
             d == due[t]
  <2>3. n >= 1 /\ n - busy <= d /\ d <= n
    BY <2>1, <2>2 DEF PInv, Starting
  <2>4. handle[t].period # 0 => Follows(t)
    BY <2>1, <2>2 DEF PInv, Starting
  <2>5. n \in Nat /\ n <= W \div 2 /\ d \in Int /\ due'[t] = d - 1
    BY <1>2, <2>1, <2>2, ToInsert, TimerTypes
  <2>6. Busy
    BY <2>1 DEF Busy, TInv, Turns, Contexts, Task, Isr
  <2>7. busy' = busy + 1
    BY <1>2, <2>6
  <2>8. n - busy' <= d - 1 /\ d - 1 <= n /\ -W < d - 1 /\ d < W
    <3> HIDE DEF n, d
    <3>1. QED
      BY <2>3, <2>5, <2>7, <1>n DEF Numeric
  <2>9. Follows(t) => Follows(t)'
    BY <2>5, <2>8, TickFollows
  <2>10. timer'[c] = t /\ Follows(timer[c])' = Follows(t)'
    BY <1>1, <2>2 DEF Follows
  <2>11. QED
    BY <2>2, <2>3, <2>4, <2>5, <2>8, <2>9, <2>10
<1>6. Fresh'
  <2>1. irq \in {"ring", "call", "called", "finish", "set"} => Since' <= busy'
    <3>1. SUFFICES ASSUME irq \in {"ring", "call", "called", "finish", "set"}
                   PROVE  Since' <= busy'
      OBVIOUS
    <3>2. Since <= busy /\ Busy
      BY <3>1 DEF PInv, Fresh, Busy
    <3>3. QED
      BY <1>2, <3>2, <1>n DEF Numeric
  <2>2. irq \in {"finish", "set"} \/ at[Task] = "compare" => Since' <= 1
    <3>1. SUFFICES ASSUME irq \in {"finish", "set"} \/ at[Task] = "compare"
                   PROVE  Since' <= 1
      OBVIOUS
    <3>2. InSection
      BY <3>1 DEF InSection
    <3>3. Since < MaxStall
      BY <3>2 DEF Tick
    <3>4. QED
      BY <1>2, <3>3, <1>n DEF Numeric
  <2>3. list # <<>> => Since' <= list[1].delta + 4 + busy'
    <3>1. SUFFICES ASSUME list # <<>> PROVE Since' <= list[1].delta + 4 + busy'
      OBVIOUS
    <3>2. list[1].delta \in Nat /\ Since <= list[1].delta + 4 + busy
      BY <3>1, FirstTimer
    <3>3. Since' = Since + 1
      BY <1>2, <3>1
    <3>4. CASE Busy
      BY <1>2, <3>2, <3>3, <3>4, <1>n DEF Numeric
    <3>5. CASE ~Busy
      <4>1. irq = "none" /\ at[Task] # "compare" /\ ~(matched /\ enabled)
        BY <3>5 DEF Busy
      <4>2. Since + Ahead <= list[1].delta + 3
        BY <3>1, <4>1 DEF PInv, Armed
      <4>3. QED
        BY <1>2, <3>2, <3>3, <3>5, <4>2, <1>n DEF Numeric
    <3>6. QED
      BY <3>4, <3>5
  <2>4. QED
    BY <1>1, <2>1, <2>2, <2>3 DEF Fresh
<1>7. Deltas'
  <2>1. SUFFICES ASSUME NEW i \in 1 .. Len(list)
                 PROVE  Told(list[i].timer, Until(list, i))'
    BY <1>1 DEF Deltas
  <2>2. PICK t \in Timers : t = list[i].timer
    BY OfList
  <2>3. PICK u \in Nat : u = Until(list, i)
    BY OfList
  <2>4. t \in Names(list) /\ list # <<>> /\ Told(t, u)
    BY <2>2, <2>3, OfList
  <2>5. due[t] \in Int /\ -W < due[t] - 1 /\ due[t] < W
    BY <2>2, DueBounds
  <2>6. due'[t] = due[t] - 1 /\ Since' = Since + 1
    BY <1>2, <2>4
  <2>7. due'[t] + Since' = due[t] + Since
    BY <2>5, <2>6, <1>n DEF Numeric
  <2>8. Follows(t) => Follows(t)'
    BY <2>5, <2>6, TickFollows
  <2>9. Slack(t)' = Slack(t) /\ handle'[t].period = handle[t].period
    BY <1>1, <1>3
  <2>10. Slack(t) \in Nat
    BY TimerTypes
  <2>11. due'[t] + Since' + Slack(t) = due[t] + Since + Slack(t)
         /\ due'[t] + Since' - Slack(t) = due[t] + Since - Slack(t)
    <3> DEFINE d == due[t]
               k == Slack(t)
    <3>1. d \in Int /\ k \in Nat /\ Since \in Nat
      BY <2>5, <2>10, <1>n DEF Numeric
    <3>2. due'[t] = d - 1 /\ Since' = Since + 1
      BY <2>6
    <3> HIDE DEF d, k
    <3>3. due'[t] + Since' + k = d + Since + k /\ due'[t] + Since' - k = d + Since - k
      BY <3>1, <3>2
    <3>4. QED
      BY <3>3 DEF d, k
  <2>12. Told(t, u)'
    BY <2>4, <2>8, <2>9, <2>11 DEF Told
  <2>13. list'[i].timer = t /\ Until(list, i)' = u
    BY <1>1, <2>2, <2>3
  <2>14. QED
    BY <2>12, <2>13 DEF Told, Slack, Follows
<1>8. NotLate'
  <2>1. SUFFICES ASSUME NEW t \in Names(list)
                 PROVE  due[t] - 1 >= -(4 + busy' + Slack(t))
    BY <1>2, <1>3 DEF NotLate
  <2>2. t \in Timers /\ due[t] >= -(4 + busy + Slack(t)) /\ list # <<>>
    BY ListedNames DEF TInv, PInv, NotLate, Names
  <2>3. due[t] \in Int /\ Slack(t) \in Nat
    BY <2>2, TimerTypes
  <2>4. CASE Busy
    BY <1>2, <2>2, <2>3, <2>4, <1>n DEF Numeric
  <2>5. CASE ~Busy
    <3>1. irq = "none" /\ at[Task] # "compare" /\ ~(matched /\ enabled)
      BY <2>5 DEF Busy
    <3>2. Ahead <= due[t] + 3 + Slack(t)
      BY <2>2, <3>1 DEF PInv, Armed
    <3>3. QED
      BY <1>2, <2>3, <2>5, <3>2, <1>n DEF Numeric
  <2>6. QED
    BY <2>4, <2>5
<1>9. Armed'
  <2>1. SUFFICES ASSUME list # <<>>, irq = "none", at[Task] # "compare"
                 PROVE  /\ enabled
                        /\ matched' \/ /\ channel
                                       /\ Since' + Ahead' <= list[1].delta + 3
                                       /\ \A t \in Names(list) :
                                            Ahead' <= due'[t] + 3 + Slack(t)
    BY <1>1, <1>3 DEF Armed
  <2>2. enabled /\ (matched \/ /\ channel
                               /\ Since + Ahead <= list[1].delta + 3
                               /\ \A t \in Names(list) : Ahead <= due[t] + 3 + Slack(t))
    BY <2>1 DEF PInv, Armed
  <2>3. CASE matched \/ counter = compare
    BY <1>1, <2>2, <2>3
  <2>4. CASE ~(matched \/ counter = compare)
    <3>1. Ahead >= 1 /\ Ahead' = Ahead - 1
      BY <2>4, TickAhead
    <3>2. Since' = Since + 1 /\ list[1].delta \in Nat
      BY <1>2, <2>1, FirstTimer
    <3>3. Since' + Ahead' <= list[1].delta + 3
      BY <2>2, <2>4, <3>1, <3>2, <1>n DEF Numeric
    <3>4. ASSUME NEW t \in Names(list) PROVE Ahead' <= due'[t] + 3 + Slack(t)
      <4>1. t \in Timers
        BY ListedNames DEF TInv
      <4>2. due[t] \in Int /\ Slack(t) \in Nat /\ due'[t] = due[t] - 1
        BY <1>2, <4>1, TimerTypes
      <4>3. Ahead <= due[t] + 3 + Slack(t)
        BY <2>2, <2>4
      <4>4. QED
        BY <3>1, <4>2, <4>3, <1>n DEF Numeric
    <3>5. QED
      BY <2>2, <2>4, <3>3, <3>4
  <2>5. QED
    BY <2>3, <2>4
<1>10. QED
  BY <1>4, <1>5, <1>6, <1>7, <1>8, <1>9 DEF PInv

\* What a step other than a tick leaves of a timer: when it is due.
Same(t) ==
  /\ counter' = counter /\ due'[t] = due[t]
  /\ handle'[t].period = handle[t].period /\ handle'[t].expected = handle[t].expected

LEMMA SameIs ==
  ASSUME NEW t, Same(t)
  PROVE  /\ Slack(t)' = Slack(t) /\ Follows(t)' = Follows(t)
         /\ handle'[t].period = handle[t].period /\ due'[t] = due[t]
  BY DEF Same, Slack, Follows

LEMMA AllSame ==
  ASSUME counter' = counter, due' = due, handle' = handle
  PROVE  \A t \in Timers : Same(t)
  BY DEF Same

LEMMA ForgetSame ==
  ASSUME TInv, NEW t \in Timers, Forget(t), counter' = counter
  PROVE  \A x \in Timers \ {t} : Same(x)
  BY DEF Forget, Same, TInv, Flat

LEMMA StartSame ==
  ASSUME TInv, NEW c \in Contexts, NEW t \in Timers, Start(c, t)
  PROVE  \A x \in Timers \ {t} : Same(x)
  BY DEF Start, Same, hardware, TInv, Flat

LEMMA StartRunningSame ==
  ASSUME TInv, NEW c \in Contexts, NEW t \in Timers, StartRunning(c, t)
  PROVE  /\ \A x \in Timers : Same(x)
         /\ \A x \in Timers : handle'[x].error \in {0, handle[x].error}
<1>1. handle \in [Timers -> HandleType] /\ counter' = counter /\ due' = due
      /\ handle' = [handle EXCEPT ![t].error = 0, ![t].sum = 0]
  BY DEF StartRunning, hardware, TInv, Flat
<1>2. handle' = [handle EXCEPT ![t] = [handle[t] EXCEPT !.error = 0, !.sum = 0]]
  BY <1>1
<1>3. handle[t] \in HandleType
  BY <1>1
<1>4. [handle[t] EXCEPT !.error = 0, !.sum = 0].period = handle[t].period
      /\ [handle[t] EXCEPT !.error = 0, !.sum = 0].expected = handle[t].expected
      /\ [handle[t] EXCEPT !.error = 0, !.sum = 0].error = 0
  BY <1>3 DEF HandleType
<1>5. QED
  BY <1>1, <1>2, <1>4 DEF Same

LEMMA InsertSame ==
  ASSUME TInv, NEW c \in Contexts, Insert(c)
  PROVE  \A x \in Timers \ {timer[c]} : Same(x)
  BY DEF Insert, Same, hardware, TInv, Flat

LEMMA StopSame ==
  ASSUME TInv, NEW c \in Contexts, NEW t \in Timers, Stop(c, t)
  PROVE  /\ \A x \in Timers \ {t} : Same(x)
         /\ t \notin Names(list) => Same(t)
<1>1. counter' = counter /\ Listed = Names(list)
  BY ListedNames DEF Stop, TInv
<1>2. QED
  BY <1>1, ForgetSame, AllSame DEF Stop

\* The timer that rings, and what is written to it if it is periodic.
LEMMA RingSame ==
  ASSUME TInv, Ring \/ RingAgain \/ RingPeriodic
  PROVE  /\ ringing' = list[FirstToRing(list)].timer
         /\ ringing' \in Timers /\ ringing' \in Names(list)
         /\ FirstToRing(list) \in 1 .. Len(list) /\ Until(list, FirstToRing(list)) = 0
         /\ irq = "ring" /\ irq' = "call" /\ last' = last /\ counter' = counter
         /\ \A x \in Timers : x # ringing' => Same(x)
<1>1. ringing' = list[FirstToRing(list)].timer /\ irq = "ring" /\ irq' = "call"
      /\ last' = last /\ counter' = counter
  BY DEF Ring, RingAgain, RingPeriodic, Irq, hardware
<1>2. PICK t \in Timers : t = ringing'
  BY <1>1, ToRing
<1>3. /\ FirstToRing(list) \in 1 .. Len(list) /\ Until(list, FirstToRing(list)) = 0
      /\ t \in Names(list)
  BY <1>1, <1>2, ToRing
<1>4. handle \in [Timers -> HandleType] /\ due \in [Timers -> Int]
  BY DEF TInv, Flat
<1>5. ASSUME Ring PROVE \A x \in Timers : x # t => Same(x)
  BY <1>1, <1>2, <1>5, ForgetSame DEF Ring
<1>6. ASSUME RingAgain PROVE \A x \in Timers : x # t => Same(x)
  <2>1. /\ handle' = [handle EXCEPT ![t].expected = Wrap(@ + handle[t].period)]
        /\ due' = [due EXCEPT ![t] = @ + handle[t].period]
    BY <1>1, <1>2, <1>6 DEF RingAgain
  <2>2. QED
    BY <1>1, <1>2, <1>4, <2>1 DEF Same
<1>7. ASSUME RingPeriodic PROVE \A x \in Timers : x # t => Same(x)
  <2> DEFINE total == handle[t].sum + handle[t].error
             spare == IF total >= 1000 THEN 1 ELSE 0
             rest == total - 1000 * spare
  <2>1. handle' = [handle EXCEPT ![t].expected = Wrap(@ - spare + handle[t].period),
                                 ![t].sum = rest]
        /\ due' = [due EXCEPT ![t] = @ - spare + handle[t].period]
    BY <1>1, <1>2, <1>7 DEF RingPeriodic
  <2> HIDE DEF spare, rest
  <2>2. \A x \in Timers : x # t => handle'[x] = handle[x] /\ due'[x] = due[x]
    BY <1>4, <2>1
  <2>3. QED
    BY <1>1, <1>2, <2>2 DEF Same
<1>8. QED
  BY <1>1, <1>2, <1>3, <1>5, <1>6, <1>7

\* What is written to the handle of a periodic timer that rings.
LEMMA RingWrites ==
  ASSUME TInv, RingAgain \/ RingPeriodic, NEW t \in Timers, t = ringing'
  PROVE  /\ handle[t].period # 0
         /\ handle'[t].period = handle[t].period /\ handle'[t].error = handle[t].error
         /\ RingAgain =>
              /\ handle'[t].expected = Wrap(handle[t].expected + handle[t].period)
              /\ due'[t] = due[t] + handle[t].period
              /\ Correction(t) > handle[t].period /\ list' = list
         /\ RingPeriodic =>
              /\ handle'[t].expected = Wrap(handle[t].expected - Spare(handle[t]) + handle[t].period)
              /\ due'[t] = due[t] - Spare(handle[t]) + handle[t].period
              /\ Correction(t) <= handle[t].period
              /\ list' = Inserted(Removed(list, FirstToRing(list)), t,
                                  Wrap(handle[t].period - Correction(t) - Spare(handle[t])))
<1>1. ringing' = list[FirstToRing(list)].timer
  BY RingSame
<1>2. handle \in [Timers -> HandleType] /\ due \in [Timers -> Int] /\ handle[t] \in HandleType
  BY DEF TInv, Flat
<1>3. CASE RingAgain
  <2>1. /\ handle[t].period # 0 /\ Correction(t) > handle[t].period /\ list' = list
        /\ handle' = [handle EXCEPT ![t].expected = Wrap(@ + handle[t].period)]
        /\ due' = [due EXCEPT ![t] = @ + handle[t].period]
    BY <1>1, <1>3 DEF RingAgain
  <2> DEFINE n == Wrap(handle[t].expected + handle[t].period)
  <2>2. handle' = [handle EXCEPT ![t] = [handle[t] EXCEPT !.expected = n]]
    BY <2>1
  <2> HIDE DEF n
  <2>3. handle'[t] = [handle[t] EXCEPT !.expected = n]
    BY <1>2, <2>2
  <2>4. handle'[t].expected = n /\ handle'[t].period = handle[t].period
        /\ handle'[t].error = handle[t].error
    BY <1>2, <2>3 DEF HandleType
  <2>5. ~RingPeriodic
    <3>1. RingPeriodic => Correction(t) <= handle[t].period
      BY <1>1 DEF RingPeriodic
    <3>2. Correction(t) \in Int /\ handle[t].period \in Int
      BY CorrectionType DEF TInv
    <3>3. QED
      BY <2>1, <3>1, <3>2
  <2>6. QED
    BY <1>2, <1>3, <2>1, <2>4, <2>5 DEF n
<1>4. CASE RingPeriodic
  <2> DEFINE total == handle[t].sum + handle[t].error
             spare == IF total >= 1000 THEN 1 ELSE 0
             rest == total - 1000 * spare
             n == Wrap(handle[t].expected - spare + handle[t].period)
  <2>1. /\ handle[t].period # 0 /\ Correction(t) <= handle[t].period
        /\ handle' = [handle EXCEPT ![t].expected = Wrap(@ - spare + handle[t].period),
                                    ![t].sum = rest]
        /\ due' = [due EXCEPT ![t] = @ - spare + handle[t].period]
        /\ list' = Inserted(Removed(list, FirstToRing(list)), t,
                            Wrap(handle[t].period - Correction(t) - spare))
    BY <1>1, <1>4 DEF RingPeriodic
  <2>2. spare = Spare(handle[t])
    BY DEF Spare
  <2> HIDE DEF spare, rest
  <2>3. handle' = [handle EXCEPT ![t] = [handle[t] EXCEPT !.expected = n, !.sum = rest]]
    BY <1>2, <2>1
  <2> HIDE DEF n
  <2>4. handle'[t] = [handle[t] EXCEPT !.expected = n, !.sum = rest]
    BY <1>2, <2>3
  <2>5. handle'[t].expected = n /\ handle'[t].period = handle[t].period
        /\ handle'[t].error = handle[t].error
    BY <1>2, <2>4 DEF HandleType
  <2>6. due'[t] = due[t] - spare + handle[t].period
    BY <1>2, <2>1
  <2>7. ~RingAgain
    <3>1. RingAgain => Correction(t) > handle[t].period
      BY <1>1 DEF RingAgain
    <3>2. Correction(t) \in Int /\ handle[t].period \in Int
      BY CorrectionType DEF TInv
    <3>3. QED
      BY <2>1, <3>1, <3>2
  <2>8. QED
    BY <1>4, <2>1, <2>2, <2>5, <2>6, <2>7 DEF n
<1>5. QED
  BY <1>3, <1>4

\* Whether something is still under way.
LEMMA BusyStays ==
  ASSUME Punctual, TInv, CountBusy, counter' = counter
  PROVE  /\ Busy' => busy' = busy
         /\ ~Busy' => busy' = 0
         /\ ~Busy => busy' = busy
<1>1. ~Busy => busy = 0
  BY DEF TInv, Paused
<1>2. QED
  BY <1>1 DEF CountBusy

LEMMA HandlesStep ==
  ASSUME Punctual, TInv, PInv, Turn
  PROVE  Handles'
<1>1. Handles /\ handle \in [Timers -> HandleType]
  BY DEF PInv, TInv, Flat
<1>2. ASSUME handle' = handle PROVE Handles'
  BY <1>1, <1>2 DEF Handles
<1>3. ASSUME NEW t \in Timers, Forget(t) PROVE Handles'
  <2>1. \A x \in Timers : handle'[x] = IF x = t THEN Unused ELSE handle[x]
    BY <1>1, <1>3 DEF Forget
  <2>2. QED
    BY <1>1, <2>1 DEF Handles, Unused
<1>4. ASSUME NEW c \in Contexts, NEW t \in Timers, Start(c, t) PROVE Handles'
  <2>1. PICK r \in Requests[t] : handle' = [handle EXCEPT ![t] =
               [period |-> r.period, error |-> r.error, sum |-> 0,
                expected |-> IF r.period = 0 THEN 0 ELSE Wrap(counter + r.period)]]
    BY <1>4 DEF Start
  <2>2. r.period > 0 /\ r.error > 0 => r.period > MaxLate
    BY DEF Punctual
  <2>3. handle'[t].period = r.period /\ handle'[t].error = r.error
    BY <1>1, <2>1
  <2>4. \A x \in Timers : x # t => handle'[x] = handle[x]
    BY <1>1, <2>1
  <2>5. QED
    BY <1>1, <2>2, <2>3, <2>4 DEF Handles
<1>5. ASSUME NEW c \in Contexts, NEW t \in Timers, StartRunning(c, t) PROVE Handles'
  <2>1. \A x \in Timers : Same(x) /\ handle'[x].error \in {0, handle[x].error}
    BY <1>5, StartRunningSame
  <2>2. \A x \in Timers : handle[x].error \in 0 .. 999
    BY CorrectionType DEF TInv
  <2>3. QED
    BY <1>1, <2>1, <2>2 DEF Handles, Same
<1>6. ASSUME NEW c \in Contexts, NEW t \in Timers, Stop(c, t) PROVE Handles'
  BY <1>2, <1>3, <1>6 DEF Stop
<1>7. ASSUME NEW c \in Contexts, Insert(c) \/ Compare(c) \/ Query(c) PROVE Handles'
  BY <1>2, <1>7 DEF Insert, Compare, Query
<1>8. CASE Interrupted \/ Overflow \/ OverflowSet \/ Update \/ Finish
  BY <1>2, <1>8 DEF Interrupted, Overflow, OverflowSet, Update, Finish
<1>9. CASE Ring
  BY <1>3, <1>9, ToRing DEF Ring, Irq
<1>10. CASE RingAgain \/ RingPeriodic
  <2>1. PICK t \in Timers : t = ringing'
    BY <1>10, RingSame
  <2>2. handle'[t].period = handle[t].period /\ handle'[t].error = handle[t].error
    BY <1>10, <2>1, RingWrites
  <2>3. \A x \in Timers : x # t => handle'[x] = handle[x]
    BY <1>1, <1>10, <2>1 DEF RingAgain, RingPeriodic
  <2>4. QED
    BY <1>1, <2>2, <2>3 DEF Handles
<1>11. QED
  BY <1>4, <1>5, <1>6, <1>7, <1>8, <1>9, <1>10 DEF Turn, Handler, Call

\* A timer that is still to be inserted is not touched.
LEMMA StartingSame ==
  ASSUME TInv, Turn, NEW c \in Contexts, at[c] = "insert", at'[c] = "insert"
  PROVE  timer'[c] = timer[c] /\ timeout'[c] = timeout[c] /\ Same(timer[c])
<1>1. /\ timer[c] \in Timers /\ timer[c] \notin Names(list) /\ None \notin Timers
      /\ at \in [Contexts -> {"idle", "insert", "compare"}]
      /\ timer \in [Contexts -> Timers \cup {None}]
      /\ timeout \in [Contexts -> 0 .. W \div 2]
      /\ Contexts = {Task, Isr} /\ Task # Isr
  BY ToInsert, ConstantsAssumption DEF TInv, Flat, Contexts, Task, Isr
<1>2. c = Isr => irq = "called"
  BY <1>1 DEF TInv, Turns
<1>3. \A d \in Contexts : d # c => timer[d] # timer[c]
  BY <1>1 DEF TInv, Turns
<1>4. ASSUME NEW d \in Contexts, NEW t \in Timers, Start(d, t)
      PROVE  timer'[c] = timer[c] /\ timeout'[c] = timeout[c] /\ Same(timer[c])
  <2>1. at[d] = "idle" /\ t # timer[Task] /\ (d = Task => irq = "none")
    BY <1>4 DEF Start, MayCall
  <2>2. c # d /\ t # timer[c]
    BY <1>1, <1>2, <2>1
  <2>3. Same(timer[c])
    BY <1>1, <1>4, <2>2, StartSame
  <2>4. timer'[c] = timer[c] /\ timeout'[c] = timeout[c]
    BY <1>1, <1>4, <2>2 DEF Start
  <2>5. QED
    BY <2>3, <2>4
<1>5. ASSUME NEW d \in Contexts, NEW t \in Timers, StartRunning(d, t)
      PROVE  timer'[c] = timer[c] /\ timeout'[c] = timeout[c] /\ Same(timer[c])
  BY <1>1, <1>5, StartRunningSame DEF StartRunning, calls
<1>6. ASSUME NEW d \in Contexts, NEW t \in Timers, Stop(d, t)
      PROVE  timer'[c] = timer[c] /\ timeout'[c] = timeout[c] /\ Same(timer[c])
  <2>1. Same(timer[c])
    BY <1>1, <1>6, StopSame
  <2>2. QED
    BY <1>6, <2>1 DEF Stop
<1>7. ASSUME NEW d \in Contexts, Insert(d)
      PROVE  timer'[c] = timer[c] /\ timeout'[c] = timeout[c] /\ Same(timer[c])
  <2>1. at'[d] # "insert"
    BY <1>1, <1>7 DEF Insert, Goes
  <2>2. c # d /\ timer[c] # timer[d]
    BY <1>3, <2>1
  <2>3. Same(timer[c])
    BY <1>1, <1>7, <2>2, InsertSame
  <2>4. QED
    BY <1>1, <1>7, <2>2, <2>3 DEF Insert
<1>8. ASSUME NEW d \in Contexts, Compare(d) \/ Query(d)
      PROVE  timer'[c] = timer[c] /\ timeout'[c] = timeout[c] /\ Same(timer[c])
  BY <1>1, <1>8, AllSame DEF Compare, Query, hardware, calls
<1>9. ASSUME Interrupted \/ Overflow \/ OverflowSet \/ Update \/ Finish
      PROVE  timer'[c] = timer[c] /\ timeout'[c] = timeout[c] /\ Same(timer[c])
  BY <1>1, <1>9, AllSame
     DEF Interrupted, Overflow, OverflowSet, Update, Finish, hardware, calls
<1>10. ASSUME Ring \/ RingAgain \/ RingPeriodic
       PROVE  timer'[c] = timer[c] /\ timeout'[c] = timeout[c] /\ Same(timer[c])
  <2>1. ringing' \in Names(list) /\ \A x \in Timers : x # ringing' => Same(x)
    BY <1>10, RingSame
  <2>2. Same(timer[c])
    BY <1>1, <2>1
  <2>3. QED
    BY <1>10, <2>2 DEF Ring, RingAgain, RingPeriodic, calls
<1>11. QED
  BY <1>4, <1>5, <1>6, <1>7, <1>8, <1>9, <1>10 DEF Turn, Handler, Call

LEMMA StartingStep ==
  ASSUME Punctual, TInv, TInv', PInv, Turn, CountBusy
  PROVE  Starting'
<1>n. Numeric
  BY Bounds
<1>1. SUFFICES ASSUME NEW c \in Contexts, at'[c] = "insert"
               PROVE  /\ timeout'[c] >= 1 /\ timeout'[c] - busy' <= due'[timer'[c]]
                      /\ due'[timer'[c]] <= timeout'[c]
                      /\ handle'[timer'[c]].period # 0 => Follows(timer[c])'
  BY DEF Starting
<1>2. at \in [Contexts -> {"idle", "insert", "compare"}]
      /\ timer \in [Contexts -> Timers \cup {None}]
      /\ timeout \in [Contexts -> 0 .. W \div 2]
      /\ handle \in [Timers -> HandleType] /\ due \in [Timers -> Int]
  BY DEF TInv, Flat
<1>3. counter' = counter
  BY OnlyTickCounts
<1>4. CASE at[c] = "insert"
  <2>1. timer'[c] = timer[c] /\ timeout'[c] = timeout[c] /\ Same(timer[c])
    BY <1>1, <1>4, StartingSame
  <2>2. PICK t \in Timers : t = timer[c]
    BY <1>4, ToInsert
  <2>3. Same(t) /\ timer'[c] = t
    BY <2>1, <2>2
  <2>4. due'[t] = due[t] /\ handle'[t].period = handle[t].period /\ Follows(t)' = Follows(t)
    BY <2>3, SameIs
  <2>5. Busy'
    BY <1>1 DEF TInv, Turns, Busy, Contexts, Task, Isr
  <2>6. busy' = busy
    BY <1>3, <2>5, BusyStays
  <2>7. /\ timeout[c] >= 1 /\ timeout[c] - busy <= due[t] /\ due[t] <= timeout[c]
        /\ handle[t].period # 0 => Follows(t)
    BY <1>4, <2>2 DEF PInv, Starting
  <2>8. Follows(timer[c])' = Follows(t)'
    BY <2>3 DEF Follows
  <2>9. QED
    BY <2>1, <2>3, <2>4, <2>6, <2>7, <2>8
<1>5. CASE at[c] # "insert"
  <2>1. \E t \in Timers : Start(c, t)
    <3>1. ASSUME NEW d \in Contexts, NEW t \in Timers, Start(d, t), d # c PROVE FALSE
      BY <1>1, <1>2, <1>5, <3>1 DEF Start, Goes
    <3>2. ASSUME NEW d \in Contexts, NEW t \in Timers, StartRunning(d, t) \/ Stop(d, t)
          PROVE  FALSE
      BY <1>1, <1>2, <1>5, <3>2 DEF StartRunning, Stop, Goes, calls
    <3>3. ASSUME NEW d \in Contexts, Insert(d) \/ Compare(d) \/ Query(d) PROVE FALSE
      BY <1>1, <1>2, <1>5, <3>3 DEF Insert, Compare, Query, Goes, calls
    <3>4. ASSUME Handler PROVE FALSE
      BY <1>1, <1>5, <3>4 DEF Handler, Interrupted, Overflow, OverflowSet, Update, Ring,
           RingAgain, RingPeriodic, Finish, calls
    <3>5. QED
      BY <3>1, <3>2, <3>3, <3>4 DEF Turn, Call
  <2>2. PICK t \in Timers : Start(c, t)
    BY <2>1
  <2>3. PICK r \in Requests[t] :
          /\ timeout' = [timeout EXCEPT ![c] = r.timeout]
          /\ handle' = [handle EXCEPT ![t] =
               [period |-> r.period, error |-> r.error, sum |-> 0,
                expected |-> IF r.period = 0 THEN 0 ELSE Wrap(counter + r.period)]]
          /\ due' = [due EXCEPT ![t] = r.timeout]
    BY <2>2 DEF Start
  <2>4. r.timeout \in 1 .. W \div 2 /\ r.period \in {0, r.timeout}
    BY RequestType
  <2>5. timer'[c] = t /\ timeout'[c] = r.timeout /\ due'[t] = r.timeout
    BY <1>2, <2>2, <2>3 DEF Start
  <2>6. handle'[t].period = r.period
        /\ handle'[t].expected = IF r.period = 0 THEN 0 ELSE Wrap(counter + r.period)
    BY <1>2, <2>3
  <2>7. busy' \in Nat
    BY <1>n DEF TInv, Paused, Numeric
  <2> DEFINE n == r.timeout
  <2>8. n >= 1 /\ n - busy' <= n /\ n <= n
    BY <1>n, <2>4, <2>7 DEF Numeric
  <2>9. n \in 0 .. W /\ counter \in Counts
    BY <1>n, <2>4 DEF Numeric, Counts
  <2>10. Wrap(counter + n) = IF counter + n < W THEN counter + n ELSE counter + n - W
    BY <2>9, WrapSum
  <2>11. Wrap(counter + n) - counter - n \in {-W, 0, W}
    <3>1. n \in Int
      BY <2>9
    <3> HIDE DEF n
    <3>2. QED
      BY <1>n, <2>10, <3>1 DEF Numeric
  <2>12. handle'[t].period # 0 => Follows(t)'
    BY <1>3, <2>4, <2>5, <2>6, <2>11 DEF Follows
  <2>13. Follows(timer[c])' = Follows(t)'
    BY <2>5 DEF Follows
  <2>14. QED
    BY <2>5, <2>8, <2>12, <2>13
<1>6. QED
  BY <1>4, <1>5

\* A list brought up to date is as fresh as can be.
LEMMA NowFresh ==
  ASSUME Punctual, TInv, counter' = counter, last' = counter
  PROVE  Since' = 0
<1>1. counter \in Counts
  BY DEF TInv, Flat
<1>2. Wrap(counter - counter) = 0
  BY <1>1, WrapDifference, Numbers DEF Counts
<1>3. QED
  BY <1>2 DEF Since

LEMMA SinceSame ==
  ASSUME counter' = counter, last' = last
  PROVE  Since' = Since /\ (compare' = compare => Ahead' = Ahead)
  BY DEF Since, Ahead

LEMMA FreshStep ==
  ASSUME Punctual, TInv, TInv', PInv, Turn, CountBusy
  PROVE  Fresh'
<1>n. Numeric
  BY Bounds
<1>1. counter' = counter
  BY OnlyTickCounts
<1>2. busy' \in Nat /\ (list' # <<>> => list'[1].delta \in Nat)
  <2>1. busy' \in Nat
    BY <1>n DEF TInv, Paused, Numeric
  <2>2. list' \in Seq(Entry)
    BY DEF TInv, Lists, Good
  <2>3. QED
    BY <2>1, <2>2, HeadIsFirst
<1>3. (Busy' => busy' = busy) /\ (~Busy => busy' = busy)
  BY <1>1, BusyStays
<1>4. /\ irq \in {"ring", "call", "called", "finish", "set"} => Since <= busy
      /\ irq \in {"finish", "set"} \/ at[Task] = "compare" => Since <= 1
      /\ list # <<>> => Since <= list[1].delta + 4 + busy
  BY DEF PInv, Fresh
<1>5. /\ at[Isr] # "idle" => irq = "called"
      /\ at[Task] = "compare" => irq = "none"
      /\ at \in [Contexts -> {"idle", "insert", "compare"}]
      /\ Contexts = {Task, Isr} /\ Task # Isr /\ Task \in Contexts
  BY DEF TInv, Turns, Flat, Contexts, Task, Isr
<1>6. ASSUME last' = counter PROVE Fresh'
  <2>1. Since' = 0
    BY <1>1, <1>6, NowFresh
  <2>2. list' # <<>> => 0 <= list'[1].delta + 4 + busy'
    BY <1>2
  <2>3. QED
    BY <1>2, <2>1, <2>2 DEF Fresh
<1>7. ASSUME last' = last, list' = list, Since <= 1,
             irq' \in {"none", "overflow", "update"}, at'[Task] # "compare"
      PROVE  Fresh'
  <2>1. Since' = Since
    BY <1>1, <1>7, SinceSame
  <2>2. list' # <<>> => Since <= list'[1].delta + 4 + busy'
    <3>1. SUFFICES ASSUME list' # <<>> PROVE Since <= list'[1].delta + 4 + busy'
      OBVIOUS
    <3>2. list'[1].delta \in Nat
      BY <1>2, <3>1
    <3>3. QED
      BY <1>n, <1>2, <1>7, <3>2 DEF Numeric
  <2>3. QED
    BY <1>7, <2>1, <2>2 DEF Fresh
<1>8. ASSUME last' = last, list' = list, busy' = busy, irq' = irq \/ irq' \in {"overflow", "update"}
               \/ (irq = "call" /\ irq' = "called"),
             at'[Task] = "compare" => at[Task] = "compare"
      PROVE  Fresh'
  <2>1. Since' = Since
    BY <1>1, <1>8, SinceSame
  <2>2. QED
    BY <1>4, <1>8, <2>1 DEF Fresh
<1>9. ASSUME NEW c \in Contexts, NEW t \in Timers, Start(c, t) PROVE Fresh'
  <2>1. at'[c] = "insert" /\ at' = [at EXCEPT ![c] = "insert"]
    BY <1>5, <1>9 DEF Start, Goes
  <2>2. irq' = irq \/ (irq = "call" /\ irq' = "called")
    BY <1>9 DEF Start, Called, MayCall
  <2>3. Busy'
    BY <1>5, <1>9, <2>1 DEF Busy, Start, Called
  <2>4. at'[Task] = "compare" => at[Task] = "compare"
    BY <1>5, <2>1
  <2>5. QED
    BY <1>3, <1>8, <1>9, <2>2, <2>3, <2>4 DEF Start
<1>10. ASSUME NEW c \in Contexts, NEW t \in Timers, StartRunning(c, t) PROVE Fresh'
  <2>1. irq' = irq \/ (irq = "call" /\ irq' = "called")
    BY <1>10 DEF StartRunning, Called, MayCall
  <2>2. Busy => Busy'
    BY <1>5, <1>10 DEF Busy, StartRunning, Called, calls, hardware
  <2>3. QED
    BY <1>3, <1>8, <1>10, <2>1, <2>2 DEF StartRunning, calls
<1>11. ASSUME NEW c \in Contexts, NEW t \in Timers, Stop(c, t) PROVE Fresh'
  BY <1>6, <1>11 DEF Stop
<1>12. ASSUME NEW c \in Contexts, Insert(c) \/ Query(c) PROVE Fresh'
  BY <1>6, <1>12 DEF Insert, Query
<1>13. ASSUME NEW c \in Contexts, Compare(c) PROVE Fresh'
  <2>1. at[c] = "compare" /\ at' = [at EXCEPT ![c] = "idle"] /\ irq' = irq
        /\ last' = last /\ list' = list
    BY <1>13 DEF Compare, Goes, handling
  <2>2. CASE c = Task
    BY <1>4, <1>5, <1>7, <2>1, <2>2
  <2>3. CASE c = Isr
    <3>1. Busy'
      BY <1>5, <2>1, <2>3 DEF Busy
    <3>2. QED
      BY <1>3, <1>5, <1>8, <2>1, <2>3, <3>1
  <2>4. QED
    BY <1>5, <2>2, <2>3
<1>14. CASE Interrupted
  <2>1. irq' \in {"overflow", "update"} /\ last' = last /\ list' = list /\ at' = at
    BY <1>14 DEF Interrupted, Irq, calls
  <2>2. Busy'
    BY <2>1 DEF Busy
  <2>3. QED
    BY <1>3, <1>8, <2>1, <2>2
<1>15. CASE Overflow \/ Update
  BY <1>6, <1>15 DEF Overflow, Update
<1>16. CASE OverflowSet \/ Finish
  <2>1. irq \in {"set", "finish"} /\ irq' \in {"update", "none"} /\ at' = at
        /\ last' = last /\ list' = list
    BY <1>16 DEF OverflowSet, Finish, Irq, calls
  <2>2. QED
    BY <1>4, <1>5, <1>7, <2>1
<1>17. CASE Ring \/ RingAgain \/ RingPeriodic
  <2>1. irq = "ring" /\ irq' = "call" /\ last' = last /\ at' = at
    BY <1>17, RingSame DEF Ring, RingAgain, RingPeriodic, calls
  <2>2. Since' = Since /\ Since <= busy /\ at'[Task] # "compare"
    BY <1>1, <1>4, <1>5, <2>1, SinceSame
  <2>3. busy' = busy
    BY <1>3, <2>1 DEF Busy
  <2>4. list' # <<>> => Since <= list'[1].delta + 4 + busy
    <3>1. SUFFICES ASSUME list' # <<>> PROVE Since <= list'[1].delta + 4 + busy
      OBVIOUS
    <3>2. list'[1].delta \in Nat
      BY <1>2, <3>1
    <3>3. QED
      BY <1>n, <2>2, <3>2 DEF Numeric
  <2>5. QED
    BY <2>1, <2>2, <2>3, <2>4 DEF Fresh
<1>18. QED
  BY <1>9, <1>10, <1>11, <1>12, <1>13, <1>14, <1>15, <1>16, <1>17 DEF Turn, Handler, Call

LEMMA DeltasFrom ==
  ASSUME \A i \in 1 .. Len(list') : \E t \in Timers : \E u \in Nat :
           t = list'[i].timer /\ u = Until(list', i) /\ Told(t, u)'
  PROVE  Deltas'
<1>1. SUFFICES ASSUME NEW i \in 1 .. Len(list')
               PROVE  Told(list[i].timer, Until(list, i))'
  BY DEF Deltas
<1>2. PICK t \in Timers : \E u \in Nat :
        t = list'[i].timer /\ u = Until(list', i) /\ Told(t, u)'
  OBVIOUS
<1>3. PICK u \in Nat : t = list'[i].timer /\ u = Until(list', i) /\ Told(t, u)'
  BY <1>2
<1>4. QED
  BY <1>3 DEF Told, Slack, Follows

LEMMA KeptTold ==
  ASSUME NEW t \in Timers, NEW u \in Nat, Told(t, u), Same(t), Since' = Since
  PROVE  Told(t, u)'
  BY SameIs DEF Told

\* The time that has passed is taken off.
LEMMA NowTold ==
  ASSUME Punctual, TInv, NEW t \in Timers, NEW u \in Nat, Told(t, u), Same(t), Since' = 0,
         NEW v \in Nat, v = Clip(u - Since)
  PROVE  Told(t, v)'
<1>n. Numeric
  BY Bounds
<1> DEFINE d == due[t]
           k == Slack(t)
<1>1. d \in Int /\ k \in Nat
  BY TimerTypes
<1>2. u <= Clip(d + Since + k) /\ u >= Clip(d + Since - k) /\ u <= (W \div 2) + MaxBusy
  BY DEF Told
<1>3. Slack(t)' = k /\ due'[t] = d /\ (handle'[t].period # 0 => Follows(t)')
  BY SameIs DEF Told
<1> HIDE DEF d, k
<1>4. v = IF u > Since THEN u - Since ELSE 0
  BY <1>n DEF Clip, Numeric
<1>5. v <= (W \div 2) + MaxBusy
  BY <1>2, <1>4, <1>n DEF Numeric
<1>6. v <= Clip(d + k)
  BY <1>1, <1>2, <1>4, <1>n DEF Numeric, Clip
<1>7. v >= Clip(d - k)
  BY <1>1, <1>2, <1>4, <1>n DEF Numeric, Clip
<1>8. d + 0 + k = d + k /\ d + 0 - k = d - k
  BY <1>1
<1>9. QED
  BY <1>3, <1>5, <1>6, <1>7, <1>8 DEF Told

LEMMA ListSays ==
  ASSUME Punctual, TInv, PInv, NEW t, NEW u, In(list, t, u),
         Same(t), Since' = Since
  PROVE  t \in Timers /\ u \in Nat /\ Told(t, u)'
<1>1. PICK j \in 1 .. Len(list) : list[j].timer = t /\ Until(list, j) = u
  BY DEF In
<1>2. t \in Timers /\ u \in Nat /\ Told(t, u)
  BY <1>1, OfList
<1>3. QED
  BY <1>2, KeptTold

LEMMA NowSays ==
  ASSUME Punctual, TInv, PInv, NEW t, NEW u, In(Now, t, u),
         Same(t), Since' = 0
  PROVE  t \in Timers /\ u \in Nat /\ Told(t, u)'
<1>1. /\ Len(Now) = Len(list)
      /\ \A i \in 1 .. Len(list) : /\ Now[i].timer = list[i].timer
                                   /\ Until(Now, i) = Clip(Until(list, i) - Since)
  BY NowShape DEF TInv
<1>2. PICK j \in 1 .. Len(list) : Now[j].timer = t /\ Until(Now, j) = u
  BY <1>1 DEF In
<1>3. PICK v \in Nat : v = Until(list, j)
  BY OfList
<1>4. t \in Timers /\ Told(t, v) /\ u = Clip(v - Since)
  BY <1>1, <1>2, <1>3, OfList
<1>5. u \in Nat
  <2>1. Since \in Nat
    BY SinceType DEF TInv
  <2>2. QED
    BY <1>4, <2>1 DEF Clip
<1>6. Told(t, u)'
  BY <1>4, <1>5, NowTold
<1>7. QED
  BY <1>4, <1>5, <1>6

\* The correction of a periodic timer that rings is the time it is late.
LEMMA CorrectionIs ==
  ASSUME Punctual, TInv, PInv, irq = "ring", NEW t \in Timers,
         t = list[FirstToRing(list)].timer, handle[t].period # 0
  PROVE  /\ Correction(t) = -due[t] /\ due[t] >= -(4 + busy + MaxBusy) /\ due[t] <= MaxBusy
         /\ Since <= busy /\ Follows(t)
<1>n. Numeric
  BY Bounds
<1> DEFINE d == due[t]
           e == handle[t].expected
           h == W \div 2
<1>1. FirstToRing(list) \in 1 .. Len(list) /\ Until(list, FirstToRing(list)) = 0
  BY ToRing
<1>2. Told(t, 0) /\ due[t] >= -(4 + busy + Slack(t)) /\ Slack(t) = MaxBusy
  BY <1>1, OfList, TimerTypes
<1>3. d \in Int /\ e \in Nat /\ e < W /\ e \in Counts /\ counter \in Counts
  BY TimerTypes, CorrectionType DEF TInv, Flat
<1>4. 0 >= Clip(d + Since - MaxBusy) /\ e - counter - d \in {-W, 0, W} /\ Follows(t)
  BY <1>2 DEF Told, Follows
<1>5. Since <= busy
  BY DEF PInv, Fresh
<1>6. d >= -(4 + busy + MaxBusy)
  BY <1>2
<1>7. Correction(t) = IF Wrap(counter - e) >= h THEN Wrap(counter - e) - W ELSE Wrap(counter - e)
  BY DEF Correction
<1>8. Wrap(counter - e) = IF counter < e THEN counter - e + W ELSE counter - e
  BY <1>3, WrapDifference
<1>9. /\ MaxBusy \in Nat /\ W \in Nat /\ h \in Nat /\ 2 * h <= W /\ 4 + 2 * MaxBusy + 2 <= h
      /\ busy \in Nat /\ busy <= MaxBusy /\ Since \in Nat
      /\ counter \in Nat /\ counter < W
  BY <1>n DEF Numeric
<1> HIDE DEF d, e, h
<1>10. d <= MaxBusy
  BY <1>3, <1>4, <1>9 DEF Clip
<1>11. Correction(t) = -d
  <2>1. CASE d <= 0
    <3>1. Wrap(counter - e) = -d
      BY <1>3, <1>4, <1>6, <1>8, <1>9, <2>1
    <3>2. QED
      BY <1>3, <1>6, <1>7, <1>9, <2>1, <3>1
  <2>2. CASE d > 0
    <3>1. Wrap(counter - e) = W - d
      BY <1>3, <1>4, <1>8, <1>9, <1>10, <2>2
    <3>2. QED
      BY <1>3, <1>7, <1>9, <1>10, <2>2, <3>1
  <2>3. QED
    BY <1>3, <2>1, <2>2
<1>12. QED
  BY <1>4, <1>5, <1>6, <1>10, <1>11 DEF d

LEMMA AgainTold ==
  ASSUME Punctual, TInv, PInv, RingAgain, NEW t \in Timers, t = ringing'
  PROVE  Told(t, 0)' /\ due'[t] >= due[t]
<1>n. Numeric
  BY Bounds
<1>1. t = list[FirstToRing(list)].timer /\ irq = "ring" /\ last' = last /\ counter' = counter
  BY RingSame
<1>2. /\ handle[t].period # 0 /\ handle'[t].period = handle[t].period
      /\ handle'[t].expected = Wrap(handle[t].expected + handle[t].period)
      /\ due'[t] = due[t] + handle[t].period
      /\ Correction(t) > handle[t].period
  BY RingWrites
<1>3. /\ Correction(t) = -due[t] /\ due[t] >= -(4 + busy + MaxBusy) /\ due[t] <= MaxBusy
      /\ Since <= busy /\ Follows(t)
  BY <1>1, <1>2, CorrectionIs
<1>4. Since' = Since /\ Slack(t)' = MaxBusy
  BY <1>1, <1>2, SinceSame DEF Slack
<1> DEFINE d == due[t]
           e == handle[t].expected
           p == handle[t].period
           h == W \div 2
<1>5. d \in Int /\ e \in Nat /\ e < W /\ e \in Counts /\ p \in Nat /\ p <= h /\ p # 0
  BY <1>2, TimerTypes, CorrectionType DEF TInv
<1>6. /\ MaxBusy \in Nat /\ W \in Nat /\ h \in Nat /\ 2 * h <= W /\ 4 + 2 * MaxBusy + 2 <= h
      /\ busy \in Nat /\ busy <= MaxBusy /\ Since \in Nat
      /\ counter \in Nat /\ counter < W
  BY <1>n DEF Numeric
<1>7. d + p < 0 /\ d >= -(4 + busy + MaxBusy) /\ e - counter - d \in {-W, 0, W}
  <2>1. d >= -(4 + busy + MaxBusy) /\ e - counter - d \in {-W, 0, W} /\ -d > p
    BY <1>2, <1>3 DEF Follows
  <2> HIDE DEF d, p, e
  <2>2. QED
    BY <1>5, <2>1
<1>8. Wrap(e + p) = IF e + p < W THEN e + p ELSE e + p - W
  <2>1. p \in 0 .. W
    <3> HIDE DEF p, h
    <3>1. QED
      BY <1>5, <1>6
  <2>2. QED
    BY <1>5, <2>1, WrapSum
<1> HIDE DEF d, e, p, h
<1>9. Wrap(e + p) - counter - (d + p) \in {-W, 0, W}
  BY <1>5, <1>6, <1>7, <1>8
<1>10. d + p >= d /\ d + p + Since - MaxBusy <= 0
  <2>1. Since <= busy
    BY <1>3
  <2>2. QED
    BY <1>5, <1>6, <1>7, <2>1
<1>11. 0 <= Clip(d + p + Since + MaxBusy) /\ 0 >= Clip(d + p + Since - MaxBusy)
       /\ 0 <= h + MaxBusy
  BY <1>5, <1>6, <1>10 DEF Clip
<1>12. Follows(t)'
  BY <1>1, <1>2, <1>9 DEF Follows, d, e, p
<1>13. Told(t, 0)'
  BY <1>2, <1>4, <1>11, <1>12 DEF Told, d, p, h
<1>14. QED
  BY <1>2, <1>10, <1>13 DEF d, p

LEMMA PeriodicTold ==
  ASSUME Punctual, TInv, PInv, RingPeriodic, NEW t \in Timers, t = ringing'
  PROVE  /\ Wrap(handle[t].period - Correction(t) - Spare(handle[t])) \in Nat
         /\ Wrap(handle[t].period - Correction(t) - Spare(handle[t])) = due'[t]
         /\ due'[t] \in Nat /\ \A m \in Nat : m = due'[t] => Told(t, m)'
<1>n. Numeric
  BY Bounds
<1>1. t = list[FirstToRing(list)].timer /\ irq = "ring" /\ last' = last /\ counter' = counter
  BY RingSame
<1>2. /\ handle[t].period # 0 /\ handle'[t].period = handle[t].period
      /\ handle'[t].expected = Wrap(handle[t].expected - Spare(handle[t]) + handle[t].period)
      /\ due'[t] = due[t] - Spare(handle[t]) + handle[t].period
      /\ Correction(t) <= handle[t].period
  BY RingWrites
<1>3. /\ Correction(t) = -due[t] /\ due[t] >= -(4 + busy + MaxBusy) /\ due[t] <= MaxBusy
      /\ Since <= busy /\ Follows(t)
  BY <1>1, <1>2, CorrectionIs
<1>4. Since' = Since /\ Slack(t)' = MaxBusy
  BY <1>1, <1>2, SinceSame DEF Slack
<1> DEFINE d == due[t]
           e == handle[t].expected
           p == handle[t].period
           k == Spare(handle[t])
           h == W \div 2
           n == d + p - k
<1>5. d \in Int /\ e \in Nat /\ e < W /\ e \in Counts /\ p \in Nat /\ p <= h /\ p # 0
  BY <1>2, TimerTypes, CorrectionType DEF TInv
<1>6. /\ MaxBusy \in Nat /\ W \in Nat /\ h \in Nat /\ 2 * h <= W /\ 4 + 2 * MaxBusy + 2 <= h
      /\ busy \in Nat /\ busy <= MaxBusy /\ Since \in Nat /\ Since <= busy
      /\ counter \in Nat /\ counter < W
  BY <1>3, <1>n DEF Numeric
<1>7. k \in {0, 1} /\ (k = 1 => p > 4 + 2 * MaxBusy)
  <2>1. handle[t] \in HandleType
    BY DEF TInv, Flat
  <2>2. k \in {0, 1}
    BY <2>1, SpareTick
  <2>3. k = 1 => handle[t].error > 0
    <3> DEFINE a == handle[t].error
               b == handle[t].sum
    <3>1. a \in 0 .. 999 /\ b \in 0 .. 999
      BY CorrectionType DEF TInv
    <3>2. k = 1 => b + a >= 1000
      BY DEF Spare
    <3> HIDE DEF a, b, k
    <3>3. a \in Int /\ b \in Int /\ 0 <= a /\ b <= 999
      BY <3>1
    <3>4. k = 1 => a > 0
      BY <3>2, <3>3
    <3>5. QED
      BY <3>4 DEF a
  <2>4. p > 0 /\ handle[t].error > 0 => p > MaxLate
    BY DEF PInv, Handles
  <2>5. p > 0 /\ MaxLate = 4 + 2 * MaxBusy
    BY <1>5, <1>n DEF Numeric
  <2>6. QED
    BY <2>2, <2>3, <2>4, <2>5
<1>8. /\ d >= -(4 + busy + MaxBusy) /\ d <= MaxBusy /\ e - counter - d \in {-W, 0, W}
      /\ -d <= p
  BY <1>2, <1>3 DEF Follows
<1>9. /\ handle[t].period - Correction(t) - Spare(handle[t]) = p - (-d) - k
      /\ handle[t].expected - Spare(handle[t]) + handle[t].period = e - k + p
      /\ due'[t] = d - k + p
  BY <1>2, <1>3
<1>10. Follows(t)' <=> Wrap(e - k + p) - counter - due'[t] \in {-W, 0, W}
  BY <1>1, <1>2 DEF Follows
<1> HIDE DEF d, e, p, k, h, n
<1>11. k \in Int /\ 0 <= k /\ k <= 1
  BY <1>7
<1>12. n \in Nat /\ n < W /\ n <= h + MaxBusy /\ d - k + p = n /\ p - (-d) - k = n
  BY <1>5, <1>6, <1>7, <1>8, <1>11 DEF n
<1>13. Wrap(n) = n
  <2>1. n \in 0 .. W - 1
    BY <1>6, <1>12
  <2>2. QED
    BY <2>1, WrapCases
<1>14. e - k + p = e + (p - k) /\ p - k \in 0 .. W
  BY <1>5, <1>6, <1>11
<1>15. Wrap(e - k + p) = IF e + (p - k) < W THEN e + (p - k) ELSE e + (p - k) - W
  BY <1>5, <1>14, WrapSum
<1>16. Wrap(e - k + p) - counter - n \in {-W, 0, W}
  <2> DEFINE w == Wrap(e - k + p)
  <2>1. w = IF e + (p - k) < W THEN e + (p - k) ELSE e + (p - k) - W
    BY <1>15
  <2> HIDE DEF w
  <2>2. w \in Nat /\ w < W
    BY <1>5, <1>6, <1>11, <2>1
  <2>3. w - counter - n \in {-2 * W, -W, 0, W, 2 * W}
    <3>1. n = d + p - k
      BY DEF n
    <3>2. QED
      BY <1>5, <1>6, <1>8, <1>11, <2>1, <3>1
  <2>4. -W < n /\ n < W /\ n \in Int
    BY <1>6, <1>12
  <2>5. w - counter - n \in {-W, 0, W}
    BY <1>6, <2>2, <2>3, <2>4, Multiples
  <2>6. QED
    BY <2>5 DEF w
<1>17. due'[t] = n /\ Follows(t)'
  BY <1>9, <1>10, <1>12, <1>16
<1>18. n <= Clip(n + Since + MaxBusy) /\ n >= Clip(n + Since - MaxBusy)
  BY <1>6, <1>12 DEF Clip
<1>19. \A m \in Nat : m = n => Told(t, m)'
  BY <1>4, <1>12, <1>17, <1>18 DEF Told, h
<1>20. Wrap(handle[t].period - Correction(t) - Spare(handle[t])) = n
  BY <1>9, <1>12, <1>13
<1>21. QED
  BY <1>12, <1>17, <1>19, <1>20

\* A timer just inserted.
LEMMA InsertTold ==
  ASSUME Punctual, TInv, PInv, NEW c \in Contexts, Insert(c), NEW t \in Timers, t = timer[c],
         NEW n \in Nat, n = timeout[c]
  PROVE  /\ Told(t, n)' /\ n >= 1
         /\ due'[t] \in Int /\ Slack(t)' \in Nat
         /\ n <= due'[t] + Slack(t)'
<1>n. Numeric
  BY Bounds
<1>1. /\ at[c] = "insert" /\ last' = counter /\ counter' = counter /\ handle' = handle
      /\ due' = IF handle[t].period = 0 THEN [due EXCEPT ![t] = n] ELSE due
  BY DEF Insert, hardware
<1>2. /\ n >= 1 /\ n - busy <= due[t] /\ due[t] <= n /\ n <= W \div 2
      /\ handle[t].period # 0 => Follows(t)
  BY <1>1, ToInsert DEF PInv, Starting
<1>3. Since' = 0
  BY <1>1, NowFresh
<1>4. due \in [Timers -> Int] /\ due[t] \in Int
  BY DEF TInv, Flat
<1> DEFINE d == due[t]
<1>5. CASE handle[t].period = 0
  <2>1. due'[t] = n /\ Slack(t)' = 0 /\ handle'[t].period = 0
    BY <1>1, <1>4, <1>5 DEF Slack
  <2>2. n <= Clip(n + 0 + 0) /\ n >= Clip(n + 0 - 0) /\ n <= (W \div 2) + MaxBusy
    BY <1>2, <1>n DEF Clip, Numeric
  <2>3. Told(t, n)'
    BY <1>3, <2>1, <2>2 DEF Told
  <2>4. QED
    BY <1>2, <2>1, <2>3
<1>6. CASE handle[t].period # 0
  <2>1. due'[t] = d /\ Slack(t)' = MaxBusy /\ handle'[t].period # 0 /\ Follows(t)'
    BY <1>1, <1>2, <1>4, <1>6 DEF Slack, Follows
  <2>2. d \in Int /\ n - busy <= d /\ d <= n
    BY <1>2, <1>4
  <2> HIDE DEF d
  <2>3. n <= d + MaxBusy /\ n >= d - MaxBusy
    BY <2>2, <1>n DEF Numeric
  <2>4. n <= Clip(d + 0 + MaxBusy) /\ n >= Clip(d + 0 - MaxBusy) /\ n <= (W \div 2) + MaxBusy
    BY <1>2, <2>2, <2>3, <1>n DEF Clip, Numeric
  <2>5. Told(t, n)'
    BY <1>3, <2>1, <2>4 DEF Told
  <2>6. QED
    BY <1>2, <2>1, <2>2, <2>3, <2>5, <1>n DEF Numeric
<1>7. QED
  BY <1>5, <1>6

LEMMA DeltasStep ==
  ASSUME Punctual, TInv, TInv', PInv, Turn, CountBusy
  PROVE  Deltas'
<1> DEFINE Says(i) == \E t \in Timers : \E u \in Nat :
             t = list'[i].timer /\ u = Until(list', i) /\ Told(t, u)'
<1>1. ASSUME \A i \in 1 .. Len(list') : Says(i) PROVE Deltas'
  BY <1>1, DeltasFrom
<1>2. counter' = counter
  BY OnlyTickCounts
<1>3. list \in Seq(Entry) /\ Good(list) /\ Good(Now) /\ Names(Now) = Names(list)
      /\ Len(Now) = Len(list) /\ Names(list) \subseteq Timers
  BY NowShape, ListedNames DEF TInv, Lists, Good
<1> HIDE DEF Now
<1>4. ASSUME NEW i \in 1 .. Len(list'), In(list, list'[i].timer, Until(list', i)),
             last' = last, Same(list'[i].timer)
      PROVE  Says(i)
  <2>1. PICK t : t = list'[i].timer
    OBVIOUS
  <2>2. PICK u : u = Until(list', i)
    OBVIOUS
  <2>3. In(list, t, u) /\ Same(t)
    BY <1>4, <2>1, <2>2
  <2>4. t \in Timers /\ u \in Nat /\ Told(t, u)'
    BY <1>2, <1>4, <2>3, SinceSame, ListSays
  <2>5. QED
    BY <2>1, <2>2, <2>4
<1>18. ASSUME NEW i \in 1 .. Len(list'), In(Now, list'[i].timer, Until(list', i)),
              last' = counter, Same(list'[i].timer)
       PROVE  Says(i)
  <2>1. PICK t : t = list'[i].timer
    OBVIOUS
  <2>2. PICK u : u = Until(list', i)
    OBVIOUS
  <2>3. In(Now, t, u) /\ Same(t)
    BY <1>18, <2>1, <2>2
  <2>4. t \in Timers /\ u \in Nat /\ Told(t, u)'
    BY <1>2, <1>18, <2>3, NowFresh, NowSays
  <2>5. QED
    BY <2>1, <2>2, <2>4
<1> HIDE DEF Says
<1>5. ASSUME list' = list, last' = last, \A t \in Timers : Same(t)
      PROVE  Deltas'
  <2>1. SUFFICES ASSUME NEW i \in 1 .. Len(list') PROVE Says(i)
    BY <1>1
  <2>2. In(list, list'[i].timer, Until(list', i)) /\ list'[i].timer \in Names(list)
    BY <1>5 DEF In, Names
  <2>3. Same(list'[i].timer)
    BY <1>3, <1>5, <2>2
  <2>4. QED
    BY <1>4, <1>5, <2>2, <2>3
<1>19. ASSUME list' = Now, last' = counter, \A t \in Timers : Same(t)
       PROVE  Deltas'
  <2>1. SUFFICES ASSUME NEW i \in 1 .. Len(list') PROVE Says(i)
    BY <1>1
  <2>2. In(Now, list'[i].timer, Until(list', i)) /\ list'[i].timer \in Names(Now)
    BY <1>19 DEF In, Names
  <2>3. Same(list'[i].timer)
    BY <1>3, <1>19, <2>2
  <2>4. QED
    BY <1>18, <1>19, <2>2, <2>3
<1>6. ASSUME NEW c \in Contexts, NEW t \in Timers, Start(c, t) PROVE Deltas'
  <2>1. t \notin Names(list) /\ list' = list /\ last' = last
    BY <1>6, ListedNames DEF Start, TInv
  <2>2. SUFFICES ASSUME NEW i \in 1 .. Len(list') PROVE Says(i)
    BY <1>1
  <2>3. In(list, list'[i].timer, Until(list', i)) /\ list'[i].timer \in Names(list)
    BY <2>1 DEF In, Names
  <2>4. Same(list'[i].timer)
    BY <1>3, <1>6, <2>1, <2>3, StartSame
  <2>5. QED
    BY <1>4, <2>1, <2>3, <2>4
<1>7. ASSUME NEW c \in Contexts, NEW t \in Timers, StartRunning(c, t) PROVE Deltas'
  <2>1. list' = list /\ last' = last /\ \A x \in Timers : Same(x)
    BY <1>2, <1>7, StartRunningSame DEF StartRunning
  <2>2. QED
    BY <1>5, <2>1
<1>8. ASSUME NEW c \in Contexts, Compare(c) PROVE Deltas'
  <2>1. list' = list /\ last' = last /\ \A x \in Timers : Same(x)
    BY <1>2, <1>8, AllSame DEF Compare
  <2>2. QED
    BY <1>5, <2>1
<1>9. ASSUME NEW c \in Contexts, Query(c) PROVE Deltas'
  <2>1. list' = Now /\ last' = counter /\ \A x \in Timers : Same(x)
    BY <1>2, <1>9, AllSame DEF Query
  <2>2. QED
    BY <1>19, <2>1
<1>10. CASE Interrupted \/ OverflowSet \/ Finish
  <2>1. list' = list /\ last' = last /\ \A x \in Timers : Same(x)
    BY <1>2, <1>10, AllSame DEF Interrupted, OverflowSet, Finish
  <2>2. QED
    BY <1>5, <2>1
<1>11. CASE Overflow \/ Update
  <2>1. list' = Now /\ last' = counter /\ \A x \in Timers : Same(x)
    BY <1>2, <1>11, AllSame DEF Overflow, Update
  <2>2. QED
    BY <1>19, <2>1
<1>12. ASSUME NEW c \in Contexts, NEW t \in Timers, Stop(c, t) PROVE Deltas'
  <2>1. CASE t \notin Listed
    <3>1. list' = Now /\ last' = counter /\ handle' = handle /\ due' = due
      BY <1>12, <2>1 DEF Stop
    <3>2. QED
      BY <1>2, <1>19, <3>1, AllSame
  <2>2. CASE t \in Listed
    <3>1. Place(t) \in 1 .. Len(Now) /\ list[Place(t)].timer = t
      BY <1>3, <2>2, ListedNames, PlaceIs DEF TInv
    <3>2. list' = Removed(Now, Place(t)) /\ last' = counter
      BY <1>12, <2>2 DEF Stop
    <3>3. Now[Place(t)].timer = t
      BY <1>3, <3>1, NowShape DEF TInv
    <3>4. SUFFICES ASSUME NEW i \in 1 .. Len(list') PROVE Says(i)
      BY <1>1
    <3>5. In(Now, list'[i].timer, Until(list', i))
      BY <1>3, <3>1, <3>2, RemovedShape
    <3>6. list'[i].timer \in Names(Now) \ {t}
      <4>1. Names(list') = Names(Now) \ {t}
        BY <1>3, <3>1, <3>2, <3>3, RemovedShape
      <4>2. QED
        BY <4>1 DEF Names
    <3>7. Same(list'[i].timer)
      BY <1>3, <1>12, <3>6, StopSame
    <3>8. QED
      BY <1>18, <3>2, <3>5, <3>7
  <2>3. QED
    BY <2>1, <2>2
<1>13. ASSUME NEW c \in Contexts, Insert(c) PROVE Deltas'
  <2>1. PICK t \in Timers : t = timer[c] /\ t \notin Names(Now)
    BY <1>3, <1>13, ToInsert DEF Insert
  <2>2. PICK n \in Nat : n = timeout[c]
    BY <1>13, ToInsert DEF Insert
  <2>3. list' = Inserted(Now, t, n) /\ last' = counter
    BY <1>13, <2>1, <2>2 DEF Insert
  <2>4. Told(t, n)'
    BY <1>13, <2>1, <2>2, InsertTold
  <2>5. SUFFICES ASSUME NEW i \in 1 .. Len(list') PROVE Says(i)
    BY <1>1
  <2>6. \/ list'[i].timer = t /\ Until(list', i) = n
        \/ list'[i].timer # t /\ In(Now, list'[i].timer, Until(list', i))
    BY <1>3, <2>1, <2>3, InsertedShape
  <2>7. CASE list'[i].timer = t /\ Until(list', i) = n
    BY <2>4, <2>7 DEF Says
  <2>8. CASE list'[i].timer # t /\ In(Now, list'[i].timer, Until(list', i))
    <3>1. list'[i].timer \in Names(Now)
      BY <2>8 DEF In, Names
    <3>2. Same(list'[i].timer)
      BY <1>3, <1>13, <2>1, <2>8, <3>1, InsertSame
    <3>3. QED
      BY <1>18, <2>3, <2>8, <3>2
  <2>9. QED
    BY <2>6, <2>7, <2>8
<1>14. CASE Ring
  <2> DEFINE k == FirstToRing(list)
  <2>1. /\ k \in 1 .. Len(list) /\ ringing' = list[k].timer /\ last' = last
        /\ \A x \in Timers : x # ringing' => Same(x)
    BY <1>14, RingSame
  <2>2. list' = Removed(list, k)
    BY <1>14 DEF Ring
  <2> HIDE DEF k
  <2>3. SUFFICES ASSUME NEW i \in 1 .. Len(list') PROVE Says(i)
    BY <1>1
  <2>4. In(list, list'[i].timer, Until(list', i))
    BY <1>3, <2>1, <2>2, RemovedShape
  <2>5. list'[i].timer \in Names(list) \ {list[k].timer}
    <3>1. Names(list') = Names(list) \ {list[k].timer}
      BY <1>3, <2>1, <2>2, RemovedShape
    <3>2. QED
      BY <3>1 DEF Names
  <2>6. Same(list'[i].timer)
    BY <1>3, <2>1, <2>5
  <2>7. QED
    BY <1>4, <2>1, <2>4, <2>6
<1>15. CASE RingAgain
  <2>1. PICK t \in Timers : t = ringing'
    BY <1>15, RingSame
  <2>2. /\ FirstToRing(list) \in 1 .. Len(list) /\ t = list[FirstToRing(list)].timer
        /\ Until(list, FirstToRing(list)) = 0 /\ last' = last
        /\ \A x \in Timers : x # t => Same(x)
    BY <1>15, <2>1, RingSame
  <2>3. list' = list /\ Told(t, 0)'
    BY <1>15, <2>1, AgainTold, RingWrites
  <2>4. SUFFICES ASSUME NEW i \in 1 .. Len(list') PROVE Says(i)
    BY <1>1
  <2>5. CASE list[i].timer = t
    <3>1. i = FirstToRing(list)
      BY <1>3, <2>2, <2>3, <2>5 DEF Good
    <3>2. QED
      BY <2>2, <2>3, <2>5, <3>1 DEF Says
  <2>6. CASE list[i].timer # t
    <3>1. In(list, list'[i].timer, Until(list', i)) /\ list[i].timer \in Names(list)
      BY <2>3 DEF In, Names
    <3>2. Same(list'[i].timer)
      BY <1>3, <2>2, <2>3, <2>6, <3>1
    <3>3. QED
      BY <1>4, <2>2, <3>1, <3>2
  <2>7. QED
    BY <2>5, <2>6
<1>16. CASE RingPeriodic
  <2>1. PICK t \in Timers : t = ringing'
    BY <1>16, RingSame
  <2> DEFINE k == FirstToRing(list)
             l == Removed(list, k)
  <2>2. /\ k \in 1 .. Len(list) /\ t = list[k].timer /\ last' = last
        /\ \A x \in Timers : x # t => Same(x)
    BY <1>16, <2>1, RingSame
  <2>3. PICK n \in Nat : n = due'[t]
    BY <1>16, <2>1, PeriodicTold
  <2>4. Told(t, n)'
    BY <1>16, <2>1, <2>3, PeriodicTold
  <2>5. list' = Inserted(l, t, n)
    BY <1>16, <2>1, <2>3, RingWrites, PeriodicTold
  <2> HIDE DEF k
  <2>6. Good(l) /\ Names(l) = Names(list) \ {t}
        /\ \A j \in 1 .. Len(l) : In(list, l[j].timer, Until(l, j))
    BY <1>3, <2>2, RemovedShape
  <2> HIDE DEF l
  <2>7. SUFFICES ASSUME NEW i \in 1 .. Len(list') PROVE Says(i)
    BY <1>1
  <2>8. \/ list'[i].timer = t /\ Until(list', i) = n
        \/ list'[i].timer # t /\ In(l, list'[i].timer, Until(list', i))
    BY <2>5, <2>6, InsertedShape
  <2>9. CASE list'[i].timer = t /\ Until(list', i) = n
    BY <2>4, <2>9 DEF Says
  <2>10. CASE list'[i].timer # t /\ In(l, list'[i].timer, Until(list', i))
    <3>1. PICK j \in 1 .. Len(l) : l[j].timer = list'[i].timer /\ Until(l, j) = Until(list', i)
      BY <2>10 DEF In
    <3>2. In(list, list'[i].timer, Until(list', i)) /\ list'[i].timer \in Names(list)
      <4>1. In(list, l[j].timer, Until(l, j))
        BY <2>6
      <4>2. In(list, list'[i].timer, Until(list', i))
        BY <3>1, <4>1
      <4>3. QED
        BY <4>2 DEF In, Names
    <3>3. Same(list'[i].timer)
      BY <1>3, <2>2, <2>10, <3>2
    <3>4. QED
      BY <1>4, <2>2, <3>2, <3>3
  <2>11. QED
    BY <2>8, <2>9, <2>10
<1>17. QED
  BY <1>6, <1>7, <1>8, <1>9, <1>10, <1>11, <1>12, <1>13, <1>14, <1>15, <1>16
     DEF Turn, Handler, Call

\* v is the count n ticks after the count c, and n the ticks from c to v.
After(v, c, n) == v = c + n \/ v = (c + n) - W
Gap(n, v, c) == n = v - c \/ n = (v - c) + W

LEMMA TimeAhead ==
  ASSUME W \in Nat, NEW p \in Nat, NEW q \in Nat, NEW d \in Nat,
         NEW v \in Int, NEW s \in Int, NEW x \in Int,
         d - s >= 0, d - s < W, x >= 0, x < W,
         After(v, p, d), Gap(s, q, p), Gap(x, v, q)
  PROVE  x = d - s
  BY DEF After, Gap

\* The comparator is set for the first timer, or within the margin.
LEMMA SetsAhead ==
  ASSUME Punctual, TInv, PInv, list # <<>>, Since <= 1, SetComparator, counter' = counter,
         NEW d \in Nat, d = list[1].delta, d > 0
  PROVE  /\ enabled' /\ channel' /\ Ahead' \in Nat
         /\ Ahead' <= 3 \/ Ahead' <= d - Since
<1>n. Numeric
  BY Bounds
<1>1. enabled' /\ channel'
      /\ compare' = IF MaySet THEN Margined(Wrap(last + d)) ELSE compare
  BY DEF SetComparator
<1>2. d <= (W \div 2) + MaxBusy
  BY FirstTimer
<1>3. d - Since \in 0 .. W - 1 /\ d \in 0 .. W
  BY <1>2, <1>n DEF Numeric
<1>4. counter \in Counts /\ last \in Counts /\ compare \in Counts
  BY DEF TInv, Flat
<1>5. Ahead' = Wrap(compare' - counter)
  BY DEF Ahead
<1>6. CASE MaySet
  <2>1. PICK v : v = Wrap(last + d)
    OBVIOUS
  <2>2. v = (IF last + d < W THEN last + d ELSE last + d - W) /\ v \in Counts
    <3>1. v = IF last + d < W THEN last + d ELSE last + d - W
      BY <1>3, <1>4, <2>1, WrapSum
    <3>2. QED
      BY <2>1, <3>1, WrapType, <1>n DEF Numeric
  <2>3. Since = IF counter < last THEN counter - last + W ELSE counter - last
    BY <1>4, WrapDifference DEF Since
  <2>4. Wrap(v - counter) = IF v < counter THEN v - counter + W ELSE v - counter
    BY <1>4, <2>2, WrapDifference
  <2>5. Wrap(v - counter) = d - Since
    <3>1. PICK p \in Nat, q \in Nat : p = last /\ q = counter /\ p < W /\ q < W
      BY <1>n DEF Numeric
    <3>2. PICK s \in Int, x \in Int : s = Since /\ x = Wrap(v - counter)
      BY <1>n, <2>2, <2>4, <3>1 DEF Numeric, Counts
    <3>3. v \in Int /\ 0 <= v /\ v < W /\ W \in Nat
      BY <1>n, <2>2 DEF Numeric, Counts
    <3>4. d - s >= 0 /\ d - s < W
      BY <1>3, <1>n, <3>2 DEF Numeric
    <3>5. After(v, p, d) /\ Gap(s, q, p) /\ Gap(x, v, q)
      <4>1. p + d - W = (p + d) - W
        BY <3>1, <3>3
      <4>2. QED
        BY <2>2, <2>3, <2>4, <3>1, <3>2, <4>1 DEF After, Gap
    <3>6. x >= 0 /\ x < W
      BY <2>4, <3>1, <3>2, <3>3
    <3>7. x = d - s
      BY <3>3, <3>4, <3>5, <3>6, TimeAhead
    <3>8. QED
      BY <3>2, <3>7
  <2>6. compare' = Margined(v)
    BY <1>1, <1>6, <2>1
  <2>7. /\ Wrap(v - counter) < 3 => Ahead' \in {2, 3}
        /\ Wrap(v - counter) >= 3 => Ahead' \in {Wrap(v - counter) - 1, Wrap(v - counter)}
    BY <1>4, <1>5, <2>2, <2>6, MarginedAhead
  <2>8. QED
    <3> DEFINE x == Wrap(v - counter)
               a == Ahead'
    <3>1. x \in Int /\ x = d - Since
      BY <1>3, <2>5
    <3>2. (x < 3 => a \in {2, 3}) /\ (x >= 3 => a \in {x - 1, x})
      BY <2>7
    <3> HIDE DEF x, a
    <3>3. a \in Nat /\ (a <= 3 \/ a <= x)
      BY <3>1, <3>2
    <3>4. QED
      BY <1>1, <3>1, <3>3 DEF a
<1>7. CASE ~MaySet
  <2>1. Ahead' = Ahead /\ ~(Ahead > 3)
    BY <1>1, <1>5, <1>7 DEF MaySet, Ahead, SLEEPTIMER_COMPARE_MIN_DIFF
  <2>2. QED
    BY <1>1, <2>1, <1>n DEF Numeric
<1>8. QED
  BY <1>6, <1>7

\* Then the alarm is set for all timers.
LEMMA SetsAlarm ==
  ASSUME Punctual, TInv, PInv, list # <<>>, Since <= 1, SetComparator, counter' = counter,
         last' = last, list' = list, \A t \in Timers : Same(t)
  PROVE  Armed'
<1>n. Numeric
  BY Bounds
<1>1. PICK d \in Nat : d = list[1].delta
  BY FirstTimer
<1>2. CASE d = 0
  BY <1>1, <1>2 DEF SetComparator, Armed
<1>3. CASE d > 0
  <2>1. /\ enabled' /\ channel' /\ Ahead' \in Nat
        /\ Ahead' <= 3 \/ Ahead' <= d - Since
    BY <1>1, <1>3, SetsAhead
  <2>2. Since' = Since
    BY SinceSame
  <2>3. Since' + Ahead' <= list'[1].delta + 3
    BY <1>1, <1>3, <2>1, <2>2, <1>n DEF Numeric
  <2>4. ASSUME NEW t \in Names(list) PROVE Ahead' <= due'[t] + 3 + Slack(t)'
    <3>1. PICK i \in 1 .. Len(list) : list[i].timer = t
      BY DEF Names
    <3>2. PICK u : u = Until(list, i)
      OBVIOUS
    <3>3. t \in Timers /\ u \in Nat /\ d <= u /\ Told(t, u)
      BY <1>1, <3>1, <3>2, OfList
    <3>4. PICK x \in Int : x = due[t]
      BY <3>3, TimerTypes
    <3>5. PICK k \in Nat : k = Slack(t)
      BY <3>3, TimerTypes
    <3>6. u <= Clip(x + Since + k)
      BY <3>3, <3>4, <3>5 DEF Told
    <3>7. due'[t] = x /\ Slack(t)' = k
      BY <3>3, <3>4, <3>5, SameIs
    <3>8. d <= x + Since + k
      BY <1>3, <1>n, <3>3, <3>6 DEF Numeric, Clip
    <3>9. PICK a \in Nat : a = Ahead'
      BY <2>1
    <3>10. a <= x + 3 + k
      BY <1>3, <1>n, <2>1, <3>8, <3>9 DEF Numeric
    <3>11. QED
      BY <3>7, <3>9, <3>10
  <2>5. Names(list)' = Names(list)
    BY DEF Names
  <2>6. QED
    BY <2>1, <2>3, <2>4, <2>5 DEF Armed
<1>4. QED
  BY <1>2, <1>3

\* What leaves the comparator alone, and the list or what has come of it by now.
LEMMA KeepsAlarm ==
  ASSUME Punctual, TInv, PInv, irq = "none", at[Task] # "compare",
         UNCHANGED <<counter, compare, channel, enabled, matched>>,
         last' = last, list' = list, \A t \in Names(list) : Same(t)
  PROVE  Armed'
<1>1. Since' = Since /\ Ahead' = Ahead /\ Names(list)' = Names(list)
  BY SinceSame DEF Names
<1>2. \A t \in Names(list) : Slack(t)' = Slack(t) /\ due'[t] = due[t]
  BY SameIs
<1>3. SUFFICES ASSUME list' # <<>>
               PROVE  /\ enabled'
                      /\ matched' \/ /\ channel'
                                     /\ Since' + Ahead' <= list'[1].delta + 3
                                     /\ \A t \in Names(list)' :
                                          Ahead' <= due'[t] + 3 + Slack(t)'
  BY DEF Armed
<1>4. enabled /\ (matched \/ /\ channel
                             /\ Since + Ahead <= list[1].delta + 3
                             /\ \A t \in Names(list) : Ahead <= due[t] + 3 + Slack(t))
  BY <1>3 DEF PInv, Armed
<1>5. QED
  BY <1>1, <1>2, <1>4

LEMMA NowAlarm ==
  ASSUME Punctual, TInv, PInv, irq = "none", at[Task] # "compare",
         UNCHANGED <<counter, compare, channel, enabled, matched>>, last' = counter,
         list # <<>>, list' # <<>> => list'[1].delta = Now[1].delta,
         \A t \in Names(list') : \/ t \in Names(list) /\ Same(t)
                                 \/ /\ due'[t] \in Int /\ Slack(t)' \in Int
                                    /\ list'[1].delta <= due'[t] + Slack(t)'
  PROVE  Armed'
<1>n. Numeric
  BY Bounds
<1>1. SUFFICES ASSUME list' # <<>>
               PROVE  /\ enabled'
                      /\ matched' \/ /\ channel'
                                     /\ Since' + Ahead' <= list'[1].delta + 3
                                     /\ \A t \in Names(list') :
                                          Ahead' <= due'[t] + 3 + Slack(t)'
  BY DEF Armed, Names
<1>2. enabled /\ (matched \/ /\ channel
                             /\ Since + Ahead <= list[1].delta + 3
                             /\ \A t \in Names(list) : Ahead <= due[t] + 3 + Slack(t))
  BY DEF PInv, Armed
<1>3. CASE matched
  BY <1>2, <1>3
<1>4. CASE ~matched
  <2>1. Since' = 0 /\ Ahead' = Ahead
    BY NowFresh DEF Ahead
  <2>2. PICK d \in Nat : d = list[1].delta
    BY FirstTimer
  <2>3. list'[1].delta = Clip(d - Since)
    <3>1. Good(list) /\ Since \in Nat
      BY <1>n DEF TInv, Lists, Numeric
    <3> HIDE DEF Since
    <3>2. Now[1].delta = Clip(d - Since)
      BY <2>2, <3>1, UpdatedShape DEF Now
    <3>3. QED
      BY <1>1, <3>2
  <2>4. PICK b : b = list'[1].delta
    OBVIOUS
  <2>5. b \in Nat /\ Ahead <= b + 3
    <3>1. Since \in Nat /\ Ahead \in Nat /\ Since + Ahead <= d + 3
      BY <1>2, <1>4, <1>n, <2>2 DEF Numeric
    <3>2. b = IF d - Since > 0 THEN d - Since ELSE 0
      BY <2>3, <2>4 DEF Clip
    <3> HIDE DEF Since, Ahead
    <3>3. QED
      BY <3>1, <3>2
  <2>6. ASSUME NEW t \in Names(list') PROVE Ahead' <= due'[t] + 3 + Slack(t)'
    <3>1. CASE t \in Names(list) /\ Same(t)
      BY <1>2, <1>4, <2>1, <3>1, SameIs
    <3>2. CASE due'[t] \in Int /\ Slack(t)' \in Int /\ b <= due'[t] + Slack(t)'
      <4>1. PICK x \in Int : x = due'[t]
        BY <3>2
      <4>2. PICK k \in Int : k = Slack(t)'
        BY <3>2
      <4>3. Ahead <= x + 3 + k
        BY <1>n, <2>5, <3>2, <4>1, <4>2 DEF Numeric
      <4>4. QED
        BY <2>1, <4>1, <4>2, <4>3
    <3>3. QED
      BY <2>4, <2>6, <3>1, <3>2
  <2>7. QED
    BY <1>2, <1>4, <2>1, <2>4, <2>5, <2>6, <1>n DEF Numeric
<1>5. QED
  BY <1>3, <1>4

LEMMA ArmedStep ==
  ASSUME Punctual, TInv, TInv', PInv, Turn
  PROVE  Armed'
<1>1. SUFFICES ASSUME list' # <<>>, irq' = "none", at'[Task] # "compare" PROVE Armed'
  BY DEF Armed
<1>2. counter' = counter
  BY OnlyTickCounts
<1>3. /\ list \in Seq(Entry) /\ Good(list) /\ Good(Now) /\ Names(Now) = Names(list)
      /\ Len(Now) = Len(list) /\ Names(list) \subseteq Timers
      /\ (Now = <<>> <=> list = <<>>) /\ Listed = Names(list)
      /\ \A i \in 1 .. Len(list) : Now[i].timer = list[i].timer
  BY NowShape, ListedNames DEF TInv, Lists, Good
<1>4. /\ at[Isr] # "idle" => irq = "called"
      /\ \A c \in Contexts : at[c] = "compare" => list # <<>>
      /\ irq = "set" => list # <<>>
      /\ at \in [Contexts -> {"idle", "insert", "compare"}]
      /\ Contexts = {Task, Isr} /\ Task # Isr /\ Task \in Contexts
  BY DEF TInv, Turns, Flat, Contexts, Task, Isr
<1>5. irq \in {"finish", "set"} \/ at[Task] = "compare" => Since <= 1
  BY DEF PInv, Fresh
<1> HIDE DEF Now
<1>6. ASSUME NEW c \in Contexts, MayCall(c), Called(c)
      PROVE  c = Task /\ irq = "none" /\ at[Task] # "compare"
  BY <1>1, <1>4, <1>6 DEF MayCall, Called
<1>7. ASSUME NEW c \in Contexts, NEW t \in Timers, Start(c, t) PROVE Armed'
  <2>1. irq = "none" /\ at[Task] # "compare"
    BY <1>6, <1>7 DEF Start
  <2>2. \A x \in Names(list) : Same(x)
    BY <1>3, <1>7, StartSame DEF Start
  <2>3. UNCHANGED <<counter, compare, channel, enabled, matched>> /\ last' = last /\ list' = list
    BY <1>7 DEF Start, hardware
  <2>4. QED
    BY <2>1, <2>2, <2>3, KeepsAlarm
<1>8. ASSUME NEW c \in Contexts, NEW t \in Timers, StartRunning(c, t) PROVE Armed'
  <2>1. irq = "none" /\ at[Task] # "compare"
    BY <1>6, <1>8 DEF StartRunning
  <2>2. \A x \in Names(list) : Same(x)
    BY <1>3, <1>8, StartRunningSame
  <2>3. UNCHANGED <<counter, compare, channel, enabled, matched>> /\ last' = last /\ list' = list
    BY <1>8 DEF StartRunning, hardware
  <2>4. QED
    BY <2>1, <2>2, <2>3, KeepsAlarm
<1>9. ASSUME irq = "none", at[Task] # "compare", list' = Now, last' = counter,
             UNCHANGED <<counter, compare, channel, enabled, matched>>,
             handle' = handle, due' = due
      PROVE  Armed'
  <2>1. list # <<>> /\ Names(list') = Names(list)
    BY <1>1, <1>3, <1>9
  <2>2. \A x \in Names(list') : x \in Names(list) /\ Same(x)
    BY <1>2, <1>3, <1>9, <2>1, AllSame
  <2>3. QED
    BY <1>9, <2>1, <2>2, NowAlarm
<1>10. ASSUME NEW c \in Contexts, Query(c) PROVE Armed'
  <2>1. irq = "none" /\ at[Task] # "compare"
    BY <1>6, <1>10 DEF Query
  <2>2. QED
    BY <1>9, <1>10, <2>1 DEF Query, hardware
<1>11. ASSUME NEW c \in Contexts, NEW t \in Timers, Stop(c, t) PROVE Armed'
  <2>1. c = Task /\ irq = "none" /\ at[Task] # "compare" /\ last' = counter
    BY <1>6, <1>11 DEF Stop
  <2>2. CASE t \notin Names(list)
    <3>1. Listed # {t} /\ t \notin Listed
      BY <1>3, <2>2
    <3>2. QED
      BY <1>2, <1>9, <1>11, <2>1, <3>1 DEF Stop
  <2>3. CASE t \in Names(list)
    <3> DEFINE k == Place(t)
    <3>1. k \in 1 .. Len(Now) /\ Now[k].timer = t /\ list[k].timer = t
      BY <1>3, <2>3, PlaceIs DEF TInv
    <3>2. list' = Removed(Now, k)
      BY <1>3, <1>11, <2>3 DEF Stop
    <3>3. ~(k = 1 /\ Len(list) > 1)
      BY <1>1, <1>3, <1>4, <1>11, <2>1, <2>3 DEF Stop, Goes
    <3> HIDE DEF k
    <3>4. Len(list) # 1 /\ k # 1
      <4>1. Len(Now) # 1
        BY <1>1, <1>3, <3>1, <3>2, RemovedShape
      <4>2. QED
        BY <1>3, <3>1, <3>3, <4>1
    <3>5. list # <<>> /\ list'[1].delta = Now[1].delta
      BY <1>3, <3>1, <3>2, <3>4, RemovedShape
    <3>6. Listed # {t}
      <4>1. 1 \in 1 .. Len(list) /\ list[1].timer # t
        BY <1>3, <3>1, <3>4, <3>5, HeadIsFirst DEF Good
      <4>2. list[1].timer \in Names(list)
        BY <4>1 DEF Names
      <4>3. QED
        BY <1>3, <4>1, <4>2
    <3>7. UNCHANGED <<counter, compare, channel, enabled, matched>>
      BY <1>2, <1>11, <3>6 DEF Stop
    <3>8. \A x \in Names(list') : x \in Names(list) /\ Same(x)
      <4>1. Names(list') = Names(list) \ {t}
        BY <1>3, <3>1, <3>2, RemovedShape
      <4>2. QED
        BY <1>3, <1>11, <4>1, StopSame
    <3>9. QED
      BY <2>1, <3>5, <3>7, <3>8, NowAlarm
  <2>4. QED
    BY <2>2, <2>3
<1>12. ASSUME NEW c \in Contexts, Insert(c) PROVE Armed'
  <2>1. irq' = irq /\ at[c] = "insert" /\ last' = counter
        /\ UNCHANGED <<counter, compare, channel, enabled, matched>>
    BY <1>12 DEF Insert, handling, hardware
  <2>2. c = Task /\ irq = "none" /\ at[Task] # "compare"
    BY <1>1, <1>4, <2>1
  <2>3. PICK t \in Timers : t = timer[c] /\ t \notin Names(Now)
    BY <1>3, <2>1, ToInsert
  <2>4. PICK n \in Nat : n = timeout[c]
    BY <2>1, ToInsert
  <2>5. list' = Inserted(Now, t, n)
    BY <1>12, <2>3, <2>4 DEF Insert
  <2>6. Head(list').timer # t
    BY <1>1, <1>4, <1>12, <2>2, <2>3 DEF Insert, Goes
  <2>7. list' \in Seq(Entry) /\ list' # <<>> /\ list'[1].timer # t
    <3>1. list' \in Seq(Entry) /\ list' # <<>>
      BY <1>1 DEF TInv, Lists, Good
    <3>2. QED
      BY <2>6, <3>1
  <2>8. Now # <<>> /\ list'[1].delta = Now[1].delta
    BY <1>3, <2>3, <2>5, <2>7, InsertedShape
  <2>9. due'[t] \in Int /\ Slack(t)' \in Int /\ n <= due'[t] + Slack(t)'
    BY <1>12, <2>3, <2>4, InsertTold
  <2>10. list'[1].delta <= n /\ list'[1].delta \in Nat
    <3>1. Names(list') = Names(Now) \cup {t}
      BY <1>3, <2>3, <2>5, InsertedShape
    <3>2. PICK i \in 1 .. Len(list') : list'[i].timer = t
      BY <3>1 DEF Names
    <3>3. Until(list', i) = n
      BY <1>3, <2>3, <2>5, <3>2, InsertedShape
    <3>4. QED
      BY <2>7, <3>3, HeadIsFirst
  <2>11. ASSUME NEW x \in Names(list')
         PROVE  \/ x \in Names(list) /\ Same(x)
                \/ /\ due'[x] \in Int /\ Slack(x)' \in Int
                   /\ list'[1].delta <= due'[x] + Slack(x)'
    <3>1. x \in Names(list) \/ x = t
      BY <1>3, <2>3, <2>5, InsertedShape
    <3>2. CASE x # t
      BY <1>3, <1>12, <2>3, <3>1, <3>2, InsertSame
    <3>3. CASE x = t
      <4>1. PICK d \in Int : d = due'[t]
        BY <2>9
      <4>2. PICK k \in Int : k = Slack(t)'
        BY <2>9
      <4>3. PICK b \in Nat : b = list'[1].delta
        BY <2>10
      <4>4. b <= d + k
        BY <2>9, <2>10, <4>1, <4>2, <4>3
      <4>5. due'[x] = d /\ Slack(x)' = k
        BY <3>3, <4>1, <4>2 DEF Slack
      <4>6. QED
        BY <4>3, <4>4, <4>5
    <3>4. QED
      BY <3>2, <3>3
  <2>12. QED
    BY <1>3, <2>1, <2>2, <2>8, <2>11, NowAlarm
<1>13. ASSUME NEW c \in Contexts, Compare(c) PROVE Armed'
  <2>1. irq' = irq /\ at[c] = "compare" /\ SetComparator /\ last' = last /\ list' = list
        /\ \A t \in Timers : Same(t)
    BY <1>2, <1>13, AllSame DEF Compare, handling
  <2>2. c = Task /\ list # <<>> /\ Since <= 1
    BY <1>1, <1>4, <1>5, <2>1
  <2>3. QED
    BY <1>2, <2>1, <2>2, SetsAlarm
<1>14. CASE OverflowSet
  <2>1. SetComparator /\ last' = last /\ list' = list /\ irq = "set"
        /\ \A t \in Timers : Same(t)
    BY <1>2, <1>14, AllSame DEF OverflowSet, Irq
  <2>2. list # <<>> /\ Since <= 1
    BY <1>4, <1>5, <2>1
  <2>3. QED
    BY <1>2, <2>1, <2>2, SetsAlarm
<1>15. CASE Finish
  <2>1. last' = last /\ list' = list /\ irq = "finish" /\ \A t \in Timers : Same(t)
    BY <1>2, <1>15, AllSame DEF Finish, Irq
  <2>2. SetComparator
    BY <1>1, <1>15, <2>1 DEF Finish
  <2>3. QED
    BY <1>1, <1>2, <1>5, <2>1, <2>2, SetsAlarm
<1>16. CASE Overflow
  BY <1>1, <1>3, <1>16 DEF Overflow
<1>17. CASE Interrupted \/ Update \/ Ring \/ RingAgain \/ RingPeriodic
  BY <1>1, <1>17 DEF Interrupted, Update, Ring, RingAgain, RingPeriodic, Irq
<1>18. QED
  BY <1>7, <1>8, <1>10, <1>11, <1>12, <1>13, <1>14, <1>15, <1>16, <1>17
     DEF Turn, Handler, Call

\* A timer that runs after a step ran before it and is due no earlier, or is to come.
LEMMA StillDue ==
  ASSUME Punctual, TInv, TInv', PInv, Turn, NEW t \in Names(list')
  PROVE  /\ t \in Timers
         /\ \/ t \in Names(list) /\ due'[t] >= due[t] /\ Slack(t)' = Slack(t)
            \/ due'[t] >= -Slack(t)'
<1>1. list' \in Seq(Entry)
  BY DEF TInv, Lists, Good
<1>2. t \in Timers
  BY <1>1, EntryType DEF Names
<1>3. due[t] \in Int
  BY <1>2, TimerTypes
<1>4. ASSUME t \in Names(list), Same(t) PROVE due'[t] >= due[t] /\ Slack(t)' = Slack(t)
  BY <1>3, <1>4, SameIs
<1>5. counter' = counter /\ Good(list) /\ Good(Now) /\ Names(Now) = Names(list)
      /\ Listed = Names(list) /\ Names(list) \subseteq Timers
      /\ \A i \in 1 .. Len(list) : Now[i].timer = list[i].timer
      /\ Len(Now) = Len(list)
  BY OnlyTickCounts, NowShape, ListedNames DEF TInv, Lists
<1> HIDE DEF Now
<1>6. ASSUME list' = list \/ list' = Now, \A x \in Timers : x \in Names(list) => Same(x)
      PROVE  t \in Names(list) /\ Same(t)
  BY <1>2, <1>5, <1>6
<1>7. ASSUME NEW c \in Contexts, NEW u \in Timers, Start(c, u)
      PROVE  t \in Names(list) /\ Same(t)
  BY <1>5, <1>6, <1>7, StartSame DEF Start
<1>8. ASSUME NEW c \in Contexts, NEW u \in Timers, StartRunning(c, u)
      PROVE  t \in Names(list) /\ Same(t)
  BY <1>6, <1>8, StartRunningSame DEF StartRunning
<1>9. ASSUME NEW c \in Contexts, Compare(c) \/ Query(c)
      PROVE  t \in Names(list) /\ Same(t)
  BY <1>5, <1>6, <1>9, AllSame DEF Compare, Query
<1>10. ASSUME Interrupted \/ Overflow \/ OverflowSet \/ Update \/ Finish
       PROVE  t \in Names(list) /\ Same(t)
  BY <1>5, <1>6, <1>10, AllSame DEF Interrupted, Overflow, OverflowSet, Update, Finish
<1>11. ASSUME NEW c \in Contexts, NEW u \in Timers, Stop(c, u)
       PROVE  t \in Names(list) /\ Same(t)
  <2>1. CASE u \notin Names(list)
    BY <1>5, <1>6, <1>11, <2>1, StopSame DEF Stop
  <2>2. CASE u \in Names(list)
    <3>1. Place(u) \in 1 .. Len(Now) /\ Now[Place(u)].timer = u
      BY <1>5, <2>2, PlaceIs DEF TInv
    <3>2. list' = Removed(Now, Place(u))
      BY <1>5, <1>11, <2>2 DEF Stop
    <3>3. Names(list') = Names(list) \ {u}
      BY <1>5, <3>1, <3>2, RemovedShape
    <3>4. QED
      BY <1>2, <1>11, <3>3, StopSame
  <2>3. QED
    BY <2>1, <2>2
<1>12. ASSUME NEW c \in Contexts, Insert(c)
       PROVE  (t \in Names(list) /\ Same(t)) \/ due'[t] >= -Slack(t)'
  <2>1. PICK u \in Timers : u = timer[c] /\ u \notin Names(Now)
    BY <1>5, <1>12, ToInsert DEF Insert
  <2>2. PICK n \in Nat : n = timeout[c]
    BY <1>12, ToInsert DEF Insert
  <2>3. list' = Inserted(Now, u, n)
    BY <1>12, <2>1, <2>2 DEF Insert
  <2>4. t \in Names(list) \/ t = u
    BY <1>5, <2>1, <2>3, InsertedShape
  <2>5. CASE t = u
    <3>1. due'[t] \in Int /\ Slack(t)' \in Nat /\ n <= due'[t] + Slack(t)'
      BY <1>12, <2>1, <2>2, <2>5, InsertTold
    <3>2. PICK d \in Int, k \in Nat : d = due'[t] /\ k = Slack(t)'
      BY <3>1
    <3>3. d >= -k
      BY <3>1, <3>2
    <3>4. QED
      BY <3>2, <3>3
  <2>6. CASE t # u
    BY <1>2, <1>12, <2>1, <2>4, <2>6, InsertSame
  <2>7. QED
    BY <2>5, <2>6
<1>13. ASSUME Ring
       PROVE  t \in Names(list) /\ Same(t)
  <2>1. /\ FirstToRing(list) \in 1 .. Len(list) /\ ringing' = list[FirstToRing(list)].timer
        /\ \A x \in Timers : x # ringing' => Same(x)
    BY <1>13, RingSame
  <2>2. Names(list') = Names(list) \ {ringing'}
    BY <1>5, <1>13, <2>1, RemovedShape DEF Ring
  <2>3. QED
    BY <1>2, <2>1, <2>2
<1>14. ASSUME RingAgain \/ RingPeriodic
       PROVE  \/ t \in Names(list) /\ due'[t] >= due[t] /\ Slack(t)' = Slack(t)
              \/ due'[t] >= -Slack(t)'
  <2>1. /\ FirstToRing(list) \in 1 .. Len(list) /\ ringing' = list[FirstToRing(list)].timer
        /\ ringing' \in Names(list) /\ \A x \in Timers : x # ringing' => Same(x)
    BY <1>14, RingSame
  <2>2. CASE t = ringing'
    <3>1. handle'[t].period = handle[t].period
      BY <1>2, <1>14, <2>2, RingWrites
    <3>2. Slack(t)' = Slack(t) /\ Slack(t) \in Nat
      BY <1>2, <3>1, TimerTypes DEF Slack
    <3>3. CASE RingAgain
      BY <1>2, <2>1, <2>2, <3>2, <3>3, AgainTold
    <3>4. CASE RingPeriodic
      <4>1. due'[t] \in Nat
        BY <1>2, <2>2, <3>4, PeriodicTold
      <4>2. QED
        BY <3>2, <4>1
    <3>5. QED
      BY <1>14, <3>3, <3>4
  <2>3. CASE t # ringing'
    <3>1. Same(t)
      BY <1>2, <2>1, <2>3
    <3>2. t \in Names(list)
      <4>1. CASE RingAgain
        BY <4>1 DEF RingAgain
      <4>2. CASE RingPeriodic
        <5>1. PICK u \in Timers : u = ringing'
          BY <2>1, <1>5
        <5>2. PICK n \in Nat : n = due'[u]
          BY <4>2, <5>1, PeriodicTold
        <5>3. list' = Inserted(Removed(list, FirstToRing(list)), u, n)
          BY <4>2, <5>1, <5>2, RingWrites, PeriodicTold
        <5>4. Good(Removed(list, FirstToRing(list)))
              /\ Names(Removed(list, FirstToRing(list))) = Names(list) \ {u}
          BY <1>5, <2>1, <5>1, RemovedShape
        <5>5. Names(list') = (Names(list) \ {u}) \cup {u}
          BY <5>3, <5>4, InsertedShape
        <5>6. QED
          BY <2>3, <5>1, <5>5
      <4>3. QED
        BY <1>14, <4>1, <4>2
    <3>3. QED
      BY <1>4, <3>1, <3>2
  <2>4. QED
    BY <2>2, <2>3
<1>15. QED
  BY <1>2, <1>4, <1>7, <1>8, <1>9, <1>10, <1>11, <1>12, <1>13, <1>14
     DEF Turn, Handler, Call

LEMMA NotLateStep ==
  ASSUME Punctual, TInv, TInv', PInv, Turn, CountBusy, Armed'
  PROVE  NotLate'
<1>n. Numeric
  BY Bounds
<1>1. (Busy' => busy' = busy) /\ (~Busy' => busy' = 0)
  BY OnlyTickCounts, BusyStays
<1>2. SUFFICES ASSUME NEW t \in Names(list') PROVE due'[t] >= -(4 + busy' + Slack(t)')
  BY DEF NotLate, Names
<1>3. /\ t \in Timers
      /\ \/ t \in Names(list) /\ due'[t] >= due[t] /\ Slack(t)' = Slack(t)
         \/ due'[t] >= -Slack(t)'
  BY StillDue
<1>4. due \in [Timers -> Int] /\ due' \in [Timers -> Int] /\ handle' \in [Timers -> HandleType]
  BY DEF TInv, Flat
<1>5. PICK d \in Int, e \in Int, j \in Nat, k \in Nat :
        d = due[t] /\ e = due'[t] /\ j = Slack(t) /\ k = Slack(t)'
  BY <1>3, <1>4, <1>n, TimerTypes DEF Slack, Numeric
<1>6. CASE Busy'
  <2>1. t \in Names(list) => d >= -(4 + busy + j)
    BY <1>5 DEF PInv, NotLate
  <2>2. (e >= d /\ k = j /\ t \in Names(list)) \/ e >= -k
    BY <1>3, <1>5
  <2>3. e >= -(4 + busy + k)
    BY <1>n, <1>5, <2>1, <2>2 DEF Numeric
  <2>4. QED
    BY <1>1, <1>5, <1>6, <2>3
<1>7. CASE ~Busy'
  <2>1. irq' = "none" /\ at'[Task] # "compare" /\ ~(matched' /\ enabled')
    BY <1>7 DEF Busy
  <2>2. list' # <<>>
    <3>1. list' \in Seq(Entry)
      BY DEF TInv, Lists, Good
    <3>2. QED
      BY <3>1 DEF Names
  <2>3. Ahead' <= e + 3 + k
    BY <1>5, <2>1, <2>2 DEF Armed, Names
  <2>4. Ahead' \in Nat
    <3>1. counter' \in Counts /\ compare' \in Counts
      BY DEF TInv, Flat
    <3>2. Wrap(compare' - counter') \in Counts
      BY <3>1, WrapDifference
    <3>3. QED
      BY <3>2, <1>n DEF Ahead, Counts
  <2>5. e >= -(4 + 0 + k)
    BY <1>5, <2>3, <2>4
  <2>6. QED
    BY <1>1, <1>5, <1>7, <2>5
<1>8. QED
  BY <1>6, <1>7

LEMMA PInvInitially ==
  ASSUME Punctual, Init
  PROVE  PInv
<1>1. list = <<>> /\ Len(list) = 0 /\ irq = "none" /\ at = [c \in Contexts |-> "idle"]
      /\ handle = [t \in Timers |-> Unused]
  BY DEF Init
<1>2. \A c \in Contexts : at[c] = "idle"
  BY <1>1
<1>3. Handles /\ Starting
  BY <1>1, <1>2 DEF Handles, Starting, Unused
<1>4. Fresh /\ Armed
  BY <1>1, <1>2 DEF Fresh, Armed, Contexts
<1>5. Deltas /\ NotLate
  BY <1>1 DEF Deltas, NotLate, Names
<1>6. QED
  BY <1>3, <1>4, <1>5 DEF PInv

LEMMA PInvStutters ==
  ASSUME PInv, UNCHANGED vars
  PROVE  PInv'
<1>1. /\ list' = list /\ last' = last /\ handle' = handle /\ at' = at /\ timer' = timer
      /\ timeout' = timeout /\ irq' = irq /\ due' = due /\ busy' = busy
      /\ counter' = counter /\ compare' = compare /\ channel' = channel
      /\ enabled' = enabled /\ matched' = matched
  BY DEF vars, hardware, calls, handling
<1>2. Since' = Since /\ Ahead' = Ahead /\ Names(list)' = Names(list)
  BY <1>1 DEF Since, Ahead, Names
<1>3. \A t : Slack(t)' = Slack(t) /\ Follows(t)' = Follows(t)
  BY <1>1 DEF Slack, Follows
<1>4. Handles' /\ Starting'
  BY <1>1, <1>3 DEF PInv, Handles, Starting, Follows
<1>5. Fresh' /\ NotLate' /\ Armed'
  BY <1>1, <1>2, <1>3 DEF PInv, Fresh, NotLate, Armed, Names, Slack
<1>6. Deltas'
  <2>1. \A i \in 1 .. Len(list) : Told(list[i].timer, Until(list, i))' =
          Told(list[i].timer, Until(list, i))
    BY <1>1, <1>2 DEF Told, Slack, Follows
  <2>2. QED
    BY <1>1, <2>1 DEF PInv, Deltas
<1>7. QED
  BY <1>4, <1>5, <1>6 DEF PInv

\* Both invariants together are inductive.
LEMMA PInvStep ==
  ASSUME Punctual, TInv, PInv, [Next]_vars
  PROVE  PInv'
<1>1. TInv'
  BY TInvStep
<1>2. CASE UNCHANGED vars
  BY <1>2, PInvStutters
<1>3. CASE Tick /\ CountBusy
  BY <1>3, TickKeeps
<1>4. CASE Turn /\ CountBusy
  <2>1. Handles' /\ Starting' /\ Fresh' /\ Deltas' /\ Armed'
    BY <1>1, <1>4, HandlesStep, StartingStep, FreshStep, DeltasStep, ArmedStep
  <2>2. NotLate'
    BY <1>1, <1>4, <2>1, NotLateStep
  <2>3. QED
    BY <2>1, <2>2 DEF PInv
<1>5. QED
  BY <1>2, <1>3, <1>4 DEF Next, Turn

LEMMA PInvAlways == ASSUME Punctual PROVE Spec => [](TInv /\ PInv)
<1>1. Init => TInv /\ PInv
  BY TInvInitially, PInvInitially
<1>2. (TInv /\ PInv) /\ [Next]_vars => (TInv /\ PInv)'
  BY TInvStep, PInvStep
<1>3. QED
  BY <1>1, <1>2, PTL DEF Spec

-----------------------------------------------------------------------------
(* What the service promises.                                              *)

LEMMA DeltasAre ==
  ASSUME Punctual, TInv, PInv
  PROVE  DeltasTellTime
<1>1. SUFFICES ASSUME NEW t \in Listed, handle[t].period = 0
               PROVE  Until(list, Place(t)) = Clip(due[t] + Since)
  BY DEF DeltasTellTime
<1>2. t \in Names(list) /\ t \in Timers
  BY ListedNames DEF TInv
<1>3. Place(t) \in 1 .. Len(list) /\ list[Place(t)].timer = t
  BY <1>2, PlaceIs DEF TInv
<1>4. PICK i \in 1 .. Len(list) : i = Place(t)
  BY <1>3
<1>5. PICK u \in Nat : u = Until(list, i)
  BY OfList
<1>6. Told(t, u) /\ Slack(t) = 0 /\ due[t] \in Int /\ Since \in Nat
  BY <1>1, <1>2, <1>3, <1>4, <1>5, OfList, TimerTypes, SinceType DEF TInv
<1>7. u <= Clip(due[t] + Since + 0) /\ u >= Clip(due[t] + Since - 0)
  BY <1>6 DEF Told
<1>8. u = Clip(due[t] + Since)
  <2> DEFINE d == due[t]
             s == Since
  <2>1. d \in Int /\ s \in Nat /\ u <= Clip(d + s + 0) /\ u >= Clip(d + s - 0)
    BY <1>6, <1>7
  <2> HIDE DEF d, s
  <2>2. u = Clip(d + s)
    BY <2>1 DEF Clip
  <2>3. QED
    BY <2>2 DEF d, s
<1>9. QED
  BY <1>4, <1>5, <1>8

\* Whatever is started, stopped and handled in between, and however often the
\* counter wraps around, the deltas up to a timer that expires once (what
\* delta_list_insert_timer() and its kin compute) are the time it has left.
THEOREM DeltasCorrect == ASSUME Punctual PROVE Spec => []DeltasTellTime
<1>1. TInv /\ PInv => DeltasTellTime
  BY DeltasAre
<1>2. QED
  BY <1>1, PInvAlways, PTL

LEMMA AlarmIs ==
  ASSUME Punctual, TInv, PInv
  PROVE  AlarmIsSet
<1>n. Numeric
  BY Bounds
<1>1. SUFFICES ASSUME ~Busy, list # <<>>
               PROVE  /\ enabled /\ channel
                      /\ Wrap(compare + 1 - counter) <= Clip(list[1].delta - Since) + 3 + 1
  BY DEF AlarmIsSet, SLEEPTIMER_COMPARE_MIN_DIFF
<1>2. enabled /\ channel /\ Since + Ahead <= list[1].delta + 3
  BY <1>1 DEF PInv, Armed, Busy
<1>3. PICK d \in Nat : d = list[1].delta
  BY <1>1, FirstTimer
<1>4. PICK n : n = Wrap(compare + 1 - counter)
  OBVIOUS
<1>5. n \in Int /\ n <= Ahead + 1
  <2>1. counter \in Counts /\ compare \in Counts
    BY DEF TInv, Flat
  <2>2. Ahead = IF compare < counter THEN compare - counter + W ELSE compare - counter
    BY <2>1, WrapDifference DEF Ahead
  <2>3. PICK m \in Int : m = compare + 1 - counter
    BY <1>n DEF Numeric
  <2>4. m = (compare - counter) + 1
    BY <2>3, <1>n DEF Numeric
  <2>5. n = Wrap(m)
    BY <1>4, <2>3
  <2>6. CASE m < 0
    <3>1. m \in -W .. -1
      BY <2>4, <2>6, <1>n DEF Numeric
    <3>2. n = m + W
      BY <2>5, <3>1, WrapCases
    <3>3. QED
      BY <2>2, <2>4, <2>6, <3>2, <1>n DEF Numeric
  <2>7. CASE 0 <= m /\ m < W
    <3>1. m \in 0 .. W - 1
      BY <2>7, <1>n DEF Numeric
    <3>2. n = m
      BY <2>5, <3>1, WrapCases
    <3>3. QED
      BY <2>2, <2>4, <2>7, <3>2, <1>n DEF Numeric
  <2>8. CASE m >= W
    <3>1. m \in W .. 2 * W - 1
      BY <2>4, <2>8, <1>n DEF Numeric
    <3>2. n = m - W
      BY <2>5, <3>1, WrapCases
    <3>3. QED
      BY <2>2, <2>4, <2>8, <3>2, <1>n DEF Numeric
  <2>9. QED
    BY <2>6, <2>7, <2>8, <1>n DEF Numeric
<1>6. n <= Clip(d - Since) + 3 + 1
  <2> DEFINE s == Since
             a == Ahead
  <2>1. s \in Nat /\ a \in Nat /\ s + a <= d + 3 /\ n \in Int /\ n <= a + 1
    BY <1>2, <1>3, <1>5, <1>n DEF Numeric
  <2> HIDE DEF s, a
  <2>2. n <= Clip(d - s) + 3 + 1
    BY <2>1 DEF Clip
  <2>3. QED
    BY <2>2 DEF s
<1>7. QED
  BY <1>2, <1>3, <1>4, <1>6

\* Whenever the code is done and a timer runs, the compare channel that
\* set_comparator_for_next_timer() and the handler leave behind interrupts for it.
THEOREM AlarmAlwaysSet == ASSUME Punctual PROVE Spec => []AlarmIsSet
<1>1. TInv /\ PInv => AlarmIsSet
  BY AlarmIs
<1>2. QED
  BY <1>1, PInvAlways, PTL

LEMMA LateIs ==
  ASSUME Punctual, TInv, PInv
  PROVE  NeverLate
<1>n. Numeric
  BY Bounds
<1>1. SUFFICES ASSUME NEW t \in Listed PROVE due[t] >= -(4 + 2 * MaxBusy)
  <2>1. SLEEPTIMER_COMPARE_MIN_DIFF + 1 + 2 * MaxBusy = 4 + 2 * MaxBusy
    BY <1>n DEF SLEEPTIMER_COMPARE_MIN_DIFF, Numeric
  <2>2. QED
    BY <2>1 DEF NeverLate
<1>2. t \in Names(list) /\ t \in Timers
  BY ListedNames DEF TInv
<1>3. PICK d \in Int, k \in Nat : d = due[t] /\ k = Slack(t) /\ k <= MaxBusy
  BY <1>2, TimerTypes
<1>4. d >= -(4 + busy + k)
  BY <1>2, <1>3 DEF PInv, NotLate
<1>5. QED
  BY <1>3, <1>4, <1>n DEF Numeric

\* No timer waits longer for its callback than the margin of the compare channel and
\* the time that calls and interrupts took.
THEOREM LatenessBounded == ASSUME Punctual PROVE Spec => []NeverLate
<1>1. TInv /\ PInv => NeverLate
  BY LateIs
<1>2. QED
  BY <1>1, PInvAlways, PTL

LEMMA RingsIs ==
  ASSUME TInv, [Next]_vars, Rings
  PROVE  Ring \/ RingAgain \/ RingPeriodic
<1>1. irq = "ring" /\ irq' = "call"
  BY DEF Rings
<1>2. ~(UNCHANGED vars) /\ ~Tick
  BY <1>1 DEF vars, handling, Tick
<1>3. ASSUME NEW c \in Contexts, Call(c) PROVE FALSE
  BY <1>1, <1>3 DEF Call, Start, StartRunning, Insert, Compare, Stop, Query, Called, handling
<1>4. QED
  BY <1>1, <1>2, <1>3
     DEF Next, Handler, Interrupted, Overflow, OverflowSet, Update, Finish, Irq

LEMMA EarlyIs ==
  ASSUME Punctual, TInv, PInv, [Next]_vars, Rings
  PROVE  due[ringing'] <= IF handle[ringing'].period = 0 THEN 0 ELSE MaxBusy
<1>n. Numeric
  BY Bounds
<1>1. Ring \/ RingAgain \/ RingPeriodic
  BY RingsIs
<1>2. PICK i \in 1 .. Len(list) : i = FirstToRing(list) /\ list[i].timer = ringing'
        /\ Until(list, i) = 0
  BY <1>1, RingSame
<1>3. PICK t \in Timers : t = ringing'
  BY <1>1, RingSame
<1>4. Told(t, 0)
  BY <1>2, <1>3, OfList
<1>5. PICK d \in Int, k \in Nat : d = due[t] /\ k = Slack(t)
  BY <1>3, TimerTypes
<1>6. 0 >= Clip(d + Since - k)
  BY <1>4, <1>5 DEF Told
<1>7. d <= k
  BY <1>5, <1>6, <1>n DEF Clip, Numeric
<1>8. QED
  BY <1>3, <1>5, <1>7 DEF Slack

\* No callback of a timer that expires once comes before its time is over, and one of
\* a periodic timer at most as early as the handler took to come to it.
THEOREM EarlinessBounded == ASSUME Punctual PROVE Spec => NeverEarly
<1>1. TInv /\ PInv /\ [Next]_vars =>
        [Rings => due[ringing'] <= IF handle[ringing'].period = 0 THEN 0 ELSE MaxBusy]_vars
  BY EarlyIs
<1>2. QED
  BY <1>1, PInvAlways, PTL DEF Spec, NeverEarly

LEMMA UrgentIs ==
  ASSUME Punctual, TInv, PInv, [Next]_vars, Rings,
         NEW t \in Listed, handle[t].period = 0, due[t] + Since <= 0
  PROVE  Priority[ringing'] <= Priority[t]
<1>n. Numeric
  BY Bounds
<1>1. Ring \/ RingAgain \/ RingPeriodic
  BY RingsIs
<1>2. ringing' = list[FirstToRing(list)].timer /\ irq = "ring"
  BY <1>1, RingSame
<1>3. t \in Names(list) /\ t \in Timers
  BY ListedNames DEF TInv
<1>4. Until(list, Place(t)) = Clip(due[t] + Since)
  BY DeltasAre DEF DeltasTellTime
<1>5. due[t] \in Int /\ Since \in Nat
  BY <1>3, <1>n, TimerTypes DEF Numeric
<1>6. Until(list, Place(t)) = 0
  BY <1>4, <1>5 DEF Clip
<1>7. Place(t) \in 1 .. Len(list) /\ list[Place(t)].timer = t
  BY <1>3, PlaceIs DEF TInv
<1>8. Good(list) /\ Expired(list) # {}
  BY <1>2 DEF TInv, Lists, Turns
<1>9. QED
  BY <1>2, <1>6, <1>7, <1>8, FirstToRingIs

\* The handler's choice among the expired timers of the list is one of the highest
\* priority among all whose time it knows to be over.
THEOREM UrgentRingFirst == ASSUME Punctual PROVE Spec => UrgentFirst
<1>1. TInv /\ PInv /\ [Next]_vars =>
        [Rings => \A t \in Listed :
           handle[t].period = 0 /\ due[t] + Since <= 0 => Priority[ringing'] <= Priority[t]]_vars
  BY UrgentIs
<1>2. QED
  BY <1>1, PInvAlways, PTL DEF Spec, UrgentFirst
=============================================================================
