------------------------------ MODULE BenchProofs ------------------------------
(***************************************************************************)
(* Proofs about Bench, for any numbers of runs and warm-ups, any number of  *)
(* resamples, any confidence and any drift.                                 *)
(***************************************************************************)
EXTENDS Bench, FiniteSetTheorems, SequenceTheorems, WellFoundedInduction, TLAPS

(***************************************************************************)
(* Ranks and medians.                                                       *)
(***************************************************************************)

\* Some of finitely many numbers is the least.
LEMMA LeastExists ==
    ASSUME NEW D, IsFiniteSet(D), NEW s \in [D -> Int],
           NEW E \in SUBSET D, E # {}
    PROVE  \E j \in E : \A l \in E : s[j] <= s[l]
  <1> DEFINE B(j) == {l \in D : s[l] <= s[j]}
             T == {B(j) : j \in E}
  <1>1. IsWellFoundedOn(StrictSubsetOrdering(D), FiniteSubsetsOf(D))
    BY FS_StrictSubsetOrderingWellFounded
  <1>2. T \subseteq FiniteSubsetsOf(D) /\ T # {}
    <2>1. \A X \in SUBSET D : IsFiniteSet(X)
      BY FS_Subset
    <2>2. \A j \in E : B(j) \in SUBSET D
      OBVIOUS
    <2> QED
      BY <2>1, <2>2, Zenon DEF FiniteSubsetsOf
  <1>3. \E X \in T : \A Y \in T : <<Y, X>> \notin StrictSubsetOrdering(D)
    <2> HIDE DEF T
    <2> QED
      BY <1>1, <1>2, WFMin
  <1>4. PICK j \in E :
            \A l \in E : <<B(l), B(j)>> \notin StrictSubsetOrdering(D)
    BY <1>3
  <1>5. ASSUME NEW l \in E, s[l] < s[j] PROVE FALSE
    <2>1. B(l) \subseteq B(j) /\ B(j) \subseteq D
      BY <1>5
    <2>2. j \in B(j) /\ j \notin B(l)
      BY <1>5
    <2> HIDE DEF B
    <2> QED
      BY <1>4, <2>1, <2>2 DEF StrictSubsetOrdering
  <1> QED
    BY <1>5

\* And some of them is the greatest.
LEMMA GreatestExists ==
    ASSUME NEW D, IsFiniteSet(D), NEW s \in [D -> Int],
           NEW E \in SUBSET D, E # {}
    PROVE  \E j \in E : \A l \in E : s[l] <= s[j]
  <1> DEFINE t == [j \in D |-> -s[j]]
  <1>1. t \in [D -> Int]
    OBVIOUS
  <1>2. \A j \in D : t[j] = -s[j]
    OBVIOUS
  <1> HIDE DEF t
  <1>3. PICK j \in E : \A l \in E : t[j] <= t[l]
    BY <1>1, LeastExists
  <1> QED
    BY <1>2, <1>3

\* The domain of a sequence of numbers.
LEMMA SequenceDomain ==
    ASSUME NEW s \in Seq(Int)
    PROVE  /\ DOMAIN s = 1 .. Len(s) /\ Len(s) \in Nat
           /\ s \in [DOMAIN s -> Int]
           /\ \A j \in DOMAIN s : s[j] \in Int
           /\ IsFiniteSet(DOMAIN s) /\ Cardinality(DOMAIN s) = Len(s)
  <1>1. DOMAIN s = 1 .. Len(s) /\ Len(s) \in Nat /\ s \in [1 .. Len(s) -> Int]
    BY LenProperties
  <1>2. IsFiniteSet(1 .. Len(s)) /\ Cardinality(1 .. Len(s)) = Len(s)
    BY <1>1, FS_Interval
  <1> QED
    BY <1>1, <1>2

HasRank(s, i, x) ==
    /\ Cardinality({j \in DOMAIN s : s[j] < x}) <= i
    /\ Cardinality({j \in DOMAIN s : s[j] <= x}) > i

\* The element of a rank exists, so Ranked is one of the sequence's elements.
LEMMA RankExists ==
    ASSUME NEW s \in Seq(Int), NEW i \in Nat, i < Len(s)
    PROVE  \E j \in DOMAIN s : HasRank(s, i, s[j])
  <1> DEFINE D == DOMAIN s
             B(x) == {j \in D : s[j] <= x}
             S == {j \in D : Cardinality(B(s[j])) > i}
  <1>1. /\ D = 1 .. Len(s) /\ Len(s) \in Nat /\ s \in [D -> Int]
        /\ IsFiniteSet(D) /\ Cardinality(D) = Len(s) /\ D # {}
    BY SequenceDomain
  <1>2. \A x : IsFiniteSet(B(x)) /\ Cardinality(B(x)) \in Nat
    <2>1. \A x : B(x) \in SUBSET D
      OBVIOUS
    <2> HIDE DEF B, D
    <2> QED
      BY <1>1, <2>1, FS_Subset, FS_CardinalityType
  <1>3. S # {}
    <2>1. PICK j \in D : \A l \in D : s[l] <= s[j]
      BY <1>1, GreatestExists
    <2>2. B(s[j]) = D
      BY <2>1
    <2>3. Cardinality(B(s[j])) > i
      BY <1>1, <2>2
    <2> QED
      BY <2>1, <2>3
  <1>4. PICK m \in S : \A l \in S : s[m] <= s[l]
    BY <1>1, <1>3, LeastExists
  <1> DEFINE E == {j \in D : s[j] < s[m]}
  <1>5. Cardinality(E) <= i
    <2>1. CASE E = {}
      <3> HIDE DEF E
      <3> QED
        BY <2>1, FS_EmptySet
    <2>2. CASE E # {}
      <3>1. PICK y \in E : \A l \in E : s[l] <= s[y]
        BY <1>1, <2>2, GreatestExists
      <3>2. y \in D /\ y \notin S
        BY <1>1, <1>4, <3>1
      <3>3. Cardinality(B(s[y])) <= i
        <4>1. ~(Cardinality(B(s[y])) > i)
          BY <3>2
        <4>2. Cardinality(B(s[y])) \in Nat
          BY <1>2
        <4> HIDE DEF B
        <4> QED
          BY <4>1, <4>2
      <3>4. E \subseteq B(s[y])
        BY <3>1
      <3>5. Cardinality(E) <= Cardinality(B(s[y]))
        BY <1>2, <3>4, FS_Subset
      <3>6. IsFiniteSet(E) /\ Cardinality(E) \in Nat
        BY <1>1, FS_Subset, FS_CardinalityType
      <3> HIDE DEF B, E
      <3> QED
        BY <1>2, <3>3, <3>5, <3>6
    <2> QED
      BY <2>1, <2>2
  <1> QED
    BY <1>4, <1>5 DEF HasRank

LEMMA RankedType ==
    ASSUME NEW s \in Seq(Int), NEW i \in Nat, i < Len(s)
    PROVE  /\ \E j \in DOMAIN s : Ranked(s, i) = s[j]
           /\ HasRank(s, i, Ranked(s, i))
  <1>1. \E x \in {s[j] : j \in DOMAIN s} : HasRank(s, i, x)
    BY RankExists
  <1>2. Ranked(s, i) = CHOOSE x \in {s[j] : j \in DOMAIN s} : HasRank(s, i, x)
    BY DEF Ranked, HasRank
  <1>3. /\ Ranked(s, i) \in {s[j] : j \in DOMAIN s}
        /\ HasRank(s, i, Ranked(s, i))
    BY <1>1, <1>2
  <1> QED
    BY <1>3

\* What bounds each element bounds the element of each rank.
LEMMA RankedBound ==
    ASSUME NEW s \in Seq(Int), NEW t \in Seq(Int), Len(s) = Len(t),
           NEW i \in Nat, i < Len(s), NEW d \in Int,
           \A j \in DOMAIN s : s[j] <= t[j] + d
    PROVE  Ranked(s, i) <= Ranked(t, i) + d
  <1> DEFINE x == Ranked(s, i)
             y == Ranked(t, i)
             P == {j \in DOMAIN t : t[j] <= y}
             Q == {j \in DOMAIN s : s[j] < x}
  <1>1. /\ DOMAIN s = 1 .. Len(s) /\ DOMAIN t = DOMAIN s /\ Len(s) \in Nat
        /\ \A j \in DOMAIN s : s[j] \in Int /\ t[j] \in Int
        /\ IsFiniteSet(DOMAIN s)
    BY SequenceDomain
  <1>2. x \in Int /\ y \in Int
    BY <1>1, RankedType
  <1>3. Cardinality(P) > i /\ Cardinality(Q) <= i
    BY RankedType DEF HasRank
  <1>4. SUFFICES ASSUME x > y + d PROVE FALSE
    BY <1>2
  <1>5. P \subseteq Q
    BY <1>1, <1>2, <1>4
  <1>6. /\ Cardinality(P) <= Cardinality(Q)
        /\ Cardinality(P) \in Nat /\ Cardinality(Q) \in Nat
    BY <1>1, <1>5, FS_Subset, FS_CardinalityType
  <1> HIDE DEF P, Q
  <1> QED
    BY <1>3, <1>6

\* The indices of a median are in the sequence.
LEMMA MiddleIndices ==
    ASSUME NEW n \in Nat \ {0}
    PROVE  /\ (n - 1) \div 2 \in Nat /\ (n - 1) \div 2 < n
           /\ n \div 2 \in Nat /\ n \div 2 < n
  OBVIOUS

LEMMA MedianType ==
    ASSUME NEW s \in Seq(Time), s # <<>>
    PROVE  Median2(s) \in Nat \ {0}
  <1>1. Len(s) \in Nat \ {0} /\ s \in Seq(Int)
    BY EmptySeq, SeqMonotonic DEF Time
  <1>2. \A i \in Nat : i < Len(s) => Ranked(s, i) \in Time
    BY <1>1, RankedType, LenProperties
  <1>3. /\ Ranked(s, (Len(s) - 1) \div 2) \in Time
        /\ Ranked(s, Len(s) \div 2) \in Time
    BY <1>1, <1>2, MiddleIndices
  <1> QED
    BY <1>3 DEF Median2, Time

\* What bounds each element by d bounds the doubled median by 2 * d.
LEMMA MedianBound ==
    ASSUME NEW s \in Seq(Int), NEW t \in Seq(Int), Len(s) = Len(t), s # <<>>,
           NEW d \in Int, \A j \in DOMAIN s : s[j] <= t[j] + d
    PROVE  /\ Median2(s) \in Int /\ Median2(t) \in Int
           /\ Median2(s) <= Median2(t) + 2 * d
  <1>1. Len(s) \in Nat \ {0}
    BY EmptySeq
  <1>2. \A i \in Nat : i < Len(s) =>
            /\ Ranked(s, i) \in Int /\ Ranked(t, i) \in Int
            /\ Ranked(s, i) <= Ranked(t, i) + d
    <2> SUFFICES ASSUME NEW i \in Nat, i < Len(s)
                 PROVE  /\ Ranked(s, i) \in Int /\ Ranked(t, i) \in Int
                        /\ Ranked(s, i) <= Ranked(t, i) + d
      OBVIOUS
    <2>1. Ranked(s, i) \in Int
      BY RankedType, SequenceDomain
    <2>2. Ranked(t, i) \in Int
      <3>1. i < Len(t)
        OBVIOUS
      <3>2. \E j \in DOMAIN t : Ranked(t, i) = t[j]
        BY <3>1, RankedType
      <3> QED
        BY <3>2, SequenceDomain
    <2>3. Ranked(s, i) <= Ranked(t, i) + d
      BY RankedBound
    <2> QED
      BY <2>1, <2>2, <2>3
  <1> DEFINE a == (Len(s) - 1) \div 2
             b == Len(s) \div 2
  <1>3. a \in Nat /\ a < Len(s) /\ b \in Nat /\ b < Len(s)
    BY <1>1, MiddleIndices
  <1>4. Median2(s) = Ranked(s, a) + Ranked(s, b)
    BY DEF Median2
  <1>5. Median2(t) = Ranked(t, a) + Ranked(t, b)
    BY DEF Median2
  <1> HIDE DEF a, b
  <1>6. /\ Ranked(s, a) \in Int /\ Ranked(t, a) \in Int
        /\ Ranked(s, a) <= Ranked(t, a) + d
    BY <1>2, <1>3, Zenon
  <1>7. /\ Ranked(s, b) \in Int /\ Ranked(t, b) \in Int
        /\ Ranked(s, b) <= Ranked(t, b) + d
    BY <1>2, <1>3, Zenon
  <1>8. ASSUME NEW w \in Int, NEW x \in Int, NEW y \in Int, NEW z \in Int,
               w <= y + d, x <= z + d
        PROVE  /\ w + x \in Int /\ y + z \in Int
               /\ w + x <= (y + z) + 2 * d
    BY <1>8
  <1>9. /\ Ranked(s, a) + Ranked(s, b) \in Int
        /\ Ranked(t, a) + Ranked(t, b) \in Int
        /\ Ranked(s, a) + Ranked(s, b) <=
              (Ranked(t, a) + Ranked(t, b)) + 2 * d
    BY <1>6, <1>7, <1>8, Zenon
  <1> QED
    BY <1>4, <1>5, <1>9, Zenon

(***************************************************************************)
(* Indices into the sorted ratios.                                          *)
(***************************************************************************)

\* The interval's indices are in range and in order, whatever the number of
\* resamples and the confidence (stats.rs 76-83).
LEMMA IndexBounds ==
    ASSUME NEW n \in Nat \ {0}, NEW c \in 0 .. 99
    PROVE  /\ LoIndex(n, c) \in 0 .. n - 1 /\ HiIndex(n, c) \in 0 .. n - 1
           /\ LoIndex(n, c) <= HiIndex(n, c)
           /\ 200 * LoIndex(n, c) <= n * (100 - c)
           /\ 200 * (n - 1 - HiIndex(n, c)) <= n * (100 - c)
  <1> DEFINE a == n * (100 - c)
             b == n * (100 + c)
  <1>1. a \in Nat /\ b \in Nat /\ a + b = 200 * n
    OBVIOUS
  <1>2. n <= a /\ a <= 100 * n
    <2>1. n * (100 - c) >= n * 1 /\ n * (100 - c) <= n * 100
      OBVIOUS
    <2> QED
      BY <2>1
  <1>3. /\ LoIndex(n, c) = a \div 200
        /\ HiIndex(n, c) = IF (b + 199) \div 200 < n
                           THEN (b + 199) \div 200 ELSE n - 1
    BY DEF LoIndex, HiIndex
  <1> HIDE DEF a, b
  <1>4. a = n * (100 - c)
    BY DEF a
  <1>5. /\ a \div 200 \in Nat /\ 200 * (a \div 200) <= a
        /\ a \div 200 <= n - 1
    BY <1>1, <1>2
  <1>6. /\ (b + 199) \div 200 \in Nat /\ 200 * ((b + 199) \div 200) >= b
        /\ a \div 200 <= (b + 199) \div 200
    BY <1>1, <1>2
  <1> QED
    BY <1>1, <1>2, <1>3, <1>4, <1>5, <1>6

\* The order of ratios carries decisions along.
LEMMA OrderOfRatios ==
    ASSUME NEW q \in Ratio, NEW r \in Ratio, AtMost(q, r)
    PROVE  /\ Clears(q) => Clears(r)
           /\ Slower(r) => Slower(q)
  <1>1. /\ q.num \in Nat \ {0} /\ q.den \in Nat \ {0}
        /\ r.num \in Nat \ {0} /\ r.den \in Nat \ {0}
        /\ q.num * r.den <= r.num * q.den
    BY DEF Ratio, AtMost
  <1>2. \A m, n, x, y, t \in Nat \ {0} :
           m * y <= x * n /\ 100 * m >= t * n => 100 * x >= t * y
    <2> SUFFICES ASSUME NEW m \in Nat \ {0}, NEW n \in Nat \ {0},
                        NEW x \in Nat \ {0}, NEW y \in Nat \ {0},
                        NEW t \in Nat \ {0},
                        m * y <= x * n, 100 * m >= t * n, 100 * x < t * y
                 PROVE  FALSE
      OBVIOUS
    <2>1. (100 * x) * n < (t * y) * n
      OBVIOUS
    <2>2. (t * n) * y <= (100 * m) * y
      OBVIOUS
    <2>3. 100 * (m * y) <= 100 * (x * n)
      OBVIOUS
    <2>4. /\ (t * y) * n = (t * n) * y
          /\ (100 * m) * y = 100 * (m * y) /\ (100 * x) * n = 100 * (x * n)
      OBVIOUS
    <2> QED
      BY <2>1, <2>2, <2>3, <2>4
  <1>3. \A m, n, x, y \in Nat \ {0} : m * y <= x * n /\ x < y => m < n
    <2> SUFFICES ASSUME NEW m \in Nat \ {0}, NEW n \in Nat \ {0},
                        NEW x \in Nat \ {0}, NEW y \in Nat \ {0},
                        m * y <= x * n, x < y, m >= n
                 PROVE  FALSE
      OBVIOUS
    <2>1. x * n < y * n
      OBVIOUS
    <2>2. n * y <= m * y
      OBVIOUS
    <2>3. y * n = n * y
      OBVIOUS
    <2> QED
      BY <2>1, <2>2, <2>3
  <1>4. 100 + Bar \in Nat \ {0}
    BY BenchAssumption
  <1> QED
    BY <1>1, <1>2, <1>3, <1>4 DEF Clears, Slower

\* Sorted ratios on the wrong side of a decision are few.
LEMMA FewDisagree ==
    ASSUME NEW s \in Seq(Ratio), Sorted(s), Len(s) # 0, NEW c \in 0 .. 99
    PROVE  LET alpha200 == Len(s) * (100 - c)
           IN  /\ Clears(s[LoIndex(Len(s), c) + 1]) =>
                     200 * Cardinality({i \in DOMAIN s : ~Clears(s[i])})
                         <= alpha200
               /\ Slower(s[HiIndex(Len(s), c) + 1]) =>
                     200 * Cardinality({i \in DOMAIN s : ~Slower(s[i])})
                         <= alpha200
  <1> DEFINE n == Len(s)
             lo == LoIndex(n, c)
             hi == HiIndex(n, c)
             a == n * (100 - c)
             P == {i \in DOMAIN s : ~Clears(s[i])}
             Q == {i \in DOMAIN s : ~Slower(s[i])}
  <1>1. /\ n \in Nat \ {0} /\ DOMAIN s = 1 .. n
        /\ \A i \in 1 .. n : s[i] \in Ratio
    BY LenProperties
  <1>2. /\ lo \in 0 .. n - 1 /\ hi \in 0 .. n - 1
        /\ 200 * lo <= a /\ 200 * (n - 1 - hi) <= a
    BY <1>1, IndexBounds
  <1> HIDE DEF lo, hi, a, n
  <1>3. ASSUME Clears(s[lo + 1]) PROVE 200 * Cardinality(P) <= a
    <2>1. ASSUME NEW i \in 1 .. n, i >= lo + 1 PROVE Clears(s[i])
      <3>1. lo + 1 \in 1 .. n
        BY <1>1, <1>2
      <3>2. AtMost(s[lo + 1], s[i])
        BY <1>1, <2>1, <3>1 DEF Sorted
      <3> QED
        BY <1>1, <1>3, <3>1, <3>2, OrderOfRatios
    <2>2. P \subseteq 1 .. lo
      BY <1>1, <1>2, <2>1
    <2>3. IsFiniteSet(1 .. lo) /\ Cardinality(1 .. lo) = lo
      BY <1>2, FS_Interval
    <2>4. Cardinality(P) <= lo /\ Cardinality(P) \in Nat
      BY <2>2, <2>3, FS_Subset, FS_CardinalityType
    <2> HIDE DEF P
    <2> QED
      BY <1>1, <1>2, <2>4 DEF a
  <1>4. ASSUME Slower(s[hi + 1]) PROVE 200 * Cardinality(Q) <= a
    <2>1. ASSUME NEW i \in 1 .. n, i <= hi + 1 PROVE Slower(s[i])
      <3>1. hi + 1 \in 1 .. n
        BY <1>1, <1>2
      <3>2. AtMost(s[i], s[hi + 1])
        BY <1>1, <2>1, <3>1 DEF Sorted
      <3> QED
        BY <1>1, <1>4, <3>1, <3>2, OrderOfRatios
    <2>2. Q \subseteq hi + 2 .. n
      BY <1>1, <1>2, <2>1
    <2>3. IsFiniteSet(hi + 2 .. n) /\ Cardinality(hi + 2 .. n) = n - 1 - hi
      <3>1. hi \in Int /\ hi + 2 \in Int /\ n \in Int /\ hi <= n - 1
        BY <1>1, <1>2
      <3>2. /\ IsFiniteSet(hi + 2 .. n)
            /\ Cardinality(hi + 2 .. n) =
                  IF hi + 2 > n THEN 0 ELSE n - (hi + 2) + 1
        BY <3>1, FS_Interval
      <3>3. CASE hi + 2 > n
        <4>1. hi = n - 1
          BY <1>1, <1>2, <3>3
        <4>2. n - 1 - hi = 0
          BY <1>1, <4>1
        <4> QED
          BY <3>2, <3>3, <4>2
      <3>4. CASE ~(hi + 2 > n)
        <4>1. n - (hi + 2) + 1 = n - 1 - hi
          BY <3>1
        <4> QED
          BY <3>2, <3>4, <4>1
      <3> QED
        BY <3>3, <3>4
    <2> HIDE DEF Q
    <2>4. Cardinality(Q) <= n - 1 - hi /\ Cardinality(Q) \in Nat
      <3>1. IsFiniteSet(Q) /\ Cardinality(Q) <= Cardinality(hi + 2 .. n)
        BY <2>2, <2>3, FS_Subset, Zenon
      <3>2. Cardinality(Q) \in Nat
        BY <3>1, FS_CardinalityType, Zenon
      <3> QED
        BY <2>3, <3>1, <3>2, Zenon
    <2> HIDE DEF Q
    <2> QED
      BY <1>1, <1>2, <2>4 DEF a
  <1> QED
    BY <1>3, <1>4 DEF lo, hi, a, n

(***************************************************************************)
(* The invariant.                                                           *)
(***************************************************************************)

\* The schedule's parameters and what a run costs.
LEMMA ParameterTypes ==
    ASSUME cfg \in Config, inject \in Nat
    PROVE  /\ PlanRuns \in Nat \ {0} /\ PlanWarmUps \in Nat
           /\ PlanLength(PlanRuns, PlanWarmUps) \in Nat
           /\ PlanLength(PlanRuns, PlanWarmUps) = 2 * (PlanRuns + PlanWarmUps)
           /\ \A side : Cost(side) \in Time
  <1>1. /\ PlanRuns \in Nat \ {0} /\ PlanWarmUps \in Nat
        /\ PlanLength(PlanRuns, PlanWarmUps) = 2 * (PlanRuns + PlanWarmUps)
    BY BenchAssumption DEF PlanRuns, PlanWarmUps, PlanLength
  <1>2. Overhead \in Nat /\ Spin \in Nat
    BY BenchAssumption DEF Overhead, Spin
  <1>3. cfg.candidate \in Nat \ {0} /\ BaseTime \in Nat \ {0}
    BY BenchAssumption DEF Config
  <1>4. \A side : Cost(side) \in Time
    <2>1. /\ BaseTime + Overhead \in Time
          /\ cfg.candidate + Overhead + Spin \in Time
      BY <1>2, <1>3 DEF Time
    <2> QED
      BY <2>1 DEF Cost
  <1> QED
    BY <1>1, <1>4

\* Resampled medians are times.
LEMMA ResampledType ==
    ASSUME NEW s \in Seq(Time), s # <<>>
    PROVE  Resampled(s) \subseteq Nat \ {0}
  <1>1. Len(s) \in Nat \ {0} /\ DOMAIN s = 1 .. Len(s)
    BY EmptySeq, LenProperties
  <1>2. ASSUME NEW pick \in [DOMAIN s -> DOMAIN s]
        PROVE  Median2([i \in DOMAIN s |-> s[pick[i]]]) \in Nat \ {0}
    <2> DEFINE t == [i \in 1 .. Len(s) |-> s[pick[i]]]
    <2>1. \A i \in 1 .. Len(s) : s[pick[i]] \in Time
      BY <1>1, ElementOfSeq
    <2>2. t \in Seq(Time)
      BY <1>1, <2>1
    <2>3. t # <<>>
      <3>1. DOMAIN t = 1 .. Len(s) /\ 1 \in 1 .. Len(s)
        BY <1>1
      <3> QED
        BY <3>1
    <2> HIDE DEF t
    <2>4. Median2(t) \in Nat \ {0}
      BY <2>2, <2>3, MedianType
    <2> QED
      BY <1>1, <2>4 DEF t
  <1> QED
    BY <1>2 DEF Resampled

\* The bootstrap's ratios are a sorted sequence of ratios.
LEMMA RatiosType ==
    ASSUME base \in Seq(Time), base # <<>>, cand \in Seq(Time), cand # <<>>,
           NEW n \in Nat, NEW s \in RatiosOf(n)
    PROVE  s \in Seq(Ratio) /\ Len(s) = n /\ Sorted(s)
  <1>1. s \in [1 .. n -> [num : Resampled(base), den : Resampled(cand)]]
        /\ Sorted(s)
    BY DEF RatiosOf
  <1>2. [num : Resampled(base), den : Resampled(cand)] \subseteq Ratio
    BY ResampledType DEF Ratio
  <1>3. s \in [1 .. n -> Ratio]
    BY <1>1, <1>2
  <1> QED
    BY <1>1, <1>3

\* What Append does to a sequence of times.
LEMMA AppendSample ==
    ASSUME NEW s \in Seq(Time), NEW t \in Time
    PROVE  /\ Append(s, t) \in Seq(Time) /\ Len(Append(s, t)) = Len(s) + 1
           /\ DOMAIN Append(s, t) = 1 .. Len(s) + 1
           /\ Append(s, t)[Len(s) + 1] = t
           /\ \A i \in 1 .. Len(s) : Append(s, t)[i] = s[i]
  BY AppendProperties, LenProperties

LEMMA BenchInit == Init => BenchInv
  <1> SUFFICES ASSUME Init PROVE BenchInv
    OBVIOUS
  <1>1. /\ base = <<>> /\ cand = <<>> /\ ratios = <<>> /\ k = 0
        /\ cfg \in Config /\ inject = 0
    BY DEF Init
  <1>2. /\ Len(base) = 0 /\ Len(cand) = 0 /\ Len(ratios) = 0
        /\ DOMAIN cand = {}
        /\ base \in Seq(Time) /\ cand \in Seq(Time) /\ ratios \in Seq(Ratio)
    BY <1>1
  <1>3. TypeOK
    <2>1. /\ PlanRuns \in Nat \ {0}
          /\ PlanLength(PlanRuns, PlanWarmUps) \in Nat
      BY <1>1, ParameterTypes
    <2>2. /\ k \in 0 .. PlanLength(PlanRuns, PlanWarmUps)
          /\ Len(base) <= PlanRuns /\ Len(cand) <= PlanRuns
      BY <1>1, <1>2, <2>1
    <2>3. /\ heat \in 0 .. MaxHeat /\ sess = 0 /\ fp = 0 /\ det = 0
          /\ result = "running" /\ moved = FALSE
          /\ part \in {"probe", "compare"}
      BY DEF Init
    <2> QED
      BY <1>1, <1>2, <2>2, <2>3 DEF TypeOK
  <1>4. Progress
    BY <1>1, <1>2, ParameterTypes DEF Progress
  <1> QED
    BY <1>1, <1>2, <1>3, <1>4
    DEF BenchInv, PairsSeeOneMachine, LastAtHeat, Estimates, Estimated

\* Where a comparison begins, nothing has been measured.
LEMMA MeasureStep ==
    ASSUME BenchInv, NEW p \in {"aa", "inject", "judge"}, Measure(p),
           cfg' = cfg, heat' = heat, inject' \in Nat,
           sess' \in Nat, fp' \in Nat, det' \in Nat,
           result' = result, moved' = moved
    PROVE  BenchInv'
  <1>1. /\ base' = <<>> /\ cand' = <<>> /\ ratios' = <<>> /\ k' = 0
        /\ part' = p /\ (cfg \in Config)'
    BY DEF Measure, BenchInv, TypeOK
  <1>2. /\ Len(base') = 0 /\ Len(cand') = 0 /\ Len(ratios') = 0
        /\ DOMAIN cand' = {}
        /\ base' \in Seq(Time) /\ cand' \in Seq(Time)
        /\ ratios' \in Seq(Ratio)
    BY <1>1
  <1>3. /\ PlanRuns' \in Nat \ {0} /\ PlanWarmUps' \in Nat
        /\ PlanLength(PlanRuns, PlanWarmUps)' \in Nat
    BY BenchAssumption DEF PlanRuns, PlanWarmUps, PlanLength
  <1>4. TypeOK'
    BY <1>1, <1>2, <1>3 DEF BenchInv, TypeOK
  <1>5. Progress'
    <2>1. (0 + 1) \div 2 = 0 /\ 0 \div 2 = 0
      OBVIOUS
    <2>2. ~(0 > PlanWarmUps')
      BY <1>3
    <2> QED
      BY <1>1, <1>2, <2>1, <2>2 DEF Progress
  <1> QED
    BY <1>1, <1>2, <1>4, <1>5
    DEF BenchInv, PairsSeeOneMachine, LastAtHeat, Estimates, Estimated

\* A run adds its sample, if it is measured, to the side whose turn it is.
LEMMA RunStep ==
    ASSUME BenchInv, Run
    PROVE  BenchInv'
  <1> DEFINE W == PlanWarmUps
             side == SideAt(k, PlanRuns, PlanWarmUps)
             keep == MeasuredAt(k, PlanWarmUps)
  <1> USE DEF BenchInv
  <1>1. PICK h \in 0 .. MaxHeat :
            /\ Near(h, heat) /\ heat' = h /\ moved' = (moved \/ h # heat)
            /\ base' = IF keep /\ side = "baseline"
                       THEN Append(base, Cost(side) + h) ELSE base
            /\ cand' = IF keep /\ side = "candidate"
                       THEN Append(cand, Cost(side) + h) ELSE cand
    BY DEF Run
  <1>2. /\ k' = k + 1
        /\ UNCHANGED <<cfg, part, inject, ratios, sess, fp, det, result>>
        /\ ~PlanDone
    BY DEF Run, counts
  <1>3. /\ PlanRuns' = PlanRuns /\ PlanWarmUps' = PlanWarmUps
        /\ \A x : Cost(x)' = Cost(x)
    BY <1>2 DEF PlanRuns, PlanWarmUps, Cost, Overhead, Spin
  <1>4. /\ PlanRuns \in Nat \ {0} /\ W \in Nat
        /\ k \in Nat /\ k < 2 * (PlanRuns + W)
        /\ PlanLength(PlanRuns, W) = 2 * (PlanRuns + W)
        /\ \A x : Cost(x) \in Time
    BY <1>2, ParameterTypes DEF TypeOK, PlanDone
  <1>5. ~Estimated /\ ~Estimated'
    BY <1>2 DEF Estimates, Estimated
  <1>6. Drift \in Nat /\ MaxHeat \in Nat /\ heat \in Nat /\ h \in Nat
    BY BenchAssumption DEF TypeOK
  <1>7. Cost(side) + h \in Time
    BY <1>4, <1>6 DEF Time
  <1>8. /\ keep <=> k \div 2 >= W
        /\ side = IF k % 2 = 0 THEN "baseline" ELSE "candidate"
    BY DEF MeasuredAt, SideAt
  <1>9. /\ base \in Seq(Time) /\ cand \in Seq(Time)
        /\ Len(base) \in Nat /\ Len(cand) \in Nat
        /\ Len(base) = IF (k + 1) \div 2 > W THEN (k + 1) \div 2 - W ELSE 0
        /\ Len(cand) = IF k \div 2 > W THEN k \div 2 - W ELSE 0
    BY DEF TypeOK, Progress
  <1> HIDE DEF side, keep, W, BenchInv
  <1>10. CASE keep /\ side = "baseline"
    <2>1. /\ base' = Append(base, Cost("baseline") + h) /\ cand' = cand
          /\ k % 2 = 0 /\ k \div 2 >= W
      BY <1>1, <1>8, <1>10
    <2>2. /\ base' \in Seq(Time) /\ Len(base') = Len(base) + 1
          /\ base'[Len(base')] = Cost("baseline") + h
          /\ \A i \in 1 .. Len(base) : base'[i] = base[i]
      <3>1. Cost("baseline") + h \in Time
        BY <1>4, <1>6 DEF Time
      <3> QED
        BY <1>9, <2>1, <3>1, AppendSample
    <2>3. Len(base) = Len(cand)
      BY <1>4, <1>9, <2>1
    <2>4. Progress'
      <3>1. (k + 1) \div 2 = k \div 2 /\ (k + 1 + 1) \div 2 = k \div 2 + 1
        <4>1. \A j \in Nat : j % 2 = 0 =>
                 (j + 1) \div 2 = j \div 2 /\ (j + 1 + 1) \div 2 = j \div 2 + 1
          OBVIOUS
        <4> QED
          BY <1>4, <2>1, <4>1
      <3>2. Len(base') = (k \div 2 + 1) - W /\ k \div 2 + 1 > W
        <4>1. k \div 2 \in Nat /\ W \in Nat
          BY <1>4
        <4>2. Len(base) = k \div 2 - W
          BY <1>9, <2>1, <3>1, <4>1
        <4> QED
          BY <2>1, <2>2, <4>1, <4>2
      <3>3. /\ Len(base') = IF (k + 1 + 1) \div 2 > W
                            THEN (k + 1 + 1) \div 2 - W ELSE 0
            /\ Len(cand') = IF (k + 1) \div 2 > W
                            THEN (k + 1) \div 2 - W ELSE 0
        <4>1. Len(cand') = IF (k + 1) \div 2 > W
                           THEN (k + 1) \div 2 - W ELSE 0
          BY <1>9, <2>1, <3>1, Zenon
        <4>2. Len(base') = IF (k + 1 + 1) \div 2 > W
                           THEN (k + 1 + 1) \div 2 - W ELSE 0
          BY <3>1, <3>2, Zenon
        <4> QED
          BY <4>1, <4>2
      <3>4. k' = k + 1 /\ W = PlanWarmUps'
        BY <1>2, <1>3 DEF W
      <3> QED
        BY <3>3, <3>4 DEF Progress
    <2>5. Len(base') <= PlanRuns
      BY <1>4, <1>9, <2>1, <2>2
    <2>6. TypeOK'
      BY <1>1, <1>2, <1>3, <1>4, <1>5, <2>1, <2>2, <2>5
      DEF BenchInv, TypeOK, W, PlanLength
    <2>7. PairsSeeOneMachine'
      <3>1. DOMAIN cand = 1 .. Len(cand)
        BY <1>9, LenProperties
      <3> QED
        BY <1>3, <1>9, <2>1, <2>2, <2>3, <3>1 DEF BenchInv, PairsSeeOneMachine
    <2>8. LastAtHeat'
      BY <1>1, <1>3, <2>2 DEF LastAtHeat
    <2> QED
      BY <1>5, <2>4, <2>6, <2>7, <2>8 DEF BenchInv, Estimates
  <1>11. CASE keep /\ side = "candidate"
    <2>1. /\ cand' = Append(cand, Cost("candidate") + h) /\ base' = base
          /\ k % 2 # 0 /\ k \div 2 >= W
      BY <1>1, <1>8, <1>11
    <2>2. /\ cand' \in Seq(Time) /\ Len(cand') = Len(cand) + 1
          /\ DOMAIN cand' = 1 .. Len(cand) + 1
          /\ cand'[Len(cand) + 1] = Cost("candidate") + h
          /\ \A i \in 1 .. Len(cand) : cand'[i] = cand[i]
      <3>1. Cost("candidate") + h \in Time
        BY <1>4, <1>6 DEF Time
      <3> QED
        BY <1>9, <2>1, <3>1, AppendSample
    <2>3. Len(base) = Len(cand) + 1
      BY <1>4, <1>9, <2>1
    <2>4. Progress'
      BY <1>2, <1>3, <1>4, <1>9, <2>1, <2>2 DEF Progress, W
    <2>5. Len(cand') <= PlanRuns
      BY <1>4, <1>9, <2>1, <2>2
    <2>6. TypeOK'
      BY <1>1, <1>2, <1>3, <1>4, <1>5, <2>1, <2>2, <2>5
      DEF BenchInv, TypeOK, W, PlanLength
    <2>7. PairsSeeOneMachine'
      <3>1. DOMAIN cand = 1 .. Len(cand)
        BY <1>9, LenProperties
      <3>2. base[Len(cand) + 1] = Cost("baseline") + heat
        BY <2>3 DEF BenchInv, LastAtHeat
      <3>3. /\ Cost("candidate") \in Nat /\ Cost("baseline") \in Nat
        BY <1>4 DEF Time
      <3>4. Near(cand'[Len(cand) + 1] - Cost("candidate"),
                 base[Len(cand) + 1] - Cost("baseline"))
        BY <1>1, <1>6, <2>2, <3>2, <3>3 DEF Near
      <3>5. \A i \in 1 .. Len(cand) :
               Near(cand'[i] - Cost("candidate"), base[i] - Cost("baseline"))
        BY <2>2, <3>1 DEF BenchInv, PairsSeeOneMachine
      <3>6. \A i \in 1 .. Len(cand) + 1 :
               Near(cand'[i] - Cost("candidate"), base[i] - Cost("baseline"))
        BY <1>9, <3>4, <3>5
      <3>7. Len(base') - Len(cand') \in {0, 1}
        BY <1>9, <2>1, <2>2, <2>3
      <3> QED
        BY <1>3, <2>1, <2>2, <3>6, <3>7 DEF PairsSeeOneMachine
    <2>8. LastAtHeat'
      BY <1>9, <2>1, <2>2, <2>3 DEF LastAtHeat
    <2> QED
      BY <1>5, <2>4, <2>6, <2>7, <2>8 DEF BenchInv, Estimates
  <1>12. CASE ~keep
    <2>1. base' = base /\ cand' = cand /\ k \div 2 < W
      BY <1>1, <1>4, <1>8, <1>12
    <2>2. Len(base) = 0 /\ Len(cand) = 0
      BY <1>4, <1>9, <2>1
    <2>3. Progress'
      BY <1>2, <1>3, <1>4, <1>9, <2>1 DEF Progress, W
    <2>4. TypeOK'
      BY <1>1, <1>2, <1>3, <1>4, <1>5, <2>1
      DEF BenchInv, TypeOK, W, PlanLength
    <2>5. PairsSeeOneMachine' /\ LastAtHeat'
      BY <1>3, <2>1, <2>2 DEF BenchInv, PairsSeeOneMachine, LastAtHeat
    <2> QED
      BY <1>5, <2>3, <2>4, <2>5 DEF BenchInv, Estimates
  <1> QED
    BY <1>8, <1>10, <1>11, <1>12

\* When the schedule is over, both sides have all of their samples.
LEMMA PlanDoneSamples ==
    ASSUME BenchInv, PlanDone
    PROVE  /\ Len(base) = PlanRuns /\ Len(cand) = PlanRuns
           /\ base # <<>> /\ cand # <<>>
  <1>1. /\ PlanRuns \in Nat \ {0} /\ PlanWarmUps \in Nat
        /\ k = 2 * (PlanRuns + PlanWarmUps)
    BY ParameterTypes DEF BenchInv, TypeOK, PlanDone
  <1>2. Len(base) = PlanRuns /\ Len(cand) = PlanRuns
    BY <1>1 DEF BenchInv, Progress
  <1> QED
    BY <1>1, <1>2, EmptySeq DEF BenchInv, TypeOK

LEMMA BenchStep ==
    ASSUME BenchInv, [Next]_vars
    PROVE  BenchInv'
  <1>1. CASE Run
    BY <1>1, RunStep
  <1>2. ASSUME UNCHANGED <<cfg, part, k, base, cand, ratios, heat, inject>>,
               UNCHANGED <<sess, fp, det, moved>>,
               result' \in {"running", "accepted", "rejected-bench", "pass",
                            "fail", "error", "panic"}
        PROVE  BenchInv'
    BY <1>2 DEF BenchInv, TypeOK, Progress, PairsSeeOneMachine, LastAtHeat,
       Estimates, Estimated, PlanDone, PlanRuns, PlanWarmUps, Cost, Overhead,
       Spin, PlanLength
  <1>3. CASE RunFails \/ Decide \/ SelfTest \/ Judge
    BY <1>2, <1>3 DEF RunFails, Decide, SelfTest, Judge, samples, counts
  <1>4. CASE UNCHANGED vars
    BY <1>2, <1>4 DEF vars, samples, counts, BenchInv, TypeOK
  <1>5. CASE Bootstrap
    <2>1. CASE cfg.iters = 0
      BY <1>2, <1>5, <2>1 DEF Bootstrap, counts
    <2>2. CASE cfg.iters # 0
      <3>1. /\ ratios' \in RatiosOf(cfg.iters) /\ PlanDone
            /\ part \notin {"probe", "judge"}
            /\ UNCHANGED <<cfg, part, k, base, cand, heat, inject, sess, fp,
                           det, result, moved>>
        BY <1>5, <2>2 DEF Bootstrap, Running, counts
      <3>2. cfg.iters \in Nat
        BY BenchAssumption DEF BenchInv, TypeOK, Config
      <3>3. /\ ratios' \in Seq(Ratio) /\ Len(ratios') = cfg.iters
            /\ Sorted(ratios')
        BY <3>1, <3>2, PlanDoneSamples, RatiosType DEF BenchInv, TypeOK
      <3>4. TypeOK'
        BY <3>1, <3>3
        DEF BenchInv, TypeOK, PlanRuns, PlanWarmUps, PlanLength
      <3>5. Progress' /\ PairsSeeOneMachine' /\ LastAtHeat'
        BY <3>1 DEF BenchInv, Progress, PairsSeeOneMachine, LastAtHeat,
           PlanRuns, PlanWarmUps, Cost, Overhead, Spin
      <3>6. Estimates'
        BY <3>1, <3>3 DEF Estimates, Estimated, PlanDone, PlanRuns,
           PlanWarmUps, PlanLength
      <3> QED
        BY <3>4, <3>5, <3>6 DEF BenchInv
    <2> QED
      BY <2>1, <2>2
  <1>6. CASE SizeInjection
    <2>1. Median2(base) \in Nat \ {0}
      BY <1>6, PlanDoneSamples, MedianType DEF SizeInjection, BenchInv, TypeOK
    <2>2. inject' = (Median2(base) * Slowdown) \div 200
      BY <1>6 DEF SizeInjection
    <2>3. inject' \in Nat
      <3>1. Median2(base) * Slowdown \in Nat
        BY <2>1, BenchAssumption
      <3>2. \A x \in Nat : x \div 200 \in Nat
        OBVIOUS
      <3> QED
        BY <2>2, <3>1, <3>2
    <2>4. PICK p \in {"aa", "inject", "judge"} : Measure(p)
      BY <1>6 DEF SizeInjection
    <2> QED
      BY <1>6, <2>3, <2>4, MeasureStep
      DEF SizeInjection, counts, BenchInv, TypeOK
  <1>7. CASE CountFalsePositive
    BY <1>7, MeasureStep DEF CountFalsePositive, BenchInv, TypeOK
  <1>8. CASE CountDetection
    <2>1. PICK p \in {"aa", "inject", "judge"} : Measure(p)
      BY <1>8 DEF CountDetection
    <2> QED
      BY <1>8, <2>1, MeasureStep DEF CountDetection, BenchInv, TypeOK
  <1> QED
    BY <1>1, <1>3, <1>4, <1>5, <1>6, <1>7, <1>8 DEF Next

LEMMA BenchInvHolds == Spec => []BenchInv
  BY BenchInit, BenchStep, PTL DEF Spec

\* Every reachable state is well typed, and no side has more samples than
\* measured runs.
THEOREM BenchTypeCorrect == Spec => []TypeOK
  <1>1. BenchInv => TypeOK
    BY DEF BenchInv
  <1> QED
    BY <1>1, BenchInvHolds, PTL

\* The i-th samples of the two sides differ by what the commands differ and by
\* no more than one run's drift (schedule.rs 1-3).
THEOREM PairsMatch == Spec => []PairsSeeOneMachine
  <1>1. BenchInv => PairsSeeOneMachine
    BY DEF BenchInv
  <1> QED
    BY <1>1, BenchInvHolds, PTL

\* So do the medians, however far the machine drifts over the whole bench.
THEOREM InterleavingCancelsDrift == Spec => []DriftCancels
  <1>1. ASSUME BenchInv PROVE DriftCancels
    <2> SUFFICES ASSUME Estimated
                 PROVE  LET d == Median2(cand) - Median2(base)
                                - 2 * (Cost("candidate") - Cost("baseline"))
                        IN  d <= 2 * Drift /\ -d <= 2 * Drift
      BY DEF DriftCancels
    <2> DEFINE x == Cost("candidate") - Cost("baseline")
    <2>1. /\ Len(base) = Len(cand) /\ base # <<>> /\ cand # <<>>
      BY <1>1, PlanDoneSamples DEF BenchInv, Estimates
    <2>2. /\ base \in Seq(Int) /\ cand \in Seq(Int)
          /\ base \in Seq(Time) /\ cand \in Seq(Time)
      BY <1>1, SeqMonotonic DEF BenchInv, TypeOK, Time
    <2>3. /\ Cost("candidate") \in Int /\ Cost("baseline") \in Int
          /\ Drift \in Int
      BY <1>1, ParameterTypes, BenchAssumption DEF BenchInv, TypeOK, Time
    <2>4. /\ DOMAIN base = DOMAIN cand
          /\ \A i \in DOMAIN cand : base[i] \in Int /\ cand[i] \in Int
      BY <2>1, <2>2, SequenceDomain
    <2>5. \A i \in DOMAIN cand :
              Near(cand[i] - Cost("candidate"), base[i] - Cost("baseline"))
      BY <1>1 DEF BenchInv, PairsSeeOneMachine
    <2>6. /\ \A i \in DOMAIN cand : cand[i] <= base[i] + (x + Drift)
          /\ \A i \in DOMAIN base : base[i] <= cand[i] + (Drift - x)
      BY <2>3, <2>4, <2>5 DEF Near
    <2>7. x \in Int
      BY <2>3
    <2> HIDE DEF x
    <2>8. /\ Median2(cand) \in Int /\ Median2(base) \in Int
          /\ Median2(cand) <= Median2(base) + 2 * (x + Drift)
      <3>1. x + Drift \in Int
        BY <2>3, <2>7
      <3> QED
        BY <2>1, <2>2, <2>4, <2>6, <3>1, MedianBound
    <2>9. Median2(base) <= Median2(cand) + 2 * (Drift - x)
      <3>1. Drift - x \in Int
        BY <2>3, <2>7
      <3> QED
        BY <2>1, <2>2, <2>4, <2>6, <3>1, MedianBound
    <2> QED
      BY <2>3, <2>7, <2>8, <2>9 DEF x
  <1> QED
    BY <1>1, BenchInvHolds, PTL

\* A speedup is claimed, or a regression resolved, only when no more than alpha
\* of the resamples disagree (SPEC 3.1).
THEOREM IntervalsDecide == Spec => []DecisionsAtConfidence
  <1>1. ASSUME BenchInv PROVE DecisionsAtConfidence
    <2> SUFFICES ASSUME Estimated PROVE DecisionsAtConfidence
      BY DEF DecisionsAtConfidence
    <2>1. /\ ratios \in Seq(Ratio) /\ Sorted(ratios)
          /\ Len(ratios) # 0 /\ Len(ratios) = cfg.iters
      BY <1>1, EmptySeq DEF BenchInv, TypeOK, Estimates, Estimated
    <2>2. cfg.confidence \in 0 .. 99
      BY <1>1, BenchAssumption DEF BenchInv, TypeOK, Config
    <2> QED
      BY <2>1, <2>2, FewDisagree DEF DecisionsAtConfidence, Lo, Hi
  <1> QED
    BY <1>1, BenchInvHolds, PTL

(***************************************************************************)
(* What the samples say of the interval.                                    *)
(***************************************************************************)

\* What bounds each element bounds the median.
LEMMA MedianRange ==
    ASSUME NEW s \in Seq(Time), s # <<>>, NEW lo \in Nat, NEW hi \in Nat,
           \A j \in DOMAIN s : lo <= s[j] /\ s[j] <= hi
    PROVE  2 * lo <= Median2(s) /\ Median2(s) <= 2 * hi
  <1> DEFINE a == (Len(s) - 1) \div 2
             b == Len(s) \div 2
  <1>1. Len(s) \in Nat \ {0} /\ s \in Seq(Int)
    BY EmptySeq, SeqMonotonic DEF Time
  <1>2. a \in Nat /\ a < Len(s) /\ b \in Nat /\ b < Len(s)
    BY <1>1, MiddleIndices
  <1>3. Median2(s) = Ranked(s, a) + Ranked(s, b)
    BY DEF Median2
  <1> HIDE DEF a, b
  <1>4. /\ \E j \in DOMAIN s : Ranked(s, a) = s[j]
        /\ \E j \in DOMAIN s : Ranked(s, b) = s[j]
    BY <1>1, <1>2, RankedType
  <1>5. \A j \in DOMAIN s : s[j] \in Int
    BY <1>1, SequenceDomain
  <1>6. /\ Ranked(s, a) \in Int /\ lo <= Ranked(s, a) /\ Ranked(s, a) <= hi
        /\ Ranked(s, b) \in Int /\ lo <= Ranked(s, b) /\ Ranked(s, b) <= hi
    BY <1>4, <1>5
  <1> QED
    BY <1>3, <1>6

\* And the median of every resample.
LEMMA ResampledRange ==
    ASSUME NEW s \in Seq(Time), s # <<>>, NEW lo \in Nat, NEW hi \in Nat,
           \A j \in DOMAIN s : lo <= s[j] /\ s[j] <= hi,
           NEW m \in Resampled(s)
    PROVE  m \in Nat /\ 2 * lo <= m /\ m <= 2 * hi
  <1>1. Len(s) \in Nat \ {0} /\ DOMAIN s = 1 .. Len(s)
    BY EmptySeq, LenProperties
  <1>2. PICK pick \in [DOMAIN s -> DOMAIN s] :
            m = Median2([i \in DOMAIN s |-> s[pick[i]]])
    BY DEF Resampled
  <1> DEFINE t == [i \in 1 .. Len(s) |-> s[pick[i]]]
  <1>3. m = Median2(t)
    BY <1>1, <1>2
  <1>4. \A i \in 1 .. Len(s) : s[pick[i]] \in Time
    BY <1>1, ElementOfSeq
  <1>5. t \in Seq(Time)
    BY <1>1, <1>4
  <1>6. t # <<>>
    <2>1. DOMAIN t = 1 .. Len(s) /\ 1 \in 1 .. Len(s)
      BY <1>1
    <2> QED
      BY <2>1
  <1>7. \A j \in DOMAIN t : lo <= t[j] /\ t[j] <= hi
    BY <1>1
  <1> HIDE DEF t
  <1>8. 2 * lo <= Median2(t) /\ Median2(t) <= 2 * hi
    BY <1>5, <1>6, <1>7, MedianRange
  <1>9. m \in Nat
    BY ResampledType
  <1> QED
    BY <1>3, <1>8, <1>9

\* A sequence of times has a least and a greatest.
LEMMA Extremes ==
    ASSUME NEW s \in Seq(Time), s # <<>>
    PROVE  \E l \in DOMAIN s, g \in DOMAIN s :
              /\ s[l] \in Nat /\ s[g] \in Nat
              /\ \A j \in DOMAIN s : s[l] <= s[j] /\ s[j] <= s[g]
  <1>1. s \in Seq(Int) /\ Len(s) \in Nat \ {0}
    BY EmptySeq, SeqMonotonic DEF Time
  <1>2. /\ IsFiniteSet(DOMAIN s) /\ s \in [DOMAIN s -> Int]
        /\ DOMAIN s = 1 .. Len(s)
    BY <1>1, SequenceDomain
  <1> DOMAIN s # {}
    BY <1>1, <1>2
  <1>3. PICK l \in DOMAIN s : \A j \in DOMAIN s : s[l] <= s[j]
    BY <1>2, LeastExists
  <1>4. PICK g \in DOMAIN s : \A j \in DOMAIN s : s[j] <= s[g]
    BY <1>2, GreatestExists
  <1>5. \A j \in DOMAIN s : s[j] \in Nat
    BY LenProperties DEF Time
  <1> QED
    BY <1>3, <1>4, <1>5

\* The ends of the interval are ratios of resampled medians.
LEMMA EndsAreRatios ==
    ASSUME BenchInv, FromSamples, Estimated
    PROVE  /\ base \in Seq(Time) /\ base # <<>>
           /\ cand \in Seq(Time) /\ cand # <<>>
           /\ Lo.num \in Resampled(base) /\ Lo.den \in Resampled(cand)
           /\ Hi.num \in Resampled(base) /\ Hi.den \in Resampled(cand)
           /\ Lo \in Ratio /\ Hi \in Ratio /\ AtMost(Lo, Hi)
  <1> DEFINE n == cfg.iters
             lo == LoIndex(n, cfg.confidence)
             hi == HiIndex(n, cfg.confidence)
  <1>1. /\ base \in Seq(Time) /\ base # <<>>
        /\ cand \in Seq(Time) /\ cand # <<>>
    BY PlanDoneSamples DEF BenchInv, TypeOK, Estimates
  <1>2. /\ ratios \in Seq(Ratio) /\ Sorted(ratios) /\ Len(ratios) = n
        /\ n \in Nat \ {0}
    BY EmptySeq DEF BenchInv, TypeOK, Estimates, Estimated
  <1>3. cfg.confidence \in 0 .. 99
    BY BenchAssumption DEF BenchInv, TypeOK, Config
  <1>4. lo \in 0 .. n - 1 /\ hi \in 0 .. n - 1 /\ lo <= hi
    BY <1>2, <1>3, IndexBounds
  <1>5. Lo = ratios[lo + 1] /\ Hi = ratios[hi + 1]
    BY DEF Lo, Hi
  <1>6. DOMAIN ratios = 1 .. n /\ \A i \in 1 .. n : ratios[i] \in Ratio
    BY <1>2, LenProperties
  <1> HIDE DEF lo, hi, n
  <1>7. lo + 1 \in 1 .. n /\ hi + 1 \in 1 .. n /\ lo + 1 <= hi + 1
    BY <1>2, <1>4
  <1>8. AtMost(Lo, Hi)
    BY <1>2, <1>5, <1>6, <1>7 DEF Sorted
  <1> QED
    BY <1>1, <1>5, <1>6, <1>7, <1>8 DEF FromSamples

\* A quotient of doubled bounds.
LEMMA QuotientBound ==
    ASSUME NEW x \in Nat, NEW y \in Nat, NEW m \in Nat, NEW d \in Nat
    PROVE  /\ 2 * x <= m /\ d <= 2 * y => x * d <= m * y
           /\ m <= 2 * x /\ 2 * y <= d => m * y <= x * d
  <1>1. ASSUME 2 * x <= m, d <= 2 * y PROVE x * d <= m * y
    <2>1. x * d <= x * (2 * y)
      BY <1>1
    <2>2. (2 * x) * y <= m * y
      BY <1>1
    <2>3. x * (2 * y) = (2 * x) * y
      OBVIOUS
    <2> QED
      BY <2>1, <2>2, <2>3
  <1>2. ASSUME m <= 2 * x, 2 * y <= d PROVE m * y <= x * d
    <2>1. m * y <= (2 * x) * y
      BY <1>2
    <2>2. x * (2 * y) <= x * d
      BY <1>2
    <2>3. x * (2 * y) = (2 * x) * y
      OBVIOUS
    <2> QED
      BY <2>1, <2>2, <2>3
  <1> QED
    BY <1>1, <1>2

\* Every step keeps the ratios those of the samples.
LEMMA FromSamplesStep ==
    ASSUME BenchInv, FromSamples, [Next]_vars
    PROVE  FromSamples'
  <1>1. ASSUME ratios' = <<>> PROVE FromSamples'
    <2>1. DOMAIN ratios' = {}
      BY <1>1
    <2> QED
      BY <2>1 DEF FromSamples
  <1>2. ASSUME UNCHANGED <<base, cand, ratios>> PROVE FromSamples'
    BY <1>2 DEF FromSamples
  <1>3. CASE Run
    <2>1. ratios = <<>> /\ ratios' = ratios
      BY <1>3 DEF Run, BenchInv, Estimates, Estimated
    <2> QED
      BY <1>1, <2>1
  <1>4. CASE Bootstrap
    <2>1. CASE cfg.iters = 0
      BY <1>2, <1>4, <2>1 DEF Bootstrap
    <2>2. CASE cfg.iters # 0
      <3>1. /\ ratios' \in [1 .. cfg.iters ->
                               [num : Resampled(base), den : Resampled(cand)]]
            /\ base' = base /\ cand' = cand
        BY <1>4, <2>2 DEF Bootstrap, RatiosOf
      <3> QED
        BY <3>1 DEF FromSamples
    <2> QED
      BY <2>1, <2>2
  <1>5. CASE SizeInjection \/ CountFalsePositive \/ CountDetection
    <2>1. ratios' = <<>>
      BY <1>5 DEF SizeInjection, CountFalsePositive, CountDetection, Measure
    <2> QED
      BY <1>1, <2>1
  <1>6. CASE RunFails \/ Decide \/ SelfTest \/ Judge \/ UNCHANGED vars
    BY <1>2, <1>6 DEF RunFails, Decide, SelfTest, Judge, samples, vars
  <1> QED
    BY <1>3, <1>4, <1>5, <1>6 DEF Next

LEMMA FromSamplesInit == Init => FromSamples
  <1> SUFFICES ASSUME Init PROVE FromSamples
    OBVIOUS
  <1>1. DOMAIN ratios = {}
    BY DEF Init
  <1> QED
    BY <1>1 DEF FromSamples

\* The interval has its ends in order, and both are ratios that the samples
\* allow (stats.rs 76-83).
THEOREM IntervalsAreOrdered == Spec => []IntervalOrdered
  <1>1. ASSUME BenchInv, FromSamples PROVE IntervalOrdered
    <2> SUFFICES ASSUME Estimated PROVE IntervalOrdered
      BY DEF IntervalOrdered
    <2>1. /\ base \in Seq(Time) /\ base # <<>>
          /\ cand \in Seq(Time) /\ cand # <<>>
          /\ Lo.num \in Resampled(base) /\ Lo.den \in Resampled(cand)
          /\ Hi.num \in Resampled(base) /\ Hi.den \in Resampled(cand)
          /\ AtMost(Lo, Hi)
      BY <1>1, EndsAreRatios
    <2>2. PICK bl \in DOMAIN base, bg \in DOMAIN base :
              /\ base[bl] \in Nat /\ base[bg] \in Nat
              /\ \A j \in DOMAIN base : base[bl] <= base[j]
                                        /\ base[j] <= base[bg]
      BY <2>1, Extremes
    <2>3. PICK cl \in DOMAIN cand, cg \in DOMAIN cand :
              /\ cand[cl] \in Nat /\ cand[cg] \in Nat
              /\ \A j \in DOMAIN cand : cand[cl] <= cand[j]
                                        /\ cand[j] <= cand[cg]
      BY <2>1, Extremes
    <2>4. \A m \in Resampled(base) :
              m \in Nat /\ 2 * base[bl] <= m /\ m <= 2 * base[bg]
      BY <2>1, <2>2, ResampledRange
    <2>5. \A m \in Resampled(cand) :
              m \in Nat /\ 2 * cand[cl] <= m /\ m <= 2 * cand[cg]
      BY <2>1, <2>3, ResampledRange
    <2>6. base[bl] * Lo.den <= Lo.num * cand[cg]
      BY <2>1, <2>2, <2>3, <2>4, <2>5, QuotientBound
    <2>7. Hi.num * cand[cl] <= base[bg] * Hi.den
      BY <2>1, <2>2, <2>3, <2>4, <2>5, QuotientBound
    <2>8. AtMost([num |-> base[bl], den |-> cand[cg]], Lo)
      BY <2>6 DEF AtMost
    <2>9. AtMost(Hi, [num |-> base[bg], den |-> cand[cl]])
      BY <2>7 DEF AtMost
    <2> QED
      BY <2>1, <2>2, <2>3, <2>8, <2>9 DEF IntervalOrdered
  <1> QED
    BY <1>1, BenchInit, BenchStep, FromSamplesInit, FromSamplesStep, PTL
    DEF Spec

(***************************************************************************)
(* A machine that does not drift.                                           *)
(***************************************************************************)

\* Each mode keeps to its parts.
LEMMA PartsStep ==
    ASSUME BenchInv, PartsOfMode, [Next]_vars
    PROVE  PartsOfMode'
  <1>1. ASSUME UNCHANGED <<cfg, part, sess>>
        PROVE  PartsOfMode'
    BY <1>1 DEF PartsOfMode
  <1>2. CASE Run \/ RunFails \/ Bootstrap \/ Decide \/ SelfTest \/ Judge
               \/ UNCHANGED vars
    BY <1>1, <1>2 DEF Run, RunFails, Bootstrap, Decide, SelfTest, Judge,
       counts, vars
  <1>3. CASE SizeInjection
    BY <1>3 DEF SizeInjection, Measure, counts, PartsOfMode
  <1>4. CASE CountFalsePositive
    BY <1>4 DEF CountFalsePositive, Measure, PartsOfMode
  <1>5. CASE CountDetection
    BY <1>5 DEF CountDetection, Measure, PartsOfMode, BenchInv, TypeOK
  <1> QED
    BY <1>2, <1>3, <1>4, <1>5 DEF Next

\* Without drift the samples of a side are all the same.
LEMMA SteadySamples ==
    ASSUME BenchInv, Quiet, ~moved', Run
    PROVE  /\ \A i \in DOMAIN base' : base'[i] = Cost("baseline") + heat
           /\ \A i \in DOMAIN cand' : cand'[i] = Cost("candidate") + heat
           /\ heat' = heat /\ ~moved
  <1>1. /\ ~moved /\ heat' = heat
        /\ base' = base \/ base' = Append(base, Cost("baseline") + heat)
        /\ cand' = cand \/ cand' = Append(cand, Cost("candidate") + heat)
    BY DEF Run
  <1>2. /\ \A i \in DOMAIN base : base[i] = Cost("baseline") + heat
        /\ \A i \in DOMAIN cand : cand[i] = Cost("candidate") + heat
    BY <1>1 DEF Quiet
  <1>3. /\ base \in Seq(Time) /\ cand \in Seq(Time)
        /\ Cost("baseline") + heat \in Time
        /\ Cost("candidate") + heat \in Time
    <2>1. /\ heat \in Nat
          /\ Cost("baseline") \in Time /\ Cost("candidate") \in Time
      BY ParameterTypes, BenchAssumption DEF BenchInv, TypeOK
    <2> QED
      BY <2>1 DEF BenchInv, TypeOK, Time
  <1>4. ASSUME NEW s \in Seq(Time), NEW t \in Time, \A i \in DOMAIN s : s[i] = t
        PROVE  \A i \in DOMAIN Append(s, t) : Append(s, t)[i] = t
    <2>1. DOMAIN s = 1 .. Len(s) /\ Len(s) \in Nat
      BY LenProperties
    <2>2. /\ DOMAIN Append(s, t) = 1 .. Len(s) + 1
          /\ Append(s, t)[Len(s) + 1] = t
          /\ \A i \in 1 .. Len(s) : Append(s, t)[i] = s[i]
      BY AppendSample
    <2>3. ASSUME NEW i \in 1 .. Len(s) + 1 PROVE Append(s, t)[i] = t
      <3>1. i = Len(s) + 1 \/ i \in 1 .. Len(s)
        BY <2>1
      <3> QED
        BY <1>4, <2>1, <2>2, <3>1
    <2> QED
      BY <2>2, <2>3
  <1>5. \A i \in DOMAIN base' : base'[i] = Cost("baseline") + heat
    BY <1>1, <1>2, <1>3, <1>4
  <1>6. \A i \in DOMAIN cand' : cand'[i] = Cost("candidate") + heat
    BY <1>1, <1>2, <1>3, <1>4
  <1> QED
    BY <1>1, <1>5, <1>6

\* And so are the ends of the interval: what the commands cost.
LEMMA SteadyEnds ==
    ASSUME BenchInv, FromSamples, Quiet, ~moved, Estimated
    PROVE  LET b == Cost("baseline") + heat
               c == Cost("candidate") + heat
           IN  /\ b \in Nat \ {0} /\ c \in Nat \ {0}
               /\ Lo.num = 2 * b /\ Lo.den = 2 * c
               /\ Hi.num = 2 * b /\ Hi.den = 2 * c
  <1> DEFINE b == Cost("baseline") + heat
             c == Cost("candidate") + heat
  <1>1. b \in Nat \ {0} /\ c \in Nat \ {0}
    <2>1. /\ heat \in Nat
          /\ Cost("baseline") \in Time /\ Cost("candidate") \in Time
      BY ParameterTypes, BenchAssumption DEF BenchInv, TypeOK
    <2> QED
      BY <2>1 DEF Time
  <1>2. /\ \A i \in DOMAIN base : base[i] = b
        /\ \A i \in DOMAIN cand : cand[i] = c
    BY DEF Quiet
  <1>3. /\ base \in Seq(Time) /\ base # <<>>
        /\ cand \in Seq(Time) /\ cand # <<>>
        /\ Lo.num \in Resampled(base) /\ Lo.den \in Resampled(cand)
        /\ Hi.num \in Resampled(base) /\ Hi.den \in Resampled(cand)
    BY EndsAreRatios
  <1> HIDE DEF b, c
  <1>4. \A m \in Resampled(base) : m \in Nat /\ 2 * b <= m /\ m <= 2 * b
    <2>1. b \in Nat /\ \A i \in DOMAIN base : b <= base[i] /\ base[i] <= b
      BY <1>1, <1>2
    <2> QED
      BY <1>3, <2>1, ResampledRange
  <1>5. \A m \in Resampled(cand) : m \in Nat /\ 2 * c <= m /\ m <= 2 * c
    <2>1. c \in Nat /\ \A i \in DOMAIN cand : c <= cand[i] /\ cand[i] <= c
      BY <1>1, <1>2
    <2> QED
      BY <1>3, <2>1, ResampledRange
  <1>6. /\ Lo.num = 2 * b /\ Lo.den = 2 * c
        /\ Hi.num = 2 * b /\ Hi.den = 2 * c
    BY <1>1, <1>3, <1>4, <1>5
  <1> QED
    BY <1>1, <1>6 DEF b, c

\* Equal commands have equal times, and an interval that does not clear.
LEMMA SameDoesNotClear ==
    ASSUME BenchInv, FromSamples, Quiet, ~moved, Estimated,
           cfg.candidate = BaseTime, part # "inject"
    PROVE  ~Clears(Lo)
  <1> DEFINE b == Cost("baseline") + heat
  <1>1. Cost("candidate") = Cost("baseline")
    <2>1. Overhead \in Nat /\ BaseTime \in Nat
      BY BenchAssumption DEF Overhead
    <2> QED
      BY <2>1 DEF Cost, Spin
  <1>2. b \in Nat \ {0} /\ Lo.num = 2 * b /\ Lo.den = 2 * b
    BY <1>1, SteadyEnds
  <1>3. Bar \in Nat \ {0}
    BY BenchAssumption
  <1> HIDE DEF b
  <1>4. ~(100 * (2 * b) >= (100 + Bar) * (2 * b))
    <2>1. (100 + Bar) * (2 * b) = 100 * (2 * b) + Bar * (2 * b)
      BY <1>2, <1>3
    <2>2. Bar * (2 * b) > 0 /\ Bar * (2 * b) \in Nat
      BY <1>2, <1>3
    <2> QED
      BY <1>2, <2>1, <2>2
  <1> QED
    BY <1>2, <1>4 DEF Clears

\* A command that has been slowed down is resolved as slower.
LEMMA SlowedIsSlower ==
    ASSUME BenchInv, FromSamples, Quiet, ~moved, Estimated,
           cfg.candidate = BaseTime, part = "inject"
    PROVE  Slower(Hi)
  <1> DEFINE b == Cost("baseline") + heat
             c == Cost("candidate") + heat
  <1>1. inject \in Nat /\ inject > 0 /\ heat \in Nat
    BY BenchAssumption DEF Quiet, BenchInv, TypeOK
  <1>2. /\ Overhead \in Nat /\ BaseTime \in Nat
    BY BenchAssumption DEF Overhead
  <1>3. c = b + inject
    BY <1>1, <1>2 DEF Cost, Spin
  <1>4. /\ b \in Nat \ {0} /\ c \in Nat \ {0}
        /\ Hi.num = 2 * b /\ Hi.den = 2 * c
    BY SteadyEnds
  <1> HIDE DEF b, c
  <1> QED
    BY <1>1, <1>3, <1>4 DEF Slower

\* The injection is sized by times that are at least the baseline's cost.
LEMMA InjectionPositive ==
    ASSUME BenchInv, Quiet, ~moved, SizeInjection
    PROVE  inject' > 0
  <1>1. base \in Seq(Time) /\ base # <<>>
    BY PlanDoneSamples DEF SizeInjection, BenchInv, TypeOK
  <1>2. BaseTime \in Nat /\ heat \in Nat /\ Overhead \in Nat /\ Slowdown \in Nat
    BY BenchAssumption DEF BenchInv, TypeOK, Overhead
  <1> DEFINE b == Cost("baseline") + heat
             m == Median2(base)
  <1>3. b \in Nat /\ BaseTime <= b
    BY <1>2 DEF Cost
  <1>4. \A i \in DOMAIN base : base[i] = b
    BY DEF Quiet
  <1>5. inject' = (m * Slowdown) \div 200
    BY DEF SizeInjection
  <1>6. m \in Nat \ {0}
    BY <1>1, MedianType
  <1> HIDE DEF b, m
  <1>7. 2 * b <= Median2(base)
    BY <1>1, <1>3, <1>4, MedianRange
  <1>8. 2 * BaseTime <= m
    BY <1>2, <1>3, <1>6, <1>7 DEF m
  <1>9. m * Slowdown >= 200 /\ m * Slowdown \in Nat
    <2>1. (2 * BaseTime) * Slowdown <= m * Slowdown
      BY <1>2, <1>6, <1>8
    <2>2. (2 * BaseTime) * Slowdown = 2 * (BaseTime * Slowdown)
      BY <1>2
    <2>3. BaseTime * Slowdown >= 100 /\ BaseTime * Slowdown \in Nat
      BY <1>2, BenchAssumption
    <2>4. m * Slowdown \in Nat
      BY <1>2, <1>6
    <2> QED
      BY <2>1, <2>2, <2>3, <2>4
  <1>10. \A x \in Nat : x >= 200 => x \div 200 > 0
    OBVIOUS
  <1> QED
    BY <1>5, <1>9, <1>10

\* The number of calibration sessions is a number.
LEMMA SessionsType == ASSUME cfg \in Config PROVE cfg.sessions \in Nat
  <1>1. cfg.sessions \in SessionCounts \/ cfg.sessions = 0
    BY DEF Config
  <1>2. \A x \in SessionCounts : x \in Nat
    BY BenchAssumption
  <1>3. CASE cfg.sessions \in SessionCounts
    BY <1>2, <1>3
  <1>4. CASE cfg.sessions = 0
    BY <1>4
  <1> QED
    BY <1>1, <1>3, <1>4

\* No step on a machine without drift makes a self-test fail.
LEMMA QuietStep ==
    ASSUME QuietInv, [Next]_vars
    PROVE  Quiet'
  <1> USE DEF QuietInv
  <1> SUFFICES ASSUME ~moved' PROVE Quiet'
    BY DEF Quiet
  <1>1. ~moved
    BY DEF Next, Run, RunFails, Bootstrap, Decide, SelfTest, SizeInjection,
       CountFalsePositive, CountDetection, Judge, vars
  <1>2. /\ \A i \in DOMAIN base : base[i] = Cost("baseline") + heat
        /\ \A i \in DOMAIN cand : cand[i] = Cost("candidate") + heat
        /\ part \in {"aa", "inject"} => inject > 0
        /\ fp = 0 /\ det = sess
        /\ QuietMachinePasses
    BY <1>1 DEF Quiet
  <1>3. ASSUME UNCHANGED <<cfg, part, base, cand, heat, inject>>,
               UNCHANGED <<sess, fp, det>>,
               QuietMachinePasses'
        PROVE  Quiet'
    <2>1. \A x : Cost(x)' = Cost(x)
      BY <1>3 DEF Cost, Overhead, Spin
    <2> QED
      BY <1>2, <1>3, <2>1 DEF Quiet
  <1>4. ASSUME UNCHANGED <<cfg, part, base, cand, heat, inject>>,
               UNCHANGED <<sess, fp, det>>, result' # "fail"
        PROVE  Quiet'
    BY <1>3, <1>4 DEF QuietMachinePasses
  <1>5. CASE Run
    <2>1. /\ \A i \in DOMAIN base' : base'[i] = Cost("baseline") + heat
          /\ \A i \in DOMAIN cand' : cand'[i] = Cost("candidate") + heat
          /\ heat' = heat
      BY <1>5, SteadySamples
    <2>2. /\ UNCHANGED <<cfg, part, inject, sess, fp, det, result>>
      BY <1>5 DEF Run, counts
    <2>3. \A x : Cost(x)' = Cost(x)
      BY <2>2 DEF Cost, Overhead, Spin
    <2>4. QuietMachinePasses'
      BY <1>1, <1>2, <2>2 DEF QuietMachinePasses
    <2> QED
      BY <1>2, <2>1, <2>2, <2>3, <2>4 DEF Quiet
  <1>6. CASE RunFails \/ Bootstrap \/ Decide
    BY <1>4, <1>6 DEF RunFails, Bootstrap, Decide, Running, samples, counts
  <1>7. CASE SelfTest
    <2>1. /\ cfg.mode = "aa" /\ Estimated
          /\ result' = IF Clears(Lo) THEN "fail" ELSE "pass"
          /\ UNCHANGED <<cfg, part, base, cand, heat, inject, sess, fp, det>>
      BY <1>7 DEF SelfTest, samples, counts
    <2>2. cfg.candidate = BaseTime /\ part # "inject"
      BY <2>1 DEF BenchInv, TypeOK, Config, PartsOfMode
    <2>3. ~Clears(Lo)
      BY <1>1, <2>1, <2>2, SameDoesNotClear
    <2> QED
      BY <1>4, <2>1, <2>3
  <1>8. CASE Judge
    <2>1. /\ part = "judge"
          /\ result' = IF /\ cfg.sessions > 0
                          /\ 100 * fp < 5 * cfg.sessions
                          /\ 100 * det >= 95 * cfg.sessions
                       THEN "pass" ELSE "fail"
          /\ UNCHANGED <<cfg, part, base, cand, heat, inject, sess, fp, det>>
      BY <1>8 DEF Judge, samples, counts
    <2>2. cfg.mode = "calibrate" /\ sess = cfg.sessions
      BY <2>1 DEF PartsOfMode
    <2>3. cfg.sessions \in Nat
      BY SessionsType DEF BenchInv, TypeOK
    <2>4. cfg.sessions > 0 => result' = "pass"
      BY <1>2, <2>1, <2>2, <2>3
    <2>5. QuietMachinePasses'
      BY <2>1, <2>2, <2>4 DEF QuietMachinePasses
    <2> QED
      BY <1>3, <2>1, <2>5
  <1>9. ASSUME base' = <<>>, cand' = <<>>, fp' = 0, det' = sess',
               part' \in {"aa", "inject"} => inject' > 0, result' = "running"
        PROVE  Quiet'
    <2>1. DOMAIN base' = {} /\ DOMAIN cand' = {}
      BY <1>9
    <2> QED
      BY <1>9, <2>1 DEF Quiet, QuietMachinePasses
  <1>10. CASE SizeInjection
    <2>1. inject' > 0
      BY <1>1, <1>10, InjectionPositive
    <2> QED
      BY <1>2, <1>9, <1>10, <2>1 DEF SizeInjection, Measure, counts, Running
  <1>11. CASE CountFalsePositive
    <2>1. cfg.candidate = BaseTime /\ part = "aa" /\ Estimated
      BY <1>11
      DEF CountFalsePositive, PartsOfMode, BenchInv, TypeOK, Config
    <2>2. ~Clears(Lo)
      BY <1>1, <2>1, SameDoesNotClear
    <2> QED
      BY <1>2, <1>9, <1>11, <2>2 DEF CountFalsePositive, Measure, Running
  <1>12. CASE CountDetection
    <2>1. cfg.candidate = BaseTime /\ part = "inject" /\ Estimated
      BY <1>12 DEF CountDetection, PartsOfMode, BenchInv, TypeOK, Config
    <2>2. Slower(Hi)
      BY <1>1, <2>1, SlowedIsSlower
    <2> QED
      BY <1>2, <1>9, <1>12, <2>1, <2>2 DEF CountDetection, Measure, Running
  <1>13. CASE UNCHANGED vars
    <2>1. QuietMachinePasses'
      BY <1>2, <1>1, <1>13 DEF vars, QuietMachinePasses
    <2> QED
      BY <1>3, <1>13, <2>1 DEF vars, samples, counts
  <1> QED
    BY <1>5, <1>6, <1>7, <1>8, <1>10, <1>11, <1>12, <1>13 DEF Next

\* Nothing has gone wrong before the first run.
LEMMA QuietInit == Init => PartsOfMode /\ Quiet
  <1> SUFFICES ASSUME Init PROVE PartsOfMode /\ Quiet
    OBVIOUS
  <1>1. DOMAIN base = {} /\ DOMAIN cand = {}
    BY DEF Init
  <1>2. part \in {"probe", "compare"}
    BY DEF Init
  <1> QED
    BY <1>1, <1>2 DEF Init, PartsOfMode, Quiet, QuietMachinePasses

\* On a machine that does not drift the self-tests pass: what they fail on is
\* the machine, never the bench (main.rs 350-431).
THEOREM QuietMachinesPass == Spec => []QuietMachinePasses
  <1>2. QuietInv => QuietMachinePasses
    BY DEF QuietInv, Quiet, QuietMachinePasses
  <1>3. Init => QuietInv
    BY BenchInit, FromSamplesInit, QuietInit DEF QuietInv
  <1>4. QuietInv /\ [Next]_vars => QuietInv'
    BY BenchStep, FromSamplesStep, PartsStep, QuietStep DEF QuietInv
  <1> QED
    BY <1>2, <1>3, <1>4, PTL DEF Spec

==============================================================================
