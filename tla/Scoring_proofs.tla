--------------------------- MODULE Scoring_proofs ---------------------------
(***************************************************************************)
(* What the gates of the evaluation stand for, for datasets of every size: *)
(* the means, and the p95, which the instances of MCEvals, with fewer than *)
(* twenty cases, only see as a maximum.                                    *)
(***************************************************************************)
EXTENDS Scoring, SumLemmas

\* The samples that are above a bound.
Late(data, cap) == { i \in DOMAIN data : data[i] > cap }

\* From twenty samples on, the 19th cut point lies between two samples, and at
\* most one sample in twenty comes after the lower one (aggregate).
LEMMA CutWithinData ==
    ASSUME NEW n \in Nat, n >= 20
    PROVE  /\ CutIndex(n) \in 1..(n - 1)
           /\ CutWeight(n) \in 0..19
           /\ 20 * (n - CutIndex(n)) <= n
<1>1. PICK j \in Int : /\ j = CutIndex(n)
                       /\ 20 * j <= 19 * (n + 1)
                       /\ 19 * (n + 1) < 20 * j + 20
    BY DEF CutIndex
<1>2. QED
    BY <1>1 DEF CutWeight

\* A weighted mean is not below the smaller of two values.
LEMMA MeanAboveLower ==
    ASSUME NEW a \in Nat, NEW b \in Nat, a <= b, NEW w \in 0..19, NEW cap \in Nat,
           a * (20 - w) + b * w <= 20 * cap
    PROVE  a <= cap
<1>1. PICK d \in Nat : b = a + d
    <2>1. b - a \in Nat /\ b = a + (b - a)
        OBVIOUS
    <2>2. QED
        BY <2>1
<1>2. d * w \in Nat
    OBVIOUS
<1>3. a * (20 - w) + b * w = 20 * a + d * w
    BY <1>1
<1>4. QED
    BY <1>2, <1>3

\* If the quantile is within the cap, so are all samples up to the cut point.
LEMMA NoneLateBeforeCut ==
    ASSUME NEW data \in Seq(Nat), NEW cap \in Nat, Len(data) >= 20, Sorted(data),
           P95(data) <= 20 * cap
    PROVE  Late(data, cap) \subseteq (CutIndex(Len(data)) + 1)..Len(data)
<1> DEFINE n == Len(data)
           j == CutIndex(n)
           w == CutWeight(n)
<1>1. /\ n \in Nat /\ j \in 1..(n - 1) /\ w \in 0..19
    BY CutWithinData
<1>2. data[j] \in Nat /\ data[j + 1] \in Nat /\ data[j] <= data[j + 1]
    BY <1>1 DEF Sorted
<1>3. data[j] * (20 - w) + data[j + 1] * w <= 20 * cap
    BY DEF P95
<1>4. data[j] <= cap
    <2> HIDE DEF w
    <2> QED
        BY <1>1, <1>2, <1>3, MeanAboveLower
<1>5. ASSUME NEW i \in Late(data, cap)
      PROVE  i \in (j + 1)..n
    <2>1. i \in 1..n /\ data[i] > cap /\ data[i] \in Nat
        BY DEF Late
    <2>2. CASE i <= j
        BY <1>1, <1>2, <1>4, <2>1, <2>2 DEF Sorted
    <2>3. QED
        BY <1>1, <2>1, <2>2
<1>6. QED
    BY <1>5

\* The p95 gate, whatever the number of cases: if the p95 that aggregate computes
\* is within the cap, at most one run in twenty took longer.
THEOREM P95Bounds ==
    ASSUME NEW data \in Seq(Nat), NEW cap \in Nat, data # << >>, Sorted(data),
           P95(data) <= 20 * cap
    PROVE  20 * Cardinality(Late(data, cap)) <= Len(data)
<1> DEFINE n == Len(data)
<1>1. n \in Nat /\ n >= 1
    OBVIOUS
<1>2. CASE n < 20
    <2>1. data[n] \in Nat /\ data[n] <= cap
        BY <1>1, <1>2 DEF P95
    <2>2. Late(data, cap) = {}
        BY <1>1, <2>1 DEF Late, Sorted
    <2>3. QED
        BY <1>1, <2>2, FS_EmptySet
<1>3. CASE n >= 20
    <2> DEFINE j == CutIndex(n)
               rest == (j + 1)..n
    <2>1. j \in 1..(n - 1) /\ 20 * (n - j) <= n
        BY <1>1, <1>3, CutWithinData
    <2>2. IsFiniteSet(rest) /\ Cardinality(rest) = n - j
        <3> HIDE DEF j, n
        <3>1. j + 1 \in Int /\ n \in Int /\ j + 1 <= n
            BY <1>1, <2>1
        <3>2. QED
            BY <1>1, <2>1, <3>1, FS_Interval
    <2>3. Late(data, cap) \subseteq rest
        BY <1>3, NoneLateBeforeCut
    <2>4. /\ Cardinality(Late(data, cap)) <= Cardinality(rest)
          /\ IsFiniteSet(Late(data, cap))
        BY <2>2, <2>3, FS_Subset
    <2>5. Cardinality(Late(data, cap)) \in Nat
        BY <2>4, FS_CardinalityType
    <2>6. QED
        BY <1>1, <2>1, <2>2, <2>4, <2>5
<1>4. QED
    BY <1>1, <1>2, <1>3

-----------------------------------------------------------------------------
\* The samples up to a value, and below it.
UpTo(d, v) == { i \in DOMAIN d : d[i] <= v }
Below(d, v) == { i \in DOMAIN d : d[i] < v }

\* v is the k-th smallest of the samples d.
IsKth(d, k, v) == Cardinality(Below(d, v)) < k /\ Cardinality(UpTo(d, v)) >= k

LEMMA Countable ==
    ASSUME NEW n \in Nat, NEW d \in [1..n -> Nat]
    PROVE  \A T \in SUBSET (1..n) : IsFiniteSet(T) /\ Cardinality(T) \in 0..n
<1>1. IsFiniteSet(1..n) /\ Cardinality(1..n) = n
    BY FS_Interval
<1>2. ASSUME NEW T \in SUBSET (1..n)
      PROVE  IsFiniteSet(T) /\ Cardinality(T) \in 0..n
    <2>1. IsFiniteSet(T) /\ Cardinality(T) <= Cardinality(1..n)
        BY <1>1, FS_Subset
    <2>2. Cardinality(T) \in Nat
        BY <2>1, FS_CardinalityType
    <2>3. QED
        BY <1>1, <2>1, <2>2
<1>3. QED
    BY <1>2

\* There is a k-th smallest sample.
LEMMA KthExists ==
    ASSUME NEW n \in Nat, NEW d \in [1..n -> Nat], NEW k \in 1..n
    PROVE  \E v \in { d[i] : i \in 1..n } : IsKth(d, k, v)
<1> DEFINE K == { v \in Nat : Cardinality(UpTo(d, v)) >= k }
<1>1. IsFiniteSet(1..n) /\ Cardinality(1..n) = n
    BY FS_Interval
<1>2. \A v \in Nat : /\ UpTo(d, v) \in SUBSET (1..n) /\ Below(d, v) \in SUBSET (1..n)
                     /\ Cardinality(UpTo(d, v)) \in Nat /\ Cardinality(Below(d, v)) \in Nat
    <2>1. \A v \in Nat : UpTo(d, v) \in SUBSET (1..n) /\ Below(d, v) \in SUBSET (1..n)
        BY DEF UpTo, Below
    <2>2. QED
        BY <2>1, Countable
<1>3. SumFunction(d) \in Nat /\ \A i \in 1..n : d[i] <= SumFunction(d)
    BY <1>1, SumType, SummandAtMostSum
<1>4. UpTo(d, SumFunction(d)) = 1..n
    BY <1>3 DEF UpTo
<1>5. SumFunction(d) \in K
    BY <1>1, <1>3, <1>4
<1>6. K \in SUBSET Nat /\ K # {}
    BY <1>5
<1>7. PICK v \in K : \A u \in K : v <= u
    BY <1>6, LeastIndex
<1>8. v \in Nat /\ Cardinality(UpTo(d, v)) >= k
    BY <1>7
<1>9. Cardinality(Below(d, v)) < k
    <2>1. CASE v = 0
        <3>1. Below(d, v) = {}
            BY <2>1 DEF Below
        <3>2. QED
            BY <3>1, FS_EmptySet
    <2>2. CASE v > 0
        <3>1. v - 1 \in Nat /\ v - 1 \notin K
            BY <1>7, <1>8, <2>2
        <3>2. Below(d, v) = UpTo(d, v - 1)
            BY <1>8 DEF Below, UpTo
        <3>3. Cardinality(UpTo(d, v - 1)) \in Nat
            BY <1>2, <3>1
        <3>4. QED
            BY <3>1, <3>2, <3>3
    <2>3. QED
        BY <1>8, <2>1, <2>2
<1>10. Below(d, v) # UpTo(d, v)
    BY <1>2, <1>8, <1>9
<1>11. PICK i \in 1..n : d[i] = v
    BY <1>8, <1>10 DEF Below, UpTo
<1>12. QED
    BY <1>8, <1>9, <1>11 DEF IsKth

\* A sequence of the k-th smallest samples is sorted.
LEMMA KthsAreSorted ==
    ASSUME NEW n \in Nat, NEW d \in [1..n -> Nat], NEW s \in [1..n -> Nat],
           \A k \in 1..n : IsKth(d, k, s[k])
    PROVE  Sorted(s)
<1>1. SUFFICES ASSUME NEW i \in 1..n, NEW j \in 1..n, i <= j, s[j] < s[i] PROVE FALSE
    BY DEF Sorted
<1>2. UpTo(d, s[j]) \subseteq Below(d, s[i]) /\ Below(d, s[i]) \in SUBSET (1..n)
      /\ UpTo(d, s[j]) \in SUBSET (1..n)
    BY <1>1 DEF UpTo, Below
<1>3. /\ IsFiniteSet(Below(d, s[i])) /\ Cardinality(Below(d, s[i])) \in Nat
      /\ Cardinality(UpTo(d, s[j])) \in Nat
    BY <1>2, Countable
<1>4. Cardinality(UpTo(d, s[j])) <= Cardinality(Below(d, s[i]))
    BY <1>2, <1>3, FS_Subset
<1>5. QED
    BY <1>1, <1>3, <1>4 DEF IsKth

\* It has as many samples above a bound as the original.
LEMMA KthsAreAsLate ==
    ASSUME NEW n \in Nat, NEW d \in [1..n -> Nat], NEW s \in [1..n -> Nat],
           \A k \in 1..n : IsKth(d, k, s[k]), NEW cap \in Nat
    PROVE  Cardinality(Late(s, cap)) = Cardinality(Late(d, cap))
<1> DEFINE c == Cardinality(UpTo(d, cap))
<1>1. UpTo(d, cap) \in SUBSET (1..n) /\ Late(d, cap) = (1..n) \ UpTo(d, cap)
    BY DEF UpTo, Late
<1>2. IsFiniteSet(1..n) /\ Cardinality(1..n) = n /\ c \in 0..n
    <2>1. IsFiniteSet(1..n) /\ Cardinality(1..n) = n
        BY FS_Interval
    <2>2. c \in 0..n
        BY <1>1, Countable
    <2>3. QED
        BY <2>1, <2>2
<1>3. Cardinality(Late(d, cap)) = n - c
    <2>1. (1..n) \cap UpTo(d, cap) = UpTo(d, cap)
        BY <1>1
    <2>2. Cardinality((1..n) \ UpTo(d, cap)) = Cardinality(1..n) - Cardinality((1..n) \cap UpTo(d, cap))
        BY <1>2, FS_Difference
    <2>3. QED
        BY <1>1, <1>2, <2>1, <2>2
<1>4. ASSUME NEW k \in 1..n
      PROVE  s[k] > cap <=> k > c
    <2>1. /\ UpTo(d, s[k]) \in SUBSET (1..n) /\ Below(d, s[k]) \in SUBSET (1..n)
          /\ IsFiniteSet(UpTo(d, s[k])) /\ Cardinality(UpTo(d, s[k])) \in Nat
          /\ IsFiniteSet(Below(d, s[k])) /\ Cardinality(Below(d, s[k])) \in Nat
          /\ IsFiniteSet(UpTo(d, cap)) /\ s[k] \in Nat
        <3>1. UpTo(d, s[k]) \in SUBSET (1..n) /\ Below(d, s[k]) \in SUBSET (1..n)
            BY DEF UpTo, Below
        <3>2. QED
            BY <1>1, <3>1, Countable
    <2>2. CASE s[k] > cap
        <3>1. UpTo(d, cap) \subseteq Below(d, s[k])
            BY <2>1, <2>2 DEF UpTo, Below
        <3>2. c <= Cardinality(Below(d, s[k]))
            BY <2>1, <3>1, FS_Subset
        <3>3. Cardinality(Below(d, s[k])) < k
            BY DEF IsKth
        <3> HIDE DEF c
        <3>4. QED
            BY <1>2, <2>1, <2>2, <3>2, <3>3
    <2>3. CASE s[k] <= cap
        <3>1. UpTo(d, s[k]) \subseteq UpTo(d, cap)
            BY <2>1, <2>3 DEF UpTo
        <3>2. Cardinality(UpTo(d, s[k])) <= c
            BY <2>1, <3>1, FS_Subset
        <3>3. Cardinality(UpTo(d, s[k])) >= k
            BY DEF IsKth
        <3> HIDE DEF c
        <3>4. QED
            BY <1>2, <2>1, <2>3, <3>2, <3>3
    <2>4. QED
        BY <2>1, <2>2, <2>3
<1> HIDE DEF c
<1>5. Late(s, cap) = (c + 1)..n
    BY <1>2, <1>4 DEF Late
<1>6. Cardinality((c + 1)..n) = n - c
    <2>1. c + 1 \in Int /\ n \in Int /\ c \in Int /\ c <= n
        BY <1>2
    <2>2. CASE c + 1 <= n
        <3>1. Cardinality((c + 1)..n) = n - (c + 1) + 1
            BY <2>1, <2>2, FS_Interval
        <3>2. QED
            BY <2>1, <3>1
    <2>3. CASE c = n
        <3>1. (c + 1)..n = {}
            BY <2>1, <2>3
        <3>2. QED
            BY <2>1, <2>3, <3>1, FS_EmptySet
    <2>4. QED
        BY <2>1, <2>2, <2>3
<1>7. QED
    BY <1>3, <1>5, <1>6

\* SortedDurations holds at each place the k-th smallest of the durations.
LEMMA SortedDurationsAreKths ==
    ASSUME NEW n \in Nat, NEW results, DOMAIN results = 1..n,
           \A i \in 1..n : results[i].response.duration \in Nat
    PROVE  LET d == [i \in 1..n |-> results[i].response.duration]
               s == SortedDurations(results)
           IN /\ d \in [1..n -> Nat] /\ s \in [1..n -> Nat]
              /\ \A k \in 1..n : IsKth(d, k, s[k])
<1> DEFINE d == [i \in 1..n |-> results[i].response.duration]
           s == SortedDurations(results)
<1>1. d \in [1..n -> Nat]
    OBVIOUS
<1>2. ASSUME NEW k \in 1..n
      PROVE  s[k] \in Nat /\ IsKth(d, k, s[k])
    <2> DEFINE P(v) == /\ Cardinality({ i \in DOMAIN results : results[i].response.duration < v }) < k
                       /\ Cardinality({ i \in DOMAIN results : results[i].response.duration <= v }) >= k
               V == { results[i].response.duration : i \in DOMAIN results }
    <2>1. s[k] = CHOOSE v \in V : P(v)
        BY DEF SortedDurations
    <2>2. V = { d[i] : i \in 1..n } /\ V \subseteq Nat
        OBVIOUS
    <2>3. \A v : P(v) <=> IsKth(d, k, v)
        <3>1. ASSUME NEW v
              PROVE  /\ { i \in DOMAIN results : results[i].response.duration < v } = Below(d, v)
                     /\ { i \in DOMAIN results : results[i].response.duration <= v } = UpTo(d, v)
            BY DEF Below, UpTo
        <3>2. QED
            BY <3>1, Zenon DEF IsKth
    <2>4. \E v \in { d[i] : i \in 1..n } : IsKth(d, k, v)
        BY <1>1, KthExists
    <2> HIDE DEF P, V, s
    <2>5. \E v \in V : P(v)
        BY <2>2, <2>3, <2>4
    <2>6. s[k] \in V /\ P(s[k])
        BY <2>1, <2>5
    <2>7. QED
        BY <2>2, <2>3, <2>6
<1>3. DOMAIN s = 1..n /\ s = [k \in DOMAIN s |-> s[k]]
    <2> DEFINE kth(k) == CHOOSE v \in { results[i].response.duration : i \in DOMAIN results } :
                            /\ Cardinality({ i \in DOMAIN results : results[i].response.duration < v }) < k
                            /\ Cardinality({ i \in DOMAIN results : results[i].response.duration <= v }) >= k
    <2>1. s = [k \in DOMAIN results |-> kth(k)]
        BY DEF SortedDurations
    <2> HIDE DEF kth, s
    <2>2. QED
        BY <2>1
<1>4. s \in [1..n -> Nat]
    <2> HIDE DEF s, d
    <2>1. QED
        BY <1>2, <1>3
<1>5. QED
    BY <1>1, <1>2, <1>4

\* The p95 of sorted samples is a number.
LEMMA P95Type ==
    ASSUME NEW n \in Nat, n > 0, NEW results, DOMAIN results = 1..n,
           \A i \in 1..n : results[i].response.duration \in Nat
    PROVE  P95(SortedDurations(results)) \in Nat
<1> DEFINE s == SortedDurations(results)
<1>1. s \in [1..n -> Nat]
    BY SortedDurationsAreKths
<1> HIDE DEF s
<1>2. s \in Seq(Nat) /\ Len(s) = n
    BY <1>1
<1>3. CASE n < 20
    <2>1. s[n] \in Nat
        BY <1>1
    <2>2. QED
        BY <1>2, <1>3, <2>1 DEF P95, s
<1>4. CASE n >= 20
    <2> DEFINE j == CutIndex(n)
               w == CutWeight(n)
    <2>1. j \in 1..(n - 1) /\ w \in 0..19
        BY <1>4, CutWithinData
    <2>2. s[j] \in Nat /\ s[j + 1] \in Nat
        BY <1>1, <2>1
    <2>3. P95(s) = s[j] * (20 - w) + s[j + 1] * w
        BY <1>2, <1>4 DEF P95
    <2> HIDE DEF j, w
    <2>4. s[j] * (20 - w) \in Nat /\ s[j + 1] * w \in Nat
        <3>1. \A a \in Nat, b \in Nat : a * b \in Nat
            OBVIOUS
        <3>2. 20 - w \in Nat /\ w \in Nat
            BY <2>1
        <3>3. QED
            BY <2>2, <3>1, <3>2, Zenon
    <2>5. QED
        BY <2>3, <2>4 DEF s
<1>5. QED
    BY <1>3, <1>4

\* A weighted mean is not above a bound of both values.
LEMMA MeanBelowUpper ==
    ASSUME NEW cap \in Nat, NEW a \in 0..cap, NEW b \in 0..cap, NEW w \in 0..19
    PROVE  a * (20 - w) + b * w <= 20 * cap
<1>1. PICK d \in Nat : cap = a + d
    <2>1. cap - a \in Nat /\ cap = a + (cap - a)
        OBVIOUS
    <2>2. QED
        BY <2>1
<1>2. PICK e \in Nat : cap = b + e
    <2>1. cap - b \in Nat /\ cap = b + (cap - b)
        OBVIOUS
    <2>2. QED
        BY <2>1
<1>3. d * (20 - w) \in Nat /\ e * w \in Nat
    OBVIOUS
<1>4. a * (20 - w) + d * (20 - w) = cap * (20 - w) /\ b * w + e * w = cap * w
    BY <1>1, <1>2
<1>5. cap * (20 - w) + cap * w = 20 * cap
    OBVIOUS
<1>6. a * (20 - w) \in Nat /\ b * w \in Nat /\ cap * (20 - w) \in Nat /\ cap * w \in Nat
    OBVIOUS
<1>7. QED
    BY <1>3, <1>4, <1>5, <1>6

\* No sample late, no p95 late: the k-th smallest of samples within a bound is within
\* it, and so is the interpolation between two of them.
LEMMA P95WithinBound ==
    ASSUME NEW n \in Nat, n > 0, NEW results, DOMAIN results = 1..n, NEW cap \in Nat,
           \A i \in 1..n : results[i].response.duration \in 0..cap
    PROVE  P95(SortedDurations(results)) \in Nat /\ P95(SortedDurations(results)) <= 20 * cap
<1> DEFINE d == [i \in 1..n |-> results[i].response.duration]
           s == SortedDurations(results)
<1>1. \A i \in 1..n : results[i].response.duration \in Nat
    OBVIOUS
<1>2. \A k \in 1..n : IsKth(d, k, s[k])
    BY <1>1, SortedDurationsAreKths
<1>3. s \in [1..n -> Nat]
    BY <1>1, SortedDurationsAreKths
<1>4. DOMAIN d = 1..n /\ \A i \in 1..n : d[i] \in 0..cap
    OBVIOUS
<1>5. P95(s) \in Nat
    BY <1>1, P95Type
<1> HIDE DEF s, d
<1>6. ASSUME NEW k \in 1..n, s[k] > cap PROVE FALSE
    <2>1. s[k] \in Nat
        BY <1>3
    <2>2. Below(d, s[k]) = 1..n
        BY <1>4, <1>6, <2>1 DEF Below
    <2>3. Cardinality(1..n) = n
        BY FS_Interval
    <2>4. n < k
        BY <1>2, <2>2, <2>3 DEF IsKth
    <2>5. QED
        BY <2>4
<1>7. \A k \in 1..n : s[k] \in 0..cap
    BY <1>3, <1>6
<1>8. s \in Seq(Nat) /\ Len(s) = n
    BY <1>3
<1>9. CASE n < 20
    <2>1. P95(s) = 20 * s[n] /\ s[n] \in 0..cap
        BY <1>7, <1>8, <1>9 DEF P95
    <2>2. QED
        BY <1>5, <2>1 DEF s
<1>10. CASE ~ (n < 20)
    <2> DEFINE j == CutIndex(n)
               w == CutWeight(n)
    <2>1. j \in 1..(n - 1) /\ w \in 0..19
        BY <1>10, CutWithinData
    <2>2. s[j] \in 0..cap /\ s[j + 1] \in 0..cap
        BY <1>7, <2>1
    <2>3. P95(s) = s[j] * (20 - w) + s[j + 1] * w
        BY <1>8, <1>10 DEF P95
    <2> HIDE DEF j, w
    <2>4. P95(s) <= 20 * cap
        BY <2>1, <2>2, <2>3, MeanBelowUpper
    <2>5. QED
        BY <1>5, <2>4 DEF s
<1>11. QED
    BY <1>9, <1>10

\* The p95 gate on the responses themselves: if the p95 of an evaluation is within
\* the gate, at most one case in twenty took longer (aggregate sorts what it is
\* given, and neither loses nor invents a sample).
THEOREM P95OfResponses ==
    ASSUME NEW n \in Nat, n > 0, NEW results, DOMAIN results = 1..n,
           \A i \in 1..n : results[i].response.duration \in Nat,
           NEW cap \in Nat, P95(SortedDurations(results)) <= 20 * cap
    PROVE  20 * Cardinality({ i \in 1..n : results[i].response.duration > cap }) <= n
<1> DEFINE d == [i \in 1..n |-> results[i].response.duration]
           s == SortedDurations(results)
<1>1. d \in [1..n -> Nat]
    OBVIOUS
<1>2. \A k \in 1..n : IsKth(d, k, s[k])
    BY SortedDurationsAreKths
<1>3. s \in [1..n -> Nat]
    BY SortedDurationsAreKths
<1> HIDE DEF s, d
<1>4. Sorted(s)
    BY <1>1, <1>2, <1>3, KthsAreSorted
<1>5. Cardinality(Late(s, cap)) = Cardinality(Late(d, cap))
    BY <1>1, <1>2, <1>3, KthsAreAsLate
<1>6. s \in Seq(Nat) /\ Len(s) = n /\ s # << >>
    BY <1>3
<1>7. 20 * Cardinality(Late(s, cap)) <= n
    BY <1>4, <1>6, P95Bounds DEF s
<1>8. Late(d, cap) = { i \in 1..n : results[i].response.duration > cap }
    BY DEF Late, d
<1>9. QED
    BY <1>5, <1>7, <1>8

-----------------------------------------------------------------------------
\* A mean gate bounds the share of the bad cases: where the mean of scores of at
\* most 100 is at least `min`, those that miss `less` of it are few.
LEMMA MeanBoundsShare ==
    ASSUME NEW n \in Nat, NEW f \in [1..n -> 0..100], NEW T \in SUBSET (1..n),
           NEW min \in 0..100, NEW less \in Nat,
           \A i \in T : f[i] <= 100 - less, SumFunction(f) >= min * n
    PROVE  less * Cardinality(T) <= (100 - min) * n
<1>1. IsFiniteSet(1..n) /\ Cardinality(1..n) = n
    BY FS_Interval
<1>2. IsFiniteSet(T) /\ Cardinality(T) \in Nat
    BY <1>1, FS_Subset, FS_CardinalityType
<1>3. f \in [1..n -> Int] /\ f \in [1..n -> Nat] /\ \A i \in 1..n : f[i] <= 100
    <2>1. \A v \in 0..100 : v \in Nat /\ v \in Int /\ v <= 100
        OBVIOUS
    <2>2. \A i \in 1..n : f[i] \in 0..100
        OBVIOUS
    <2>3. \A i \in 1..n : f[i] \in Nat /\ f[i] \in Int /\ f[i] <= 100
        BY <2>1, <2>2, Zenon
    <2>4. QED
        BY <2>3
<1>4. SumFunction(f) <= 100 * n - less * Cardinality(T)
    <2>1. 100 \in Int /\ \A x \in 1..n : f[x] <= 100
        BY <1>3
    <2>2. \A x \in T : f[x] <= 100 - less
        OBVIOUS
    <2>3. QED
        BY <1>1, <1>3, <2>1, <2>2, SumWithShortfall
<1>5. SumFunction(f) \in Nat
    BY <1>1, <1>3, SumType
<1>6. ASSUME NEW sum \in Nat, NEW t \in Nat, sum >= min * n, sum <= 100 * n - less * t
      PROVE  less * t <= (100 - min) * n
    <2>1. min * n \in Nat /\ less * t \in Nat /\ (100 - min) * n = 100 * n - min * n
        OBVIOUS
    <2>2. QED
        BY <1>6, <2>1
<1>7. QED
    BY <1>2, <1>4, <1>5, <1>6

-----------------------------------------------------------------------------
\* A quotient is between 0 and 100 if the dividend is between 0 and 100 divisors.
LEMMA QuotientRange ==
    ASSUME NEW x \in Nat, NEW c \in Nat, c > 0
    PROVE  /\ x \div c \in Nat
           /\ x <= 100 * c => x \div c <= 100
<1>1. PICK q \in Int : q = x \div c /\ c * q <= x /\ x < c * q + c
    OBVIOUS
<1>2. ASSUME q <= -1 PROVE FALSE
    <2>1. PICK p \in Nat : q = -1 - p
        <3>1. -1 - q \in Nat /\ q = -1 - (-1 - q)
            BY <1>2
        <3>2. QED
            BY <3>1
    <2>2. c * p \in Nat /\ c * q = - c - c * p
        BY <2>1
    <2>3. QED
        BY <1>1, <2>2
<1>3. ASSUME x <= 100 * c, q >= 101 PROVE FALSE
    <2>1. PICK p \in Nat : q = 101 + p
        <3>1. q - 101 \in Nat /\ q = 101 + (q - 101)
            BY <1>3
        <3>2. QED
            BY <3>1
    <2>2. c * p \in Nat /\ c * q = 101 * c + c * p
        BY <2>1
    <2>3. QED
        BY <1>1, <1>3, <2>2
<1>4. QED
    BY <1>1, <1>2, <1>3

\* A penalised score is a percentage, unless the cap is 0 and it divides by it.
LEMMA PenalisedRange ==
    ASSUME NEW used \in Nat, NEW cap \in Nat, cap = 0 => used = 0
    PROVE  Penalised(used, cap, cap) \in 0..100
<1>1. CASE used <= cap
    BY <1>1 DEF Penalised
<1>2. CASE used > cap
    <2>1. 100 * (used - cap) \in Nat /\ cap > 0
        BY <1>2
    <2> DEFINE q == (100 * (used - cap)) \div cap
    <2>2. q \in Nat
        BY <2>1, QuotientRange
    <2>3. Penalised(used, cap, cap) = IF 100 - q > 0 THEN 100 - q ELSE 0
        BY <1>2 DEF Penalised
    <2> HIDE DEF q
    <2>4. QED
        BY <2>2, <2>3
<1>3. QED
    BY <1>1, <1>2

\* So is the share of the required facts that an answer states.
LEMMA CoverageRange ==
    ASSUME NEW case, NEW response, IsFiniteSet(case.required_facts)
    PROVE  /\ ScoreFactualCoverage(case, response) \in 0..100
           /\ case.required_facts # {} /\ case.required_facts \cap response.says = {}
                 => ScoreFactualCoverage(case, response) = 0
<1> DEFINE facts == case.required_facts
           found == facts \cap response.says
           n == Cardinality(facts)
           k == Cardinality(found)
<1>1. n \in Nat /\ k \in Nat /\ k <= n
    <2>1. IsFiniteSet(found) /\ k <= n
        BY FS_Subset
    <2>2. QED
        BY <2>1, FS_CardinalityType
<1>2. CASE facts = {}
    BY <1>2 DEF ScoreFactualCoverage
<1>3. CASE facts # {}
    <2>1. n > 0
        BY <1>1, <1>3, FS_EmptySet
    <2>2. ScoreFactualCoverage(case, response) = (100 * k) \div n
        BY <1>3 DEF ScoreFactualCoverage
    <2>3. found = {} => k = 0
        BY FS_EmptySet
    <2> HIDE DEF n, k, found, facts
    <2>4. 100 * k \in Nat /\ 100 * k <= 100 * n
        BY <1>1
    <2>5. (100 * k) \div n \in Nat /\ (100 * k) \div n <= 100
        BY <1>1, <2>1, <2>4, QuotientRange
    <2>6. k = 0 => (100 * k) \div n = 0
        BY <1>1, <2>1
    <2>7. ScoreFactualCoverage(case, response) \in 0..100
        BY <2>2, <2>5
    <2>8. QED
        BY <2>2, <2>3, <2>6, <2>7 DEF found, facts
<1>4. QED
    BY <1>2, <1>3

\* An answer that states every required fact covers the case.
LEMMA FullCoverage ==
    ASSUME NEW case, NEW response, IsFiniteSet(case.required_facts),
           case.required_facts \subseteq response.says
    PROVE  ScoreFactualCoverage(case, response) = 100
<1> DEFINE n == Cardinality(case.required_facts)
<1>1. CASE case.required_facts = {}
    BY <1>1 DEF ScoreFactualCoverage
<1>2. CASE case.required_facts # {}
    <2>1. n \in Nat /\ n > 0
        BY <1>2, FS_CardinalityType, FS_EmptySet
    <2>2. case.required_facts \cap response.says = case.required_facts
        OBVIOUS
    <2>3. ScoreFactualCoverage(case, response) = (100 * n) \div n
        BY <1>2, <2>2 DEF ScoreFactualCoverage
    <2> HIDE DEF n
    <2>4. PICK q \in Int : /\ q = (100 * n) \div n
                           /\ n * q <= 100 * n /\ 100 * n < n * q + n
        BY <2>1
    <2>5. ASSUME q >= 101 PROVE FALSE
        <3>1. PICK p \in Nat : q = 101 + p
            <4>1. q - 101 \in Nat /\ q = 101 + (q - 101)
                BY <2>5
            <4>2. QED
                BY <4>1
        <3>2. n * p \in Nat /\ n * q = 101 * n + n * p
            BY <2>1, <3>1
        <3>3. QED
            BY <2>1, <2>4, <3>2
    <2>6. ASSUME q <= 99 PROVE FALSE
        <3>1. PICK p \in Nat : q = 99 - p
            <4>1. 99 - q \in Nat /\ q = 99 - (99 - q)
                BY <2>6
            <4>2. QED
                BY <4>1
        <3>2. n * p \in Nat /\ n * q = 99 * n - n * p
            BY <2>1, <3>1
        <3>3. QED
            BY <2>1, <2>4, <3>2
    <2>7. QED
        BY <2>3, <2>4, <2>5, <2>6
<1>3. QED
    BY <1>1, <1>2
=============================================================================
