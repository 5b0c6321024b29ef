----------------------------- MODULE SumLemmas ------------------------------
(***************************************************************************)
(* Induction without operator parameters, over numbers and over finite     *)
(* sets, and what it gives for SumFunction of the community module         *)
(* Functions: the fold of a finite function by +.                          *)
(***************************************************************************)
EXTENDS Functions, FiniteSetTheorems, WellFoundedInduction, TLAPS

\* Of some natural numbers there is a least one.
LEMMA LeastIndex ==
    ASSUME NEW S \in SUBSET Nat, S # {}
    PROVE  \E i \in S : \A j \in S : i <= j
<1>1. PICK i \in S : \A j \in S : ~ (<<j, i>> \in OpToRel(<, Nat))
    BY NatLessThanWellFounded, WFMin, Zenon
<1>2. ASSUME NEW j \in S PROVE i <= j
    <2>1. ~ (<<j, i>> \in OpToRel(<, Nat)) /\ <<j, i>> \in Nat \X Nat
        BY <1>1
    <2>2. ~ (j < i)
        BY <2>1 DEF OpToRel
    <2>3. QED
        BY <2>2
<1>3. QED
    BY <1>2

\* A set of numbers that contains 0 and each successor contains all numbers.
LEMMA EveryNumber ==
    ASSUME NEW K \in SUBSET Nat, 0 \in K, \A k \in K : k + 1 \in K
    PROVE  K = Nat
<1>1. SUFFICES ASSUME Nat \ K # {} PROVE FALSE
    OBVIOUS
<1>2. PICK m \in Nat \ K : \A j \in Nat \ K : m <= j
    BY <1>1, LeastIndex
<1>3. m # 0 /\ m - 1 \in Nat /\ m = (m - 1) + 1
    BY <1>2
<1>4. m - 1 \in K
    BY <1>2, <1>3
<1>5. QED
    BY <1>2, <1>3, <1>4

\* A set of subsets that contains {}, and each subset if it contains those with
\* one element less, contains them all.
LEMMA EverySubset ==
    ASSUME NEW S, IsFiniteSet(S), NEW Good \in SUBSET SUBSET S, {} \in Good,
           \A s \in SUBSET S : s # {} /\ (\A x \in s : s \ {x} \in Good) => s \in Good
    PROVE  Good = SUBSET S
<1> DEFINE Bad == (SUBSET S) \ Good
           Sizes == { Cardinality(s) : s \in Bad }
<1>1. SUFFICES ASSUME Bad # {} PROVE FALSE
    OBVIOUS
<1>2. \A s \in SUBSET S : IsFiniteSet(s) /\ Cardinality(s) \in Nat
    BY FS_Subset, FS_CardinalityType
<1>3. Sizes \in SUBSET Nat /\ Sizes # {}
    BY <1>1, <1>2
<1>4. PICK m \in Sizes : \A j \in Sizes : m <= j
    BY <1>3, LeastIndex
<1>5. PICK s \in Bad : m = Cardinality(s)
    BY <1>4
<1>6. s # {}
    BY <1>5
<1>7. ASSUME NEW x \in s PROVE s \ {x} \in Good
    <2>1. IsFiniteSet(s) /\ m \in Nat
        BY <1>2, <1>5
    <2>2. Cardinality(s \ {x}) = m - 1
        BY <1>5, <2>1, FS_RemoveElement
    <2>3. s \ {x} \notin Bad
        BY <1>4, <2>1, <2>2
    <2>4. QED
        BY <2>3
<1>8. QED
    BY <1>5, <1>6, <1>7

-----------------------------------------------------------------------------
\* The element a sum takes next.
Pick(s) == CHOOSE x \in s : TRUE

\* The sums of f over the subsets of S, by the equation of MapThenFoldSet.
PartSums(f, S, sum) ==
    sum = [s \in SUBSET S |-> IF s = {} THEN 0 ELSE f[Pick(s)] + sum[s \ {Pick(s)}]]

\* The equation has a solution.
LEMMA PartSumsExist ==
    ASSUME NEW S, IsFiniteSet(S), NEW f
    PROVE  \E sum : PartSums(f, S, sum)
<1> DEFINE Upto(g, k) ==
               \A s \in SUBSET S : Cardinality(s) <= k =>
                   g[s] = IF s = {} THEN 0 ELSE f[Pick(s)] + g[s \ {Pick(s)}]
           K == { k \in Nat : \E g : g = [s \in SUBSET S |-> g[s]] /\ Upto(g, k) }
<1>1. \A s \in SUBSET S : IsFiniteSet(s) /\ Cardinality(s) \in Nat
    BY FS_Subset, FS_CardinalityType
<1>2. \A s \in SUBSET S : s # {} =>
          /\ Pick(s) \in s /\ s \ {Pick(s)} \in SUBSET S
          /\ Cardinality(s \ {Pick(s)}) = Cardinality(s) - 1
    BY <1>1, FS_RemoveElement DEF Pick
<1>3. 0 \in K
    <2> DEFINE g == [s \in SUBSET S |-> 0]
    <2>1. Upto(g, 0)
        BY <1>1, FS_EmptySet
    <2>2. g = [s \in SUBSET S |-> g[s]]
        OBVIOUS
    <2>3. QED
        BY <2>1, <2>2
<1>4. ASSUME NEW k \in K PROVE k + 1 \in K
    <2>1. PICK g : g = [s \in SUBSET S |-> g[s]] /\ Upto(g, k)
        OBVIOUS
    <2> DEFINE h == [s \in SUBSET S |->
                        IF Cardinality(s) = k + 1 THEN f[Pick(s)] + g[s \ {Pick(s)}] ELSE g[s]]
    <2>2. ASSUME NEW s \in SUBSET S, Cardinality(s) <= k + 1
          PROVE  h[s] = IF s = {} THEN 0 ELSE f[Pick(s)] + h[s \ {Pick(s)}]
        <3>1. CASE s = {}
            <4>1. Cardinality(s) = 0 /\ k \in Nat
                BY <3>1, FS_EmptySet
            <4>2. h[s] = g[s]
                BY <4>1
            <4>3. Cardinality(s) <= k
                BY <4>1
            <4>4. g[s] = 0
                BY <2>1, <3>1, <4>3, Zenon
            <4>5. QED
                BY <3>1, <4>2, <4>4
        <3>2. CASE s # {}
            <4>1. /\ s \ {Pick(s)} \in SUBSET S
                  /\ Cardinality(s \ {Pick(s)}) = Cardinality(s) - 1
                  /\ Cardinality(s) \in Nat /\ k \in Nat
                BY <1>1, <1>2, <3>2
            <4>2. h[s \ {Pick(s)}] = g[s \ {Pick(s)}]
                BY <2>2, <4>1
            <4>3. CASE Cardinality(s) = k + 1
                BY <3>2, <4>2, <4>3
            <4>4. CASE Cardinality(s) <= k
                <5>1. h[s] = g[s]
                    BY <4>1, <4>4
                <5>2. g[s] = f[Pick(s)] + g[s \ {Pick(s)}]
                    BY <2>1, <3>2, <4>4
                <5>3. QED
                    BY <3>2, <4>2, <5>1, <5>2
            <4>5. QED
                BY <2>2, <4>1, <4>3, <4>4
        <3>3. QED
            BY <3>1, <3>2
    <2>3. h = [s \in SUBSET S |-> h[s]]
        OBVIOUS
    <2>4. Upto(h, k + 1)
        BY <2>2
    <2>5. k + 1 \in Nat
        OBVIOUS
    <2> HIDE DEF h, Upto
    <2>6. QED
        BY <2>3, <2>4, <2>5
<1>5. K = Nat
    <2> HIDE DEF K
    <2>1. K \in SUBSET Nat
        BY DEF K
    <2>2. QED
        BY <1>3, <1>4, <2>1, EveryNumber
<1>6. PICK g : g = [s \in SUBSET S |-> g[s]] /\ Upto(g, Cardinality(S))
    BY <1>1, <1>5
<1>7. \A s \in SUBSET S : g[s] = IF s = {} THEN 0 ELSE f[Pick(s)] + g[s \ {Pick(s)}]
    BY <1>1, <1>6, FS_Subset
<1>8. PartSums(f, S, g)
    BY <1>6, <1>7 DEF PartSums
<1>9. QED
    BY <1>8

\* SumFunction is the sum over the whole domain, for a solution of the equation.
LEMMA SumIsPartSum ==
    ASSUME NEW f, IsFiniteSet(DOMAIN f)
    PROVE  \E sum : PartSums(f, DOMAIN f, sum) /\ SumFunction(f) = sum[DOMAIN f]
<1> DEFINE sum == CHOOSE g : PartSums(f, DOMAIN f, g)
<1>1. PartSums(f, DOMAIN f, sum)
    BY PartSumsExist
<1>2. SumFunction(f) = sum[DOMAIN f]
    BY DEF SumFunction, SumFunctionOnSet, FoldFunctionOnSet, MapThenFoldSet, PartSums, Pick
<1>3. QED
    BY <1>1, <1>2

\* A function of parts is a bound of the sum if it is one of nothing, and grows by
\* at least the element's value with each element.
LEMMA SumAtMost ==
    ASSUME NEW S, IsFiniteSet(S), NEW f \in [S -> Int], NEW bound \in [SUBSET S -> Int],
           bound[{}] >= 0,
           \A s \in SUBSET S : \A x \in s : bound[s] >= f[x] + bound[s \ {x}]
    PROVE  SumFunction(f) <= bound[S]
<1>1. PICK sum : PartSums(f, S, sum) /\ SumFunction(f) = sum[S]
    BY SumIsPartSum
<1> DEFINE Good == { s \in SUBSET S : sum[s] \in Int /\ sum[s] <= bound[s] }
<1>2. {} \in Good
    BY <1>1 DEF PartSums
<1>3. ASSUME NEW s \in SUBSET S, s # {}, \A x \in s : s \ {x} \in Good
      PROVE  s \in Good
    <2> DEFINE x == Pick(s)
    <2>1. x \in s
        BY <1>3 DEF Pick
    <2>2. sum[s] = f[x] + sum[s \ {x}]
        BY <1>1, <1>3 DEF PartSums
    <2>3. /\ sum[s \ {x}] \in Int /\ sum[s \ {x}] <= bound[s \ {x}]
          /\ bound[s \ {x}] \in Int /\ bound[s] \in Int /\ f[x] \in Int
        BY <1>3, <2>1
    <2>4. bound[s] >= f[x] + bound[s \ {x}]
        BY <2>1
    <2> HIDE DEF x
    <2>5. QED
        BY <2>2, <2>3, <2>4
<1>4. Good = SUBSET S
    <2>1. Good \in SUBSET SUBSET S
        OBVIOUS
    <2> HIDE DEF Good
    <2>2. QED
        BY <1>2, <1>3, <2>1, EverySubset
<1>5. S \in Good
    BY <1>4
<1>6. QED
    BY <1>1, <1>5

\* The same from below; and a sum of integers is one.
LEMMA SumAtLeast ==
    ASSUME NEW S, IsFiniteSet(S), NEW f \in [S -> Int], NEW bound \in [SUBSET S -> Int],
           bound[{}] <= 0,
           \A s \in SUBSET S : \A x \in s : bound[s] <= f[x] + bound[s \ {x}]
    PROVE  SumFunction(f) \in Int /\ bound[S] <= SumFunction(f)
<1>1. PICK sum : PartSums(f, S, sum) /\ SumFunction(f) = sum[S]
    BY SumIsPartSum
<1> DEFINE Good == { s \in SUBSET S : sum[s] \in Int /\ bound[s] <= sum[s] }
<1>2. {} \in Good
    BY <1>1 DEF PartSums
<1>3. ASSUME NEW s \in SUBSET S, s # {}, \A x \in s : s \ {x} \in Good
      PROVE  s \in Good
    <2> DEFINE x == Pick(s)
    <2>1. x \in s
        BY <1>3 DEF Pick
    <2>2. sum[s] = f[x] + sum[s \ {x}]
        BY <1>1, <1>3 DEF PartSums
    <2>3. /\ sum[s \ {x}] \in Int /\ bound[s \ {x}] <= sum[s \ {x}]
          /\ bound[s \ {x}] \in Int /\ bound[s] \in Int /\ f[x] \in Int
        BY <1>3, <2>1
    <2>4. bound[s] <= f[x] + bound[s \ {x}]
        BY <2>1
    <2> HIDE DEF x
    <2>5. QED
        BY <2>2, <2>3, <2>4
<1>4. Good = SUBSET S
    <2>1. Good \in SUBSET SUBSET S
        OBVIOUS
    <2> HIDE DEF Good
    <2>2. QED
        BY <1>2, <1>3, <2>1, EverySubset
<1>5. S \in Good
    BY <1>4
<1>6. QED
    BY <1>1, <1>5

\* The sum of natural numbers is one.
LEMMA SumType ==
    ASSUME NEW S, IsFiniteSet(S), NEW f \in [S -> Nat]
    PROVE  SumFunction(f) \in Nat
<1> DEFINE zero == [s \in SUBSET S |-> 0]
<1>1. /\ f \in [S -> Int] /\ zero \in [SUBSET S -> Int] /\ zero[{}] <= 0
      /\ \A s \in SUBSET S : \A x \in s : zero[s] <= f[x] + zero[s \ {x}]
      /\ zero[S] = 0
    OBVIOUS
<1> HIDE DEF zero
<1>2. SumFunction(f) \in Int /\ zero[S] <= SumFunction(f)
    BY <1>1, SumAtLeast
<1>3. QED
    BY <1>1, <1>2

\* Values up to `most`, and `less` below that on T.
LEMMA SumWithShortfall ==
    ASSUME NEW S, IsFiniteSet(S), NEW f \in [S -> Int], NEW T \in SUBSET S,
           NEW most \in Int, NEW less \in Nat,
           \A x \in S : f[x] <= most,
           \A x \in T : f[x] <= most - less
    PROVE  SumFunction(f) <= most * Cardinality(S) - less * Cardinality(T)
<1> DEFINE bound == [s \in SUBSET S |-> most * Cardinality(s) - less * Cardinality(s \cap T)]
<1>1. \A s \in SUBSET S : /\ IsFiniteSet(s) /\ Cardinality(s) \in Nat
                          /\ IsFiniteSet(s \cap T) /\ Cardinality(s \cap T) \in Nat
    BY FS_Subset, FS_CardinalityType
<1>2. bound \in [SUBSET S -> Int]
    <2>1. \A a, b \in Nat : most * a - less * b \in Int
        OBVIOUS
    <2>2. \A s \in SUBSET S : most * Cardinality(s) - less * Cardinality(s \cap T) \in Int
        BY <1>1, <2>1
    <2>3. QED
        BY <2>2
<1>3. bound[{}] >= 0
    <2>1. {} \cap T = {} /\ Cardinality({}) = 0
        BY FS_EmptySet
    <2>2. QED
        BY <2>1
<1>4. ASSUME NEW s \in SUBSET S, NEW x \in s
      PROVE  bound[s] >= f[x] + bound[s \ {x}]
    <2>1. Cardinality(s \ {x}) = Cardinality(s) - 1
        BY <1>1, FS_RemoveElement
    <2>2. (s \ {x}) \cap T = (s \cap T) \ {x}
        OBVIOUS
    <2>3. Cardinality((s \cap T) \ {x}) =
              IF x \in T THEN Cardinality(s \cap T) - 1 ELSE Cardinality(s \cap T)
        BY <1>1, FS_RemoveElement
    <2>4. f[x] \in Int /\ f[x] <= most /\ (x \in T => f[x] <= most - less)
        OBVIOUS
    <2>5. PICK a \in Int, b \in Int : a = Cardinality(s) /\ b = Cardinality(s \cap T)
        BY <1>1
    <2>6. most * (a - 1) = most * a - most /\ less * (b - 1) = less * b - less
        OBVIOUS
    <2>7. most * a \in Int /\ less * b \in Int
        OBVIOUS
    <2>8. CASE x \in T
        <3>1. bound[s \ {x}] = most * (a - 1) - less * (b - 1)
            BY <2>1, <2>2, <2>3, <2>5, <2>8
        <3>2. bound[s] = most * a - less * b
            BY <2>5
        <3> HIDE DEF bound
        <3>3. QED
            BY <2>4, <2>6, <2>7, <2>8, <3>1, <3>2
    <2>9. CASE x \notin T
        <3>1. bound[s \ {x}] = most * (a - 1) - less * b
            BY <2>1, <2>2, <2>3, <2>5, <2>9
        <3>2. bound[s] = most * a - less * b
            BY <2>5
        <3> HIDE DEF bound
        <3>3. QED
            BY <2>4, <2>6, <2>7, <2>9, <3>1, <3>2
    <2>10. QED
        BY <2>8, <2>9
<1>5. bound[S] = most * Cardinality(S) - less * Cardinality(T)
    <2>1. S \cap T = T
        OBVIOUS
    <2>2. QED
        BY <2>1
<1> HIDE DEF bound
<1>6. \A s \in SUBSET S : \A x \in s : bound[s] >= f[x] + bound[s \ {x}]
    BY <1>4
<1>7. SumFunction(f) <= bound[S]
    BY <1>2, <1>3, <1>6, SumAtMost
<1>8. QED
    BY <1>5, <1>7

\* If no summand is below `least`, the sum is not below `least` times their number.
LEMMA SumAbove ==
    ASSUME NEW S, IsFiniteSet(S), NEW f \in [S -> Int], NEW least \in Int,
           \A x \in S : least <= f[x]
    PROVE  SumFunction(f) \in Int /\ least * Cardinality(S) <= SumFunction(f)
<1> DEFINE bound == [s \in SUBSET S |-> least * Cardinality(s)]
<1>1. \A s \in SUBSET S : IsFiniteSet(s) /\ Cardinality(s) \in Nat
    BY FS_Subset, FS_CardinalityType
<1>2. bound \in [SUBSET S -> Int]
    BY <1>1
<1>3. bound[{}] <= 0
    <2>1. Cardinality({}) = 0
        BY FS_EmptySet
    <2>2. QED
        BY <2>1
<1>4. ASSUME NEW s \in SUBSET S, NEW x \in s
      PROVE  bound[s] <= f[x] + bound[s \ {x}]
    <2>1. Cardinality(s \ {x}) = Cardinality(s) - 1
        BY <1>1, FS_RemoveElement
    <2>2. f[x] \in Int /\ least <= f[x]
        OBVIOUS
    <2>3. PICK a \in Int : a = Cardinality(s)
        BY <1>1
    <2>4. least * (a - 1) = least * a - least /\ least * a \in Int
        OBVIOUS
    <2>5. bound[s \ {x}] = least * (a - 1) /\ bound[s] = least * a
        BY <2>1, <2>3
    <2> HIDE DEF bound
    <2>6. QED
        BY <2>2, <2>4, <2>5
<1>5. bound[S] = least * Cardinality(S)
    OBVIOUS
<1> HIDE DEF bound
<1>6. \A s \in SUBSET S : \A x \in s : bound[s] <= f[x] + bound[s \ {x}]
    BY <1>4
<1>7. SumFunction(f) \in Int /\ bound[S] <= SumFunction(f)
    BY <1>2, <1>3, <1>6, SumAtLeast
<1>8. QED
    BY <1>5, <1>7

\* A function that is 0 but for one element has that element's value as its sum.
LEMMA SumOfOne ==
    ASSUME NEW S, IsFiniteSet(S), NEW f \in [S -> Nat], NEW a \in S,
           \A x \in S \ {a} : f[x] = 0
    PROVE  SumFunction(f) = f[a]
<1> DEFINE part == [s \in SUBSET S |-> IF a \in s THEN f[a] ELSE 0]
<1>1. /\ f \in [S -> Int] /\ part \in [SUBSET S -> Int]
      /\ part[{}] >= 0 /\ part[{}] <= 0 /\ part[S] = f[a]
    OBVIOUS
<1>2. ASSUME NEW s \in SUBSET S, NEW x \in s
      PROVE  part[s] >= f[x] + part[s \ {x}] /\ part[s] <= f[x] + part[s \ {x}]
    <2>1. CASE x = a
        BY <2>1
    <2>2. CASE x # a
        BY <2>2
    <2>3. QED
        BY <2>1, <2>2
<1> HIDE DEF part
<1>3. \A s \in SUBSET S : \A x \in s : part[s] >= f[x] + part[s \ {x}]
    BY <1>2
<1>4. \A s \in SUBSET S : \A x \in s : part[s] <= f[x] + part[s \ {x}]
    BY <1>2
<1>5. SumFunction(f) <= part[S]
    BY <1>1, <1>3, SumAtMost
<1>6. SumFunction(f) \in Int /\ part[S] <= SumFunction(f)
    BY <1>1, <1>4, SumAtLeast
<1>7. QED
    BY <1>1, <1>5, <1>6

\* A sum of zeros is 0.
LEMMA SumOfNone ==
    ASSUME NEW S, IsFiniteSet(S), NEW f \in [S -> Nat], \A x \in S : f[x] = 0
    PROVE  SumFunction(f) = 0
<1> DEFINE zero == [s \in SUBSET S |-> 0]
<1>1. /\ f \in [S -> Int] /\ zero \in [SUBSET S -> Int] /\ zero[{}] >= 0 /\ zero[S] = 0
      /\ \A s \in SUBSET S : \A x \in s : zero[s] >= f[x] + zero[s \ {x}]
    OBVIOUS
<1> HIDE DEF zero
<1>2. SumFunction(f) <= zero[S]
    BY <1>1, SumAtMost
<1>3. QED
    BY <1>1, <1>2, SumType

\* No summand is above the sum.
LEMMA SummandAtMostSum ==
    ASSUME NEW S, IsFiniteSet(S), NEW f \in [S -> Nat], NEW a \in S
    PROVE  f[a] <= SumFunction(f)
<1> DEFINE part == [s \in SUBSET S |-> IF a \in s THEN f[a] ELSE 0]
<1>1. /\ f \in [S -> Int] /\ part \in [SUBSET S -> Int]
      /\ part[{}] <= 0 /\ part[S] = f[a]
    OBVIOUS
<1>2. ASSUME NEW s \in SUBSET S, NEW x \in s
      PROVE  part[s] <= f[x] + part[s \ {x}]
    <2>1. CASE x = a
        BY <2>1
    <2>2. CASE x # a
        BY <2>2
    <2>3. QED
        BY <2>1, <2>2
<1> HIDE DEF part
<1>3. \A s \in SUBSET S : \A x \in s : part[s] <= f[x] + part[s \ {x}]
    BY <1>2
<1>4. part[S] <= SumFunction(f)
    BY <1>1, <1>3, SumAtLeast
<1>5. QED
    BY <1>1, <1>4
=============================================================================
