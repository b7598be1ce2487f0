------------------------------ MODULE SpendProofs ------------------------------
(***************************************************************************)
(* Theorems about the money in Allocation and in UnattributedReport: how an *)
(* amount is divided, that passes neither create nor lose spend, and what a *)
(* report read over the changing table may say. For any records, any rules, *)
(* any number of passes and any number of targets.                          *)
(***************************************************************************)
EXTENDS AllocationProofs, AggregationProofs

----------------------------------------------------------------------------
(* Ranks.                                                                   *)

\* An order of S: who is ahead of an element, as sets, each within the next.
Ranking(ahead, S) ==
    /\ \A t \in S : ahead[t] \in SUBSET S /\ t \notin ahead[t]
    /\ \A t, u \in S : u \in ahead[t] => ahead[u] \subseteq ahead[t]
    /\ \A t, u \in S : t # u => t \in ahead[u] \/ u \in ahead[t]

\* Those with fewer than k ahead of them.
FirstOnes(ahead, S, k) == {t \in S : Cardinality(ahead[t]) < k}

\* In an order of n elements, exactly k have fewer than k ahead of them.
LEMMA FirstOnesCount ==
    ASSUME NEW S, IsFiniteSet(S), NEW ahead, Ranking(ahead, S)
    PROVE  \A k \in Nat : k <= Cardinality(S) => Cardinality(FirstOnes(ahead, S, k)) = k
<1> DEFINE good(k) == k <= Cardinality(S) => Cardinality(FirstOnes(ahead, S, k)) = k
           family == {k \in Nat : good(k)}
<1>1. \A t \in S : Cardinality(ahead[t]) \in Nat
  BY SubsetSizes DEF Ranking
<1>2. Cardinality(S) \in Nat
  BY FS_CardinalityType
<1>3. 0 \in family
  <2>1. FirstOnes(ahead, S, 0) = {}
    BY <1>1 DEF FirstOnes
  <2> QED
    BY <2>1, FS_EmptySet
<1>4. ASSUME NEW t \in S, NEW u \in ahead[t]
      PROVE  Cardinality(ahead[u]) < Cardinality(ahead[t])
  <2>1. u \in S /\ ahead[u] \in SUBSET ahead[t] /\ ahead[u] # ahead[t]
    BY DEF Ranking
  <2> QED
    BY <2>1, SubsetSizes DEF Ranking
<1>5. ASSUME NEW k \in Nat, good(k)
      PROVE  good(k + 1)
  <2> SUFFICES ASSUME k + 1 <= Cardinality(S)
               PROVE  Cardinality(FirstOnes(ahead, S, k + 1)) = k + 1
    OBVIOUS
  <2> DEFINE first == FirstOnes(ahead, S, k)
             rest == S \ first
             sizes == {Cardinality(ahead[t]) : t \in rest}
  <2>1. Cardinality(first) = k
    BY <1>2, <1>5
  <2>2. first \in SUBSET S /\ IsFiniteSet(first)
    BY SubsetSizes DEF FirstOnes
  <2>3. rest # {}
    <3>1. first # S
      BY <1>2, <2>1
    <3> QED
      BY <2>2, <3>1
  <2>4. PICK t \in rest : \A u \in rest : Cardinality(ahead[t]) <= Cardinality(ahead[u])
    <3>1. sizes \in SUBSET Nat /\ sizes # {}
      BY <1>1, <2>3
    <3>2. Min(sizes) \in sizes /\ \A y \in sizes : Min(sizes) <= y
      <4> HIDE DEF sizes
      <4> QED
        BY <3>1, MinOfNaturals
    <3> QED
      BY <3>2
  <2>5. ahead[t] \in SUBSET first
    <3> SUFFICES ASSUME NEW u \in ahead[t], u \notin first PROVE FALSE
      OBVIOUS
    <3>1. u \in rest /\ u \in S /\ t \in S
      BY DEF Ranking
    <3>2. Cardinality(ahead[u]) < Cardinality(ahead[t])
      BY <1>4
    <3> HIDE DEF rest
    <3> QED
      BY <1>1, <2>4, <3>1, <3>2
  <2>6. Cardinality(ahead[t]) = k
    <3>1. Cardinality(ahead[t]) <= k
      BY <2>1, <2>2, <2>5, SubsetSizes
    <3>2. ~(Cardinality(ahead[t]) < k)
      BY DEF FirstOnes
    <3> QED
      BY <1>1, <3>1, <3>2
  <2>7. FirstOnes(ahead, S, k + 1) = first \cup {t}
    <3>1. ASSUME NEW u \in S, Cardinality(ahead[u]) < k + 1, u \notin first
          PROVE  u = t
      <4>1. Cardinality(ahead[u]) = k
        BY <1>1, <3>1 DEF FirstOnes
      <4>2. t \notin ahead[u] /\ u \notin ahead[t]
        BY <1>1, <1>4, <2>6, <4>1
      <4> QED
        BY <4>2 DEF Ranking
    <3>2. \A u \in first : Cardinality(ahead[u]) < k + 1
      BY <1>1 DEF FirstOnes
    <3>3. Cardinality(ahead[t]) < k + 1
      BY <2>6
    <3> QED
      BY <2>2, <3>1, <3>2, <3>3 DEF FirstOnes
  <2>8. t \notin first
    OBVIOUS
  <2> HIDE DEF first, rest
  <2> QED
    BY <2>1, <2>2, <2>7, <2>8, FS_AddElement
<1> HIDE DEF good
<1>6. \A k \in Nat : k \in family => k + 1 \in family
  BY <1>5
<1>7. \A k \in Nat : k \in family
  <2> HIDE DEF family
  <2> QED
    BY <1>3, <1>6, EveryNatural
<1> QED
  BY <1>7 DEF good

----------------------------------------------------------------------------
(* Shares.                                                                  *)

\* Weights of finitely many teams, none negative, and names that can be put in order.
Weighable(weights) ==
    /\ weights = [t \in DOMAIN weights |-> weights[t]]
    /\ IsFiniteSet(DOMAIN weights)
    /\ \A t \in DOMAIN weights : weights[t] \in Nat
    /\ \A t, u \in DOMAIN weights :
            NameRank[t] \in Int /\ (NameRank[t] = NameRank[u] => t = u)

\* Rounding down an amount that is not negative takes less than a step.
LEMMA RoundedDown ==
    ASSUME NEW a \in Nat, NEW b \in Nat, b > 0
    PROVE  /\ RoundDown(a, b) \in Nat
           /\ a - RoundDown(a, b) * b >= 0 /\ a - RoundDown(a, b) * b < b
<1>1. RoundDown(a, b) = a \div b
  BY DEF RoundDown
<1>2. a \div b \in Nat /\ a = b * (a \div b) + (a % b) /\ (a % b) \in 0..(b - 1)
  OBVIOUS
<1> DEFINE q == a \div b
           m == a % b
<1>3. q \in Nat /\ a = b * q + m /\ m \in 0..(b - 1)
  BY <1>2
<1> HIDE DEF q, m
<1>4. a - q * b = m
  BY <1>3
<1>5. RoundDown(a, b) = q
  BY <1>1 DEF q
<1> QED
  BY <1>3, <1>4, <1>5

\* By the fraction that rounding took, and by name, the targets are in an order.
LEMMA FractionsRank ==
    ASSUME NEW S, NEW fraction, DOMAIN fraction = S, \A t \in S : fraction[t] \in Int,
           \A t, u \in S : NameRank[t] \in Int /\ (NameRank[t] = NameRank[u] => t = u)
    PROVE  Ranking([t \in S |-> Ahead(fraction, t)], S)
<1> DEFINE ahead == [t \in S |-> Ahead(fraction, t)]
<1>1. ASSUME NEW t \in S, NEW u \in S
      PROVE  /\ u \in ahead[t] <=> u \in Ahead(fraction, t)
             /\ u \in Ahead(fraction, t) <=>
                    \/ fraction[u] > fraction[t]
                    \/ fraction[u] = fraction[t] /\ NameRank[u] < NameRank[t]
  <2>1. ahead[t] = Ahead(fraction, t)
    OBVIOUS
  <2> HIDE DEF ahead
  <2> QED
    BY <2>1 DEF Ahead
<1>2. \A t \in S : ahead[t] \in SUBSET S
  BY DEF Ahead
<1> HIDE DEF ahead
<1>3. \A t \in S : t \notin ahead[t]
  BY <1>1
<1>4. ASSUME NEW t \in S, NEW u \in S, u \in ahead[t], NEW v \in ahead[u]
      PROVE  v \in ahead[t]
  <2>1. v \in S
    BY <1>2
  <2> QED
    BY <1>1, <1>4, <2>1
<1>5. ASSUME NEW t \in S, NEW u \in S, t # u
      PROVE  t \in ahead[u] \/ u \in ahead[t]
  <2>1. NameRank[t] # NameRank[u] /\ NameRank[t] \in Int /\ NameRank[u] \in Int
    BY <1>5
  <2>2. CASE fraction[t] > fraction[u] \/ fraction[t] < fraction[u]
    BY <1>1, <2>2
  <2>3. CASE fraction[t] = fraction[u]
    <3>1. NameRank[t] < NameRank[u] \/ NameRank[u] < NameRank[t]
      BY <2>1
    <3> QED
      BY <1>1, <2>3, <3>1
  <2> QED
    BY <2>2, <2>3
<1>6. Ranking(ahead, S)
  BY <1>2, <1>3, <1>4, <1>5 DEF Ranking
<1> QED
  BY <1>6 DEF ahead

\* Zero is the only number that is twice itself.
LEMMA TwiceItself ==
    ASSUME NEW n \in Int, n = 1 * n + n
    PROVE  n = 0
OBVIOUS

\* Sums of nothing, and of ones for the elements of a part.
LEMMA SumOfMarks ==
    ASSUME NEW S, IsFiniteSet(S), NEW part \in SUBSET S, NEW e,
           \A x \in S : e[x] = IF x \in part THEN 1 ELSE 0
    PROVE  SumOf(On(e, S)) = Cardinality(part)
<1>1. IsFiniteSet(part) /\ IsFiniteSet(S \ part) /\ Cardinality(part) \in Nat
  BY FS_Subset, FS_Difference, FS_CardinalityType
<1>2. SumOf(On(e, part)) = Cardinality(part)
  BY <1>1, SumOfOnes
<1>3. SumOf(On(e, S \ part)) = 0
  <2> DEFINE rest == S \ part
  <2>1. IsFiniteSet(rest) /\ \A x \in rest : e[x] = 0
    BY <1>1
  <2> HIDE DEF rest
  <2>2. SumOf(On(e, rest)) \in Int
    BY <2>1, SumOn
  <2>3. \A x \in rest : e[x] \in Int /\ e[x] \in Int /\ e[x] = 1 * e[x] + e[x]
    BY <2>1
  <2>4. SumOf(On(e, rest)) = 1 * SumOf(On(e, rest)) + SumOf(On(e, rest))
    BY <2>1, <2>3, SumLinear
  <2> DEFINE n == SumOf(On(e, rest))
  <2>5. n \in Int /\ n = 1 * n + n
    BY <2>2, <2>4
  <2> HIDE DEF n
  <2>6. n = 0
    BY <2>5, TwiceItself
  <2> QED
    BY <2>6 DEF n, rest
<1>4. SumOf(On(e, S)) = SumOf(On(e, part)) + SumOf(On(e, S \ part))
  <2>1. \A x \in S : e[x] \in Int
    OBVIOUS
  <2> QED
    BY <2>1, SumSplit
<1> QED
  BY <1>1, <1>2, <1>3, <1>4

\* A sum of multiples.
LEMMA SumScaled ==
    ASSUME NEW S, IsFiniteSet(S), NEW f, NEW h, NEW c \in Int,
           \A x \in S : f[x] \in Int /\ h[x] = c * f[x]
    PROVE  SumOf(On(h, S)) = c * SumOf(On(f, S)) /\ SumOf(On(f, S)) \in Int
<1> DEFINE zero == [x \in S |-> 0]
<1>1. \A x \in S : zero[x] = IF x \in {} THEN 1 ELSE 0
  OBVIOUS
<1>2. \A x \in S : f[x] \in Int /\ zero[x] \in Int /\ h[x] = c * f[x] + zero[x]
  OBVIOUS
<1> HIDE DEF zero
<1>3. SumOf(On(zero, S)) = 0
  <2>1. {} \in SUBSET S
    OBVIOUS
  <2>2. SumOf(On(zero, S)) = Cardinality({})
    BY <1>1, <2>1, SumOfMarks
  <2> QED
    BY <2>2, FS_EmptySet
<1>4. SumOf(On(h, S)) = c * SumOf(On(f, S)) + SumOf(On(zero, S))
  BY <1>2, SumLinear
<1>5. SumOf(On(f, S)) \in Int
  BY SumOn
<1> DEFINE a == SumOf(On(f, S))
           b == c * a
<1>6. b \in Int
  BY <1>5
<1>7. SumOf(On(h, S)) = b + SumOf(On(zero, S))
  BY <1>4
<1> HIDE DEF b
<1>8. SumOf(On(h, S)) = b
  BY <1>3, <1>6, <1>7
<1> QED
  BY <1>5, <1>8 DEF b

\* A product with a positive factor keeps an order.
LEMMA Cancelled ==
    ASSUME NEW w \in Nat, w > 0, NEW a \in Int, NEW b \in Int, w * a <= w * b
    PROVE  a <= b
<1> SUFFICES ASSUME a >= b + 1 PROVE FALSE
  OBVIOUS
<1>1. w * a >= w * (b + 1)
  OBVIOUS
<1>2. w * (b + 1) = w * b + w
  OBVIOUS
<1> QED
  BY <1>1, <1>2

\* An amount divided by weights: the shares add up to it, none is negative, and
\* none is a whole step away from its exact part.
LEMMA SplitIsExact ==
    ASSUME NEW amount \in Nat, NEW weights, Weighable(weights), SumOf(weights) > 0
    PROVE  LET shares == SplitAmount(amount, weights)
           IN /\ shares = [t \in DOMAIN weights |-> shares[t]]
              /\ \A t \in DOMAIN weights :
                    /\ shares[t] \in Nat
                    /\ shares[t] * SumOf(weights) - amount * weights[t] < SumOf(weights)
                    /\ -(shares[t] * SumOf(weights) - amount * weights[t]) < SumOf(weights)
              /\ SumOf(shares) = amount
<1> DEFINE T == DOMAIN weights
           W == SumOf(weights)
           floor == Floors(amount, weights)
           fraction == Fractions(amount, weights)
           ahead == [t \in T |-> Ahead(fraction, t)]
           some == {t \in T : fraction[t] > 0}
           F == SumOf(floor)
           R == SumOf(On(fraction, T))
           L == amount - F
           n == Cardinality(some)
           first == FirstOnes(ahead, T, L)
           bump == [t \in T |-> IF t \in first THEN 1 ELSE 0]
           shares == SplitAmount(amount, weights)
<1>1. /\ IsFiniteSet(T) /\ \A t \in T : weights[t] \in Nat
      /\ On(weights, T) = weights
      /\ \A t, u \in T : NameRank[t] \in Int /\ (NameRank[t] = NameRank[u] => t = u)
  BY DEF Weighable, On
<1>2. W \in Nat /\ W > 0
  <2>1. \A t \in T : weights[t] \in Int
    BY <1>1
  <2>2. SumOf(On(weights, T)) \in Int
    BY <1>1, <2>1, SumOn
  <2> QED
    BY <1>1, <2>2
<1>3. DOMAIN floor = T /\ On(floor, T) = floor /\ DOMAIN fraction = T /\ On(fraction, T) = fraction
  BY DEF Floors, Fractions, On
<1>4. ASSUME NEW t \in T
      PROVE  /\ floor[t] \in Nat /\ fraction[t] \in Nat /\ fraction[t] < W
             /\ amount * weights[t] = W * floor[t] + fraction[t]
  <2> DEFINE a == amount * weights[t]
  <2>1. floor[t] = RoundDown(a, W) /\ fraction[t] = a - floor[t] * W
    BY DEF Floors, Fractions
  <2>2. a \in Nat
    BY <1>1
  <2> HIDE DEF a, W, floor, fraction
  <2>3. floor[t] \in Nat /\ a - floor[t] * W >= 0 /\ a - floor[t] * W < W
    BY <1>2, <2>1, <2>2, RoundedDown
  <2>4. W * floor[t] = floor[t] * W /\ floor[t] * W \in Nat
    BY <1>2, <2>3
  <2>5. a = W * floor[t] + fraction[t]
    BY <2>1, <2>2, <2>3, <2>4
  <2>6. fraction[t] \in Nat /\ fraction[t] < W
    BY <1>2, <2>1, <2>2, <2>3, <2>4
  <2> QED
    BY <2>3, <2>5, <2>6 DEF a
<1>5. shares = [t \in T |-> floor[t] + IF Cardinality(Ahead(fraction, t)) < L THEN 1 ELSE 0]
  BY DEF SplitAmount
<1> HIDE DEF floor, fraction
<1>6. F \in Nat /\ R \in Nat
  BY <1>1, <1>3, <1>4, SumNotNegative
<1>7. amount * W = W * F + R
  <2> DEFINE exact == [t \in T |-> amount * weights[t]]
  <2>1. \A t \in T : weights[t] \in Int /\ exact[t] = amount * weights[t]
    BY <1>1
  <2>2. \A t \in T : floor[t] \in Int /\ fraction[t] \in Int
                    /\ exact[t] = W * floor[t] + fraction[t]
    BY <1>4
  <2> HIDE DEF exact, T
  <2>3. SumOf(On(exact, T)) = amount * SumOf(On(weights, T))
    BY <1>1, <2>1, SumScaled
  <2>4. SumOf(On(exact, T)) = W * SumOf(On(floor, T)) + SumOf(On(fraction, T))
    <3> HIDE DEF W
    <3> QED
      BY <1>1, <1>2, <2>2, SumLinear
  <2> QED
    BY <1>1, <1>3, <2>3, <2>4
<1> HIDE DEF W, F, R
<1>8. L \in Int /\ W * L = R
  <2>1. L \in Int
    BY <1>6
  <2>2. W * L = amount * W - W * F
    BY <1>2, <1>6
  <2>3. amount * W \in Int /\ W * F \in Int
    BY <1>2, <1>6
  <2> QED
    BY <1>6, <1>7, <2>1, <2>2, <2>3
<1> HIDE DEF L
<1>9. some \in SUBSET T /\ IsFiniteSet(some) /\ n \in Nat /\ n <= Cardinality(T)
  <2>1. some \in SUBSET T
    OBVIOUS
  <2> HIDE DEF some, T
  <2> QED
    BY <1>1, <2>1, SubsetSizes
<1>10. L \in Nat /\ L <= n
  <2> DEFINE mark == [t \in T |-> IF t \in some THEN 1 ELSE 0]
             most == [t \in T |-> W * mark[t]]
  <2>1. \A t \in T : fraction[t] \in Int /\ most[t] \in Int /\ fraction[t] <= most[t]
    <3> SUFFICES ASSUME NEW t \in T
                 PROVE  fraction[t] \in Int /\ most[t] \in Int /\ fraction[t] <= most[t]
      OBVIOUS
    <3>1. fraction[t] \in Nat /\ fraction[t] < W /\ W \in Nat
      BY <1>2, <1>4
    <3>2. CASE t \in some
      <4>1. most[t] = W
        BY <1>2, <3>2
      <4> QED
        BY <3>1, <4>1
    <3>3. CASE t \notin some
      <4>1. most[t] = 0 /\ fraction[t] = 0
        BY <1>2, <3>1, <3>3
      <4> QED
        BY <4>1
    <3> QED
      BY <3>2, <3>3
  <2>2. \A t \in T : mark[t] \in Int /\ most[t] = W * mark[t]
    OBVIOUS
  <2>3. \A t \in T : mark[t] = IF t \in some THEN 1 ELSE 0
    OBVIOUS
  <2> HIDE DEF mark, most, some, T
  <2>4. R <= SumOf(On(most, T))
    BY <1>1, <2>1, SumMonotone DEF R
  <2>5. SumOf(On(most, T)) = W * SumOf(On(mark, T))
    BY <1>1, <1>2, <2>2, SumScaled
  <2>6. SumOf(On(mark, T)) = n
    BY <1>1, <1>9, <2>3, SumOfMarks
  <2> HIDE DEF n
  <2>7. W * L <= W * n
    BY <1>8, <2>4, <2>5, <2>6
  <2>8. L <= n
    BY <1>2, <1>8, <1>9, <2>7, Cancelled
  <2>9. W * 0 <= W * L
    BY <1>2, <1>6, <1>8
  <2>10. 0 <= L
    BY <1>2, <1>8, <2>9, Cancelled
  <2> QED
    BY <1>8, <2>8, <2>10
<1>11. Ranking(ahead, T)
  <2>1. \A t \in T : fraction[t] \in Int
    BY <1>4
  <2> QED
    BY <1>1, <1>3, <2>1, FractionsRank
<1>12. Cardinality(first) = L
  <2>1. L <= Cardinality(T)
    <3>1. Cardinality(T) \in Nat
      BY <1>1, FS_CardinalityType
    <3> HIDE DEF n, T
    <3> QED
      BY <1>9, <1>10, <3>1
  <2> HIDE DEF ahead, T
  <2> QED
    BY <1>1, <1>10, <1>11, <2>1, FirstOnesCount
<1>13. \A t \in T : (t \in first) <=> Cardinality(Ahead(fraction, t)) < L
  BY DEF FirstOnes
<1>14. \A t \in T : fraction[t] = 0 => t \notin first
  <2> SUFFICES ASSUME NEW t \in T, fraction[t] = 0 PROVE ~(Cardinality(Ahead(fraction, t)) < L)
    BY <1>13
  <2>1. some \in SUBSET Ahead(fraction, t) /\ Ahead(fraction, t) \in SUBSET T
    BY <1>3 DEF Ahead
  <2>2. IsFiniteSet(Ahead(fraction, t)) /\ Cardinality(Ahead(fraction, t)) \in Nat
    BY <1>1, <2>1, SubsetSizes
  <2>3. n <= Cardinality(Ahead(fraction, t))
    <3> HIDE DEF some
    <3> QED
      BY <2>1, <2>2, SubsetSizes
  <2> HIDE DEF n
  <2> QED
    BY <1>9, <1>10, <2>2, <2>3
<1>15. first \in SUBSET T
  BY DEF FirstOnes
<1>16. \A t \in T : shares[t] = floor[t] + bump[t]
  BY <1>5, <1>13
<1>17. \A t \in T : bump[t] = IF t \in first THEN 1 ELSE 0
  OBVIOUS
<1>18. shares = [t \in T |-> shares[t]] /\ On(shares, T) = shares
  BY <1>5 DEF On
<1> HIDE DEF bump, first, shares, ahead, some, n
<1>19. SumOf(shares) = amount
  <2>1. \A t \in T : floor[t] \in Int /\ bump[t] \in Int /\ shares[t] = 1 * floor[t] + bump[t]
    BY <1>4, <1>16, <1>17
  <2>2. SumOf(On(bump, T)) = L
    BY <1>1, <1>12, <1>15, <1>17, SumOfMarks
  <2>3. SumOf(On(shares, T)) = 1 * SumOf(On(floor, T)) + SumOf(On(bump, T))
    <3> HIDE DEF T
    <3> QED
      BY <1>1, <2>1, SumLinear
  <2>4. SumOf(shares) = F + L
    BY <1>3, <1>6, <1>8, <1>18, <2>2, <2>3 DEF F
  <2> QED
    BY <1>6, <2>4 DEF L
<1>20. ASSUME NEW t \in T
       PROVE  /\ shares[t] \in Nat
              /\ shares[t] * W - amount * weights[t] < W
              /\ -(shares[t] * W - amount * weights[t]) < W
  <2> DEFINE a == amount * weights[t]
             b == W * floor[t]
  <2>1. floor[t] \in Nat /\ fraction[t] \in Nat /\ fraction[t] < W /\ a = b + fraction[t]
    BY <1>4
  <2>2. a \in Nat /\ b \in Nat
    BY <1>1, <1>2, <2>1
  <2>3. CASE t \in first
    <3>1. shares[t] = floor[t] + 1 /\ fraction[t] # 0
      BY <1>14, <1>16, <1>17, <2>3
    <3>2. shares[t] * W = b + W
      BY <1>2, <2>1, <3>1
    <3> HIDE DEF a, b
    <3> QED
      BY <1>2, <2>1, <2>2, <3>1, <3>2 DEF a
  <2>4. CASE t \notin first
    <3>1. shares[t] = floor[t]
      BY <1>16, <1>17, <2>1, <2>4
    <3>2. shares[t] * W = b
      BY <1>2, <2>1, <3>1
    <3> HIDE DEF a, b
    <3> QED
      BY <1>2, <2>1, <2>2, <3>1, <3>2 DEF a
  <2> QED
    BY <2>3, <2>4
<1> QED
  BY <1>18, <1>19, <1>20 DEF shares, W

\* Whatever the strategy, a rule's weights can be used: teams that have spent
\* nothing weigh nothing, and nobody weighs less.
LEMMA WeightsFit ==
    ASSUME NEW rule \in Rules, NEW rows, Money(rows),
           \A r \in rows : r.amount < 0 =>
                \E row \in Ingestible : row.source = r.source /\ row.amount < 0
    PROVE  Weighable(ResolveWeights(rows, rule))
<1> DEFINE T == rule.targets
           weights == ResolveWeights(rows, rule)
<1>1. /\ IsFiniteSet(T)
      /\ \A t, u \in T : NameRank[t] \in Int /\ (NameRank[t] = NameRank[u] => t = u)
  BY WeightsNotNegative DEF WeightsNotNegative
<1>2. DOMAIN weights = T
  BY WeightsDomain
<1>3. EvenWeights(T) = [t \in T |-> EvenWeights(T)[t]] /\ \A t \in T : EvenWeights(T)[t] \in Nat
  BY DEF EvenWeights
<1>4. weights = [t \in T |-> weights[t]] /\ \A t \in T : weights[t] \in Nat
  <2>1. CASE rule.strategy = "even_split"
    BY <1>3, <2>1 DEF ResolveWeights
  <2>2. CASE rule.strategy = "fixed_percent"
    <3>1. weights = [t \in T |-> rule.weights[t]]
      BY <2>2 DEF ResolveWeights
    <3>2. \A t \in T : rule.weights[t] \in Nat
      BY <2>2, WeightsNotNegative DEF WeightsNotNegative
    <3> QED
      BY <3>1, <3>2
  <2>3. CASE rule.strategy # "even_split" /\ rule.strategy # "fixed_percent"
    <3> DEFINE spent(t) == {r \in Selected(rows, Period, NoFilters) :
                                r.owner["team"] = t /\ r.source \in rule.usage_sources}
               observed == [t \in T |-> Amount(spent(t))]
    <3>1. weights = IF SumOf(observed) <= 0 THEN EvenWeights(T) ELSE observed
      BY <2>3 DEF ResolveWeights, UsageWeights
    <3>2. \A row \in Ingestible : row.source \in rule.usage_sources => row.amount >= 0
      BY <2>3, WeightsNotNegative DEF WeightsNotNegative
    <3>3. ASSUME NEW t \in T PROVE observed[t] \in Nat
      <4> DEFINE mine == spent(t)
      <4>1. mine \in SUBSET rows /\ \A r \in mine : r.source \in rule.usage_sources
        BY DEF Selected
      <4> HIDE DEF mine
      <4>2. Money(mine)
        BY <4>1, AmountOfPart
      <4>3. \A r \in mine : r.amount >= 0
        <5> SUFFICES ASSUME NEW r \in mine, ~(r.amount >= 0) PROVE FALSE
          OBVIOUS
        <5>1. r.amount \in Int
          BY <4>2 DEF Money
        <5>2. PICK row \in Ingestible : row.source = r.source /\ row.amount < 0
          BY <4>1, <5>1
        <5>3. row.amount \in Int
          BY CollectedAmounts DEF CollectedAmounts
        <5> QED
          BY <3>2, <4>1, <5>2, <5>3
      <4> QED
        BY <4>2, <4>3, AmountSign DEF mine
    <3>4. observed = [t \in T |-> observed[t]]
      OBVIOUS
    <3> HIDE DEF observed
    <3> QED
      BY <1>3, <3>1, <3>3, <3>4
  <2> QED
    BY <2>1, <2>2, <2>3
<1> HIDE DEF weights
<1> QED
  BY <1>1, <1>2, <1>4 DEF weights, Weighable

\* The children of a record: they add up to it in money and in quantity, and each
\* gets its share of the weight to within a step.
LEMMA KidsAddUp ==
    ASSUME NEW row \in Ingestible, NEW rule, NEW weights, Weighable(weights),
           Splittable(row, weights)
    PROVE  LET kids == BuildChildren(row, rule, weights)
           IN /\ Money(kids) /\ Amount(kids) = row.amount /\ row.amount \in Nat
              /\ row.quantity # Nothing => SumOf([c \in kids |-> c.quantity]) = row.quantity
              /\ \A c \in kids :
                    /\ c.amount \in Nat /\ c.allocated = FALSE /\ c.at = row.at
                    /\ LET off == c.amount * SumOf(weights) - row.amount * weights[c.owner["team"]]
                       IN off < SumOf(weights) /\ -off < SumOf(weights)
<1> DEFINE T == DOMAIN weights
           shares == SplitAmount(row.amount, weights)
           quantities == QuantityShares(row.quantity, shares)
           portion(t) == IF row.quantity = Nothing THEN Nothing ELSE quantities[t]
           kid == [t \in T |-> [row EXCEPT !.key = <<rule.name, row.key[1], t>>,
                    !.owner = [row.owner EXCEPT !["team"] = t],
                    !.amount = shares[t],
                    !.quantity = IF row.quantity = Nothing THEN Nothing ELSE quantities[t],
                    !.parent = row.key,
                    !.rule = rule.name]]
           kids == BuildChildren(row, rule, weights)
<1>1. kids = Image(kid, T)
  BY DEF BuildChildren, Image
<1>2. /\ row = [c \in Columns |-> row[c]] /\ row.allocated = FALSE
      /\ row.amount \in Int /\ (row.quantity # Nothing => row.quantity \in Int)
      /\ DOMAIN row.owner = OwnerDimensions
  BY IngestibleFact, CollectedAmounts DEF CollectedAmounts
<1>3. row.amount \in Nat /\ SumOf(weights) > 0
  BY <1>2 DEF Splittable, Divisible
<1>4. /\ IsFiniteSet(T) /\ shares = [t \in T |-> shares[t]]
      /\ \A t \in T :
            /\ shares[t] \in Nat
            /\ shares[t] * SumOf(weights) - row.amount * weights[t] < SumOf(weights)
            /\ -(shares[t] * SumOf(weights) - row.amount * weights[t]) < SumOf(weights)
      /\ SumOf(shares) = row.amount
  BY <1>3, SplitIsExact DEF Weighable
<1>5. row.quantity # Nothing =>
            /\ quantities = [t \in T |-> quantities[t]]
            /\ \A t \in T : quantities[t] \in Nat
            /\ SumOf(quantities) = row.quantity
  <2> SUFFICES ASSUME row.quantity # Nothing
               PROVE  /\ quantities = [t \in T |-> quantities[t]]
                      /\ \A t \in T : quantities[t] \in Nat
                      /\ SumOf(quantities) = row.quantity
    OBVIOUS
  <2> DEFINE q == QuantityWeights(shares)
  <2>1. row.quantity \in Nat /\ SumOf(q) > 0
    BY <1>2 DEF Splittable, Divisible
  <2>2. Weighable(q) /\ DOMAIN q = T
    <3> HIDE DEF shares
    <3>1. DOMAIN shares = T
      BY <1>4
    <3>2. DOMAIN q = T /\ q = [t \in T |-> q[t]]
      BY <3>1 DEF QuantityWeights
    <3>3. \A t \in T : q[t] \in Nat
      BY <1>4, <3>1 DEF QuantityWeights
    <3> HIDE DEF q
    <3> QED
      BY <3>2, <3>3 DEF Weighable
  <2>3. quantities = SplitAmount(row.quantity, q)
    BY DEF QuantityShares
  <2> HIDE DEF q, quantities
  <2> QED
    BY <2>1, <2>2, <2>3, SplitIsExact
<1> HIDE DEF shares, quantities
<1>6. ASSUME NEW t \in T
      PROVE  /\ kid[t].key = <<rule.name, row.key[1], t>> /\ kid[t].amount = shares[t]
             /\ kid[t].quantity = portion(t) /\ kid[t].allocated = FALSE
             /\ kid[t].at = row.at /\ kid[t].owner["team"] = t
  <2>1. "team" \in DOMAIN row.owner
    BY <1>2 DEF OwnerDimensions
  <2> QED
    BY <1>2, <2>1 DEF Columns
<1> HIDE DEF kid, kids, T
<1>7. \A t, u \in T : kid[t] = kid[u] => t = u
  <2> SUFFICES ASSUME NEW t \in T, NEW u \in T, kid[t] = kid[u] PROVE t = u
    OBVIOUS
  <2>1. kid[t].owner["team"] = t /\ kid[u].owner["team"] = u
    BY <1>6
  <2> QED
    BY <2>1
<1>8. /\ IsFiniteSet(kids)
      /\ \A c \in kids : \E t \in T : c = kid[t]
      /\ \A t \in T : kid[t] \in kids
  BY <1>1, <1>4, ImageIsFinite DEF Image
<1>9. ASSUME NEW c \in kids
      PROVE  /\ c.amount \in Nat /\ c.allocated = FALSE /\ c.at = row.at
             /\ LET off == c.amount * SumOf(weights) - row.amount * weights[c.owner["team"]]
                IN off < SumOf(weights) /\ -off < SumOf(weights)
  <2>1. PICK t \in T : c = kid[t]
    BY <1>8
  <2>2. c.amount = shares[t] /\ c.owner["team"] = t /\ c.allocated = FALSE /\ c.at = row.at
    BY <1>6, <2>1
  <2> QED
    BY <1>4, <2>2
<1>10. Money(kids)
  <2>1. \A c \in kids : c.amount \in Int
    <3> SUFFICES ASSUME NEW c \in kids PROVE c.amount \in Int
      OBVIOUS
    <3>1. c.amount \in Nat
      BY <1>9
    <3> QED
      BY <3>1
  <2> QED
    BY <1>8, <2>1 DEF Money
<1>11. Amount(kids) = row.amount
  <2> DEFINE e == [c \in kids |-> c.amount]
  <2>1. ASSUME NEW t \in T PROVE shares[t] \in Int /\ e[kid[t]] = shares[t]
    <3>1. shares[t] \in Nat
      BY <1>4
    <3>2. kid[t] \in kids /\ kid[t].amount = shares[t]
      BY <1>6, <1>8
    <3> QED
      BY <3>1, <3>2
  <2>2. On(shares, T) = shares /\ On(e, kids) = e
    BY <1>4 DEF On
  <2>3. Amount(kids) = SumOf(e)
    BY DEF Amount
  <2> HIDE DEF e
  <2>4. SumOf(On(e, Image(kid, T))) = SumOf(On(shares, T))
    BY <1>4, <1>7, <2>1, SumImage
  <2> QED
    BY <1>1, <1>4, <2>2, <2>3, <2>4
<1>12. ASSUME row.quantity # Nothing
       PROVE  SumOf([c \in kids |-> c.quantity]) = row.quantity
  <2> DEFINE e == [c \in kids |-> c.quantity]
  <2>1. ASSUME NEW t \in T PROVE quantities[t] \in Int /\ e[kid[t]] = quantities[t]
    <3>1. quantities[t] \in Nat
      BY <1>5, <1>12
    <3>2. kid[t] \in kids /\ kid[t].quantity = quantities[t]
      BY <1>6, <1>12, <1>8
    <3> QED
      BY <3>1, <3>2
  <2>2. On(quantities, T) = quantities /\ On(e, kids) = e
    BY <1>5, <1>12 DEF On
  <2> HIDE DEF e
  <2>3. SumOf(On(e, Image(kid, T))) = SumOf(On(quantities, T))
    BY <1>4, <1>7, <2>1, SumImage
  <2>4. SumOf(e) = row.quantity
    BY <1>1, <1>5, <1>12, <2>2, <2>3
  <2> QED
    BY <2>4 DEF e
<1> QED
  BY <1>3, <1>9, <1>10, <1>11, <1>12 DEF kids

----------------------------------------------------------------------------
(* Tables in which every split adds up.                                     *)

\* Rows like a record in everything but their team, one for each team.
Portions(x, rows) ==
    /\ \A a, b \in rows : a.owner["team"] = b.owner["team"] => a = b
    /\ \A c \in rows :
        /\ c.source = x.source /\ c.model = x.model
        /\ \A d \in OwnerDimensions \ {"team"} : c.owner[d] = x.owner[d]

\* The children a record is split into are such rows.
LEMMA KidsArePortions ==
    ASSUME NEW row \in Ingestible, NEW rule, NEW weights
    PROVE  Portions(row, BuildChildren(row, rule, weights))
<1> DEFINE shares == SplitAmount(row.amount, weights)
           quantities == QuantityShares(row.quantity, shares)
           kid(t) == [row EXCEPT !.key = <<rule.name, row.key[1], t>>,
                    !.owner = [row.owner EXCEPT !["team"] = t],
                    !.amount = shares[t],
                    !.quantity = IF row.quantity = Nothing THEN Nothing ELSE quantities[t],
                    !.parent = row.key,
                    !.rule = rule.name]
           kids == BuildChildren(row, rule, weights)
<1>1. kids = {kid(t) : t \in DOMAIN weights}
  BY DEF BuildChildren
<1>2. row = [c \in Columns |-> row[c]] /\ DOMAIN row.owner = OwnerDimensions
  BY IngestibleFact, CollectedAmounts DEF CollectedAmounts
<1>3. ASSUME NEW t \in DOMAIN weights
      PROVE  /\ kid(t).owner = [row.owner EXCEPT !["team"] = t]
             /\ kid(t).source = row.source /\ kid(t).model = row.model
  <2> HIDE DEF shares, quantities
  <2> QED
    BY <1>2 DEF Columns
<1> HIDE DEF kid, kids
<1>4. ASSUME NEW t \in DOMAIN weights
      PROVE  /\ kid(t).owner["team"] = t
             /\ \A d \in OwnerDimensions \ {"team"} : kid(t).owner[d] = row.owner[d]
  <2>1. "team" \in DOMAIN row.owner
    BY <1>2 DEF OwnerDimensions
  <2> QED
    BY <1>2, <1>3, <2>1
<1>5. ASSUME NEW a \in kids, NEW b \in kids, a.owner["team"] = b.owner["team"]
      PROVE  a = b
  <2>1. PICK t \in DOMAIN weights, u \in DOMAIN weights : a = kid(t) /\ b = kid(u)
    BY <1>1
  <2>2. t = u
    BY <1>4, <1>5, <2>1
  <2> QED
    BY <2>1, <2>2
<1>6. ASSUME NEW c \in kids
      PROVE  /\ c.source = row.source /\ c.model = row.model
             /\ \A d \in OwnerDimensions \ {"team"} : c.owner[d] = row.owner[d]
  <2>1. PICK t \in DOMAIN weights : c = kid(t)
    BY <1>1
  <2> QED
    BY <1>3, <1>4, <2>1
<1> QED
  BY <1>5, <1>6 DEF Portions, kids

\* A marked record's children are charged what it costs, in its period, none of
\* them is a credit, and they are its portions.
Balanced(rows) ==
    /\ Money(rows)
    /\ \A x \in rows : ~IsChild(x) /\ x.allocated = TRUE =>
        /\ x.amount \in Nat
        /\ Amount(ChildrenOf(x, rows)) = x.amount
        /\ \A c \in ChildrenOf(x, rows) :
                c.amount \in Nat /\ c.allocated = FALSE /\ c.at = x.at
        /\ Portions(x, ChildrenOf(x, rows))

SpendInv ==
    /\ Balanced(ledger)
    /\ \A p \in Passes : Balanced(pending[p]) /\ Balanced(sent[p])

\* A session that holds nothing adds up.
LEMMA EmptyIsBalanced == Balanced({})
BY FS_EmptySet DEF Balanced, Money

\* Two tables that add up make one that does where their keys differ.
LEMMA UnionIsBalanced ==
    ASSUME NEW X, NEW Y, Whole(X), Whole(Y), Keys(X) \cap Keys(Y) = {},
           Balanced(X), Balanced(Y)
    PROVE  Balanced(X \cup Y)
<1>1. Money(X \cup Y)
  BY FS_Union DEF Balanced, Money
<1>2. /\ \A x \in X : ~IsChild(x) => ChildrenOf(x, X \cup Y) = ChildrenOf(x, X)
      /\ \A y \in Y : ~IsChild(y) => ChildrenOf(y, X \cup Y) = ChildrenOf(y, Y)
  BY ChildrenInUnion
<1> QED
  BY <1>1, <1>2 DEF Balanced

\* A row fresh from a collector has not been split.
LEMMA FreshIsBalanced ==
    ASSUME NEW row \in Ingestible
    PROVE  Balanced({row})
<1>1. row.allocated = FALSE /\ row.amount \in Int
  BY IngestibleFact, CollectedAmounts DEF CollectedAmounts
<1> QED
  BY <1>1, FS_Singleton DEF Balanced, Money

\* What a pass makes of a record adds up.
LEMMA SplitIsBalanced ==
    ASSUME NEW row \in Ingestible, Governed(row), NEW rows,
           Weighable(ResolveWeights(rows, SelectRule(row))),
           Splittable(row, ResolveWeights(rows, SelectRule(row)))
    PROVE  LET rule == SelectRule(row)
           IN Balanced(BuildChildren(row, rule, ResolveWeights(rows, rule))
                            \cup {MarkAllocated(row, rule)})
<1> DEFINE rule == SelectRule(row)
           kids == BuildChildren(row, rule, ResolveWeights(rows, rule))
           mark == MarkAllocated(row, rule)
           group == kids \cup {mark}
<1>1. /\ mark.amount = row.amount /\ mark.at = row.at
      /\ mark.source = row.source /\ mark.model = row.model /\ mark.owner = row.owner
  <2>1. row = [c \in Columns |-> row[c]]
    BY IngestibleFact
  <2> QED
    BY <2>1 DEF MarkAllocated, Columns
<1>2. \A c \in kids : IsChild(c)
  BY Children
<1>3. /\ Money(kids) /\ Amount(kids) = row.amount /\ row.amount \in Nat
      /\ \A c \in kids : c.amount \in Nat /\ c.allocated = FALSE /\ c.at = row.at
  BY KidsAddUp
<1>4. ChildrenOf(mark, group) = kids
  BY SplitIsWhole
<1>7. Portions(row, kids)
  BY KidsArePortions
<1> HIDE DEF kids, mark
<1>8. Portions(mark, kids)
  BY <1>1, <1>7 DEF Portions
<1>5. Money(group)
  <2>1. IsFiniteSet(group)
    BY <1>3, FS_AddElement DEF Money
  <2>2. \A r \in group : r.amount \in Int
    BY <1>1, <1>3 DEF Money
  <2> QED
    BY <2>1, <2>2 DEF Money
<1>6. Balanced(group)
  BY <1>1, <1>2, <1>3, <1>4, <1>5, <1>8 DEF Balanced
<1> QED
  BY <1>6 DEF kids, mark

\* A credit in the table is a record of a collector, never a part of a split.
LEMMA CreditsCollected ==
    ASSUME NEW rows, Whole(rows), Balanced(rows), NEW r \in rows, r.amount < 0
    PROVE  /\ ~IsChild(r) /\ ~r.allocated
           /\ Origin(r) \in Ingestible /\ Origin(r).source = r.source
           /\ Origin(r).amount < 0 /\ Origin(r).owner = r.owner
<1>1. r.amount \in Int
  BY DEF Balanced, Money
<1>2. ~IsChild(r)
  <2> SUFFICES ASSUME IsChild(r) PROVE FALSE
    OBVIOUS
  <2>1. PICK x \in rows : ~IsChild(x) /\ x.allocated = TRUE /\ x.key = r.parent
    BY DEF Whole, ChildOK
  <2>2. r.amount \in Nat
    BY <2>1 DEF Balanced, ChildrenOf
  <2> QED
    BY <1>1, <2>2
<1>3. Origin(r) \in Ingestible
  BY <1>2, WholeKeys
<1>4. Origin(r) = [c \in Columns |-> Origin(r)[c]]
  BY <1>3, IngestibleFact
<1>5. Origin(r).source = r.source /\ Origin(r).amount = r.amount /\ Origin(r).owner = r.owner
  BY <1>4 DEF Origin, Columns
<1>6. ~r.allocated
  <2>1. ParentOK(r, rows)
    BY <1>2 DEF Whole
  <2>2. CASE r = Origin(r)
    BY <1>3, <2>2, IngestibleFact
  <2>3. CASE r.allocated = TRUE
    <3>1. r.amount \in Nat
      BY <1>2, <2>3 DEF Balanced
    <3> QED
      BY <1>1, <3>1
  <2> QED
    BY <2>1, <2>2, <2>3 DEF ParentOK
<1> QED
  BY <1>2, <1>3, <1>5, <1>6

\* The table a pass reads through its session, and leaves when it commits.
LEMMA SessionAddsUp ==
    ASSUME AllocationInv, SpendInv, NEW p \in Passes
    PROVE  LET view == Overlay(ledger, sent[p])
           IN Whole(view) /\ Balanced(view)
<1>1. /\ Overlay(ledger, sent[p]) = Kept(p) \cup sent[p]
      /\ Kept(p) \subseteq ledger
      /\ Whole(Kept(p)) /\ Keys(Kept(p)) \cap Keys(sent[p]) = {}
      /\ \A x \in Kept(p) : ~IsChild(x) => ChildrenOf(x, Kept(p)) = ChildrenOf(x, ledger)
  BY KeptIsWhole
<1>2. Whole(sent[p]) /\ Balanced(sent[p]) /\ Balanced(ledger)
  BY DEF AllocationInv, PassOK, SpendInv
<1>3. Balanced(Kept(p))
  <2>1. Money(Kept(p))
    BY <1>1, <1>2, AmountOfPart DEF Balanced
  <2> QED
    BY <1>1, <1>2, <2>1 DEF Balanced
<1>4. Whole(Kept(p) \cup sent[p])
  BY <1>1, <1>2, UnionIsWhole
<1>5. Balanced(Kept(p) \cup sent[p])
  BY <1>1, <1>2, <1>3, UnionIsBalanced
<1> QED
  BY <1>1, <1>4, <1>5

\* The weights a pass resolves for a record it has selected can be used.
LEMMA PassWeightsFit ==
    ASSUME AllocationInv, SpendInv, NEW p \in Passes, NEW row \in todo[p]
    PROVE  /\ row \in Ingestible /\ Governed(row)
           /\ Weighable(ResolveWeights(Overlay(ledger, sent[p]), SelectRule(row)))
<1> DEFINE view == Overlay(ledger, sent[p])
<1>1. row \in Ingestible /\ Governed(row)
  BY DEF AllocationInv, PassOK
<1>2. SelectRule(row) \in Rules
  BY <1>1, SelectedRule
<1>3. Whole(view) /\ Balanced(view)
  BY SessionAddsUp
<1> HIDE DEF view
<1>4. \A r \in view : r.amount < 0 =>
            \E other \in Ingestible : other.source = r.source /\ other.amount < 0
  BY <1>3, CreditsCollected
<1>5. Weighable(ResolveWeights(view, SelectRule(row)))
  BY <1>2, <1>3, <1>4, WeightsFit DEF Balanced
<1> QED
  BY <1>1, <1>5 DEF view

\* The first table has no splits.
LEMMA SpendInit == Init => SpendInv
<1> SUFFICES ASSUME Init PROVE SpendInv
  OBVIOUS
<1>1. IsFiniteSet(ledger) /\ \A r \in ledger : r \in Ingestible
  BY CollectedAmounts DEF Init, CollectedAmounts
<1>2. \A r \in ledger : r.amount \in Int /\ r.allocated = FALSE
  BY <1>1, IngestibleFact, CollectedAmounts DEF CollectedAmounts
<1>3. Balanced(ledger)
  BY <1>1, <1>2 DEF Balanced, Money
<1> QED
  BY <1>3, EmptyIsBalanced DEF Init, SpendInv

\* Split: the record and its children join the session as a set that adds up.
LEMMA SplitAddsUp ==
    ASSUME AllocationInv, SpendInv, NEW p \in Passes, Split(p)
    PROVE  SpendInv'
<1>1. PICK row \in todo[p] :
        LET rule == SelectRule(row)
            weights == ResolveWeights(Overlay(ledger, sent[p]), rule)
        IN /\ Splittable(row, weights)
           /\ pending' = [pending EXCEPT ![p] =
                @ \cup BuildChildren(row, rule, weights) \cup {MarkAllocated(row, rule)}]
  BY DEF Split
<1> DEFINE rule == SelectRule(row)
           weights == ResolveWeights(Overlay(ledger, sent[p]), rule)
           group == BuildChildren(row, rule, weights) \cup {MarkAllocated(row, rule)}
<1>2. row \in Ingestible /\ Governed(row) /\ Weighable(weights) /\ Splittable(row, weights)
  BY <1>1, PassWeightsFit
<1>3. Balanced(group) /\ Whole(group) /\ Origins(group) = {row}
  BY <1>2, SplitIsBalanced, SplitIsWhole
<1>4. pending' = [pending EXCEPT ![p] = @ \cup group]
  <2>1. pending[p] \cup BuildChildren(row, rule, weights) \cup {MarkAllocated(row, rule)}
            = pending[p] \cup group
    OBVIOUS
  <2> QED
    BY <1>1, <2>1
<1> HIDE DEF group, weights, rule
<1>5. ledger' = ledger /\ sent' = sent
  BY DEF Split
<1>6. Whole(pending[p]) /\ Balanced(pending[p]) /\ PassOK(p) /\ Whole(ledger) /\ Shape
  BY DEF AllocationInv, PassOK, SpendInv
<1>7. Keys(pending[p]) \cap Keys(group) = {}
  <2>1. /\ Origins(pending[p]) \subseteq Origins(ledger)
        /\ row \in Origins(ledger) /\ row \notin Origins(pending[p])
    BY <1>6 DEF PassOK
  <2> QED
    BY <1>3, <1>6, <2>1, ApartInTable
<1>8. Balanced(pending[p] \cup group)
  BY <1>3, <1>6, <1>7, UnionIsBalanced
<1>9. \A q \in Passes : pending'[q] = IF q = p THEN pending[p] \cup group ELSE pending[q]
  BY <1>4, <1>6 DEF Shape
<1> QED
  BY <1>5, <1>8, <1>9 DEF SpendInv

\* Flush: what is pending joins what has been sent.
LEMMA FlushAddsUp ==
    ASSUME AllocationInv, SpendInv, NEW p \in Passes, Flush(p)
    PROVE  SpendInv'
<1>1. /\ ledger' = ledger
      /\ sent' = [sent EXCEPT ![p] = @ \cup pending[p]]
      /\ pending' = [pending EXCEPT ![p] = {}]
  BY DEF Flush
<1>2. PassOK(p) /\ Whole(ledger) /\ Shape
  BY DEF AllocationInv
<1>3. Whole(sent[p]) /\ Whole(pending[p]) /\ Keys(sent[p]) \cap Keys(pending[p]) = {}
  BY <1>2, ApartInTable DEF PassOK
<1>4. Balanced(sent[p] \cup pending[p])
  BY <1>3, UnionIsBalanced DEF SpendInv
<1>5. \A q \in Passes : sent'[q] = IF q = p THEN sent[p] \cup pending[p] ELSE sent[q]
  BY <1>1, <1>2 DEF Shape
<1>6. \A q \in Passes : pending'[q] = IF q = p THEN {} ELSE pending[q]
  BY <1>1, <1>2 DEF Shape
<1> QED
  BY <1>1, <1>4, <1>5, <1>6, EmptyIsBalanced DEF SpendInv

\* The steps that end a pass: its session is emptied.
LEMMA RollbackAddsUp ==
    ASSUME AllocationInv, SpendInv, NEW p \in Passes, Rollback(p), Balanced(ledger')
    PROVE  SpendInv'
<1>1. /\ pending'[p] = {} /\ sent'[p] = {}
      /\ \A q \in Passes \ {p} : pending'[q] = pending[q] /\ sent'[q] = sent[q]
  BY RollbackClears DEF AllocationInv
<1> QED
  BY <1>1, EmptyIsBalanced DEF SpendInv

\* Every step keeps every split adding up.
LEMMA SpendStep == AllocationInv /\ SpendInv /\ [Next]_vars => SpendInv'
<1> SUFFICES ASSUME AllocationInv, SpendInv, [Next]_vars PROVE SpendInv'
  OBVIOUS
<1>1. CASE Ingest
  <2>1. PICK row \in Ingestible : row.key \notin Keys(ledger) /\ ledger' = ledger \cup {row}
    BY <1>1 DEF Ingest
  <2>2. Keys(ledger) \cap Keys({row}) = {}
    BY <2>1 DEF Keys
  <2>3. Balanced(ledger \cup {row})
    BY <2>2, FreshIsWhole, FreshIsBalanced, UnionIsBalanced DEF AllocationInv, SpendInv
  <2> QED
    BY <1>1, <2>1, <2>3 DEF Ingest, SpendInv
<1>2. ASSUME NEW p \in Passes, Begin(p) PROVE SpendInv'
  BY <1>2 DEF Begin, SpendInv
<1>3. ASSUME NEW p \in Passes, SplitRaises(p) \/ Conflict(p) \/ Fails(p) PROVE SpendInv'
  <2>1. Rollback(p) /\ ledger' = ledger
    BY <1>3 DEF SplitRaises, Conflict, Fails
  <2> QED
    BY <2>1, RollbackAddsUp DEF SpendInv
<1>4. ASSUME NEW p \in Passes, Commit(p) PROVE SpendInv'
  <2>1. Rollback(p) /\ ledger' = Overlay(ledger, sent[p])
    BY <1>4 DEF Commit
  <2> QED
    BY <2>1, SessionAddsUp, RollbackAddsUp
<1>5. CASE UNCHANGED vars
  BY <1>5 DEF vars, SpendInv
<1> QED
  BY <1>1, <1>2, <1>3, <1>4, <1>5, SplitAddsUp, FlushAddsUp DEF Next, Pass

\* Both invariants hold in every state the passes can reach.
THEOREM SpendInvariant == Spec => [](AllocationInv /\ SpendInv)
<1>1. Init => AllocationInv /\ SpendInv
  BY AllocationInit, SpendInit
<1>2. AllocationInv /\ SpendInv /\ [Next]_vars => (AllocationInv /\ SpendInv)'
  BY AllocationStep, SpendStep
<1> QED
  BY <1>1, <1>2, PTL DEF Spec

----------------------------------------------------------------------------
(* Spend is counted once.                                                   *)

\* The rows of a table that adds up: a marked record is in a period with all its
\* children, and a record counts exactly when it is not marked.
LEMMA FamilyFacts ==
    ASSUME NEW rows, Whole(rows), Balanced(rows)
    PROVE  /\ \A x \in rows : ~IsChild(x) =>
                /\ x.allocated = TRUE \/ x.allocated = FALSE
                /\ x.allocated = TRUE =>
                        /\ x.amount \in Nat /\ Amount(ChildrenOf(x, rows)) = x.amount
                        /\ ChildrenOf(x, rows) # {}
                        /\ \A c \in ChildrenOf(x, rows) : IsChild(c) /\ c.at = x.at
           /\ \A c \in rows : IsChild(c) =>
                /\ c.allocated = FALSE
                /\ \E x \in rows : ~IsChild(x) /\ x.allocated = TRUE /\ c \in ChildrenOf(x, rows)
<1>1. ASSUME NEW x \in rows, ~IsChild(x)
      PROVE  /\ x.allocated = TRUE \/ x.allocated = FALSE
             /\ x.allocated = TRUE => ChildrenOf(x, rows) # {}
  <2>1. ParentOK(x, rows)
    BY <1>1 DEF Whole
  <2>2. CASE x = Origin(x)
    <3>1. x.allocated = FALSE
      BY <2>1, <2>2, IngestibleFact DEF ParentOK
    <3> QED
      BY <3>1
  <2>3. CASE x # Origin(x)
    <3>1. x.allocated = TRUE /\ Governed(Origin(x))
          /\ Keys(ChildrenOf(x, rows)) = KidKeys(Origin(x))
      BY <2>1, <2>3 DEF ParentOK
    <3>2. KidKeys(Origin(x)) # {}
      BY <3>1, SelectedRule DEF KidKeys
    <3> QED
      BY <3>1, <3>2 DEF Keys
  <2> QED
    BY <2>2, <2>3
<1>2. ASSUME NEW x \in rows, ~IsChild(x), NEW c \in ChildrenOf(x, rows)
      PROVE  IsChild(c)
  <2>1. Origin(x) \in Ingestible /\ x.key = Origin(x).key
    BY <1>2, WholeKeys
  <2>2. x.key # Nothing
    BY <2>1, IngestibleFact
  <2> QED
    BY <2>2 DEF ChildrenOf, IsChild
<1>3. ASSUME NEW c \in rows, IsChild(c)
      PROVE  \E x \in rows : ~IsChild(x) /\ x.allocated = TRUE /\ c \in ChildrenOf(x, rows)
  BY <1>3 DEF Whole, ChildOK, ChildrenOf
<1> QED
  BY <1>1, <1>2, <1>3 DEF Balanced

\* The children in any part of a table that keeps families together are charged what
\* the marked records in it cost.
LEMMA KidsCoverMarked ==
    ASSUME NEW rows, Whole(rows), Balanced(rows), NEW some \in SUBSET rows,
           \A x \in rows : ~IsChild(x) /\ x.allocated = TRUE =>
                \A c \in ChildrenOf(x, rows) : c \in some <=> x \in some
    PROVE  Amount({c \in some : IsChild(c)})
            = Amount({x \in some : ~IsChild(x) /\ x.allocated = TRUE})
<1> DEFINE kids == {c \in some : IsChild(c)}
           marked == {x \in some : ~IsChild(x) /\ x.allocated = TRUE}
           key == [c \in kids |-> c.parent]
           names == Image(key, kids)
           h == [k \in names |-> CHOOSE x \in marked : x.key = k]
           e == [x \in marked |-> x.amount]
<1>1. \A a, b \in rows : a.key = b.key => a = b
  BY DEF Whole
<1>2. ASSUME NEW x \in marked
      PROVE  /\ Fibre(key, kids, x.key) = ChildrenOf(x, rows) /\ x.key \in names
             /\ x.amount \in Nat /\ Amount(ChildrenOf(x, rows)) = x.amount
  <2>1. /\ x.amount \in Nat /\ Amount(ChildrenOf(x, rows)) = x.amount
        /\ ChildrenOf(x, rows) # {}
        /\ \A c \in ChildrenOf(x, rows) : IsChild(c) /\ c \in some
    BY FamilyFacts
  <2>2. \A c \in ChildrenOf(x, rows) : c \in kids /\ key[c] = x.key
    BY <2>1 DEF ChildrenOf
  <2>3. Fibre(key, kids, x.key) = ChildrenOf(x, rows)
    BY <2>2 DEF Fibre, ChildrenOf
  <2>4. x.key \in names
    BY <2>1, <2>2 DEF Image
  <2> QED
    BY <2>1, <2>3, <2>4
<1>3. ASSUME NEW k \in names
      PROVE  \E x \in marked : x.key = k
  <2>1. PICK c \in kids : k = c.parent
    BY DEF Image
  <2>2. PICK x \in rows : ~IsChild(x) /\ x.allocated = TRUE /\ c \in ChildrenOf(x, rows)
    BY <2>1, FamilyFacts
  <2>3. x \in some /\ c.parent = x.key
    BY <2>1, <2>2 DEF ChildrenOf
  <2> QED
    BY <2>1, <2>2, <2>3
<1>4. \A k \in names : h[k] \in marked /\ h[k].key = k
  BY <1>3
<1>5. marked \in SUBSET rows /\ kids \in SUBSET rows
  OBVIOUS
<1>6. \A x \in marked : e[x] = x.amount
  OBVIOUS
<1>7. Amount(marked) = SumOf(On(e, marked))
  <2>1. On(e, marked) = e
    BY DEF On
  <2> QED
    BY <2>1 DEF Amount
<1> HIDE DEF h, e, kids, marked, names
<1>8. Image(h, names) = marked
  <2>1. ASSUME NEW x \in marked PROVE h[x.key] = x /\ x.key \in names
    BY <1>1, <1>2, <1>4, <1>5
  <2> QED
    BY <1>4, <2>1 DEF Image
<1>9. Money(kids)
  BY <1>5, AmountOfPart DEF Balanced
<1>10. \A v \in names : e[h[v]] = Amount(Fibre(key, kids, v))
  <2> SUFFICES ASSUME NEW v \in names PROVE e[h[v]] = Amount(Fibre(key, kids, v))
    OBVIOUS
  <2>1. h[v] \in marked /\ h[v].key = v
    BY <1>4
  <2> QED
    BY <1>2, <1>6, <2>1
<1>11. \A v, u \in names : h[v] = h[u] => v = u
  BY <1>4
<1>12. SumOf(On(e, Image(h, names))) = Amount(kids)
  <2> HIDE DEF key
  <2> QED
    BY <1>9, <1>10, <1>11, NamedGroupsAddUp DEF names
<1>13. Amount(kids) = Amount(marked)
  BY <1>7, <1>8, <1>12
<1> QED
  BY <1>13 DEF kids, marked

\* A record and its parts meet the same filters, as long as these name no team.
LEMMA FamilyMeetsFilters ==
    ASSUME NEW rows, Whole(rows), Balanced(rows), NEW x \in rows, ~IsChild(x),
           x.allocated = TRUE, NEW c \in ChildrenOf(x, rows), NEW period, NEW filters,
           filters.parents = TRUE, DOMAIN filters.only \subseteq OwnerDimensions \cup {"source"},
           "team" \in DOMAIN filters.only => filters.only["team"] = {}
    PROVE  Conditions(c, period, filters) <=> Conditions(x, period, filters)
<1>1. c.at = x.at /\ Portions(x, ChildrenOf(x, rows))
  BY DEF Balanced
<1>2. ASSUME NEW d \in DOMAIN filters.only, filters.only[d] # {} PROVE Value(c, d) = Value(x, d)
  <2>1. d \in (OwnerDimensions \ {"team"}) \cup {"source"}
    BY <1>2
  <2> QED
    BY <1>1, <2>1 DEF Portions, Value, OwnerDimensions
<1> QED
  BY <1>1, <1>2 DEF Conditions, InPeriod

\* What counts under filters that name no team is what the collectors wrote.
LEMMA CountedOnce ==
    ASSUME NEW rows, Whole(rows), Balanced(rows), NEW period, NEW filters, NEW all,
           filters.parents = FALSE, all.parents = TRUE, all.only = filters.only,
           DOMAIN filters.only \subseteq OwnerDimensions \cup {"source"},
           "team" \in DOMAIN filters.only => filters.only["team"] = {}
    PROVE  TotalSpend(rows, period, filters)
            = Amount({r \in Selected(rows, period, all) : ~IsChild(r)})
<1> DEFINE some == Selected(rows, period, all)
           kids == {c \in some : IsChild(c)}
           marked == {x \in some : ~IsChild(x) /\ x.allocated = TRUE}
           plain == {x \in some : ~IsChild(x) /\ x.allocated = FALSE}
           collected == {r \in some : ~IsChild(r)}
           hit == Selected(rows, period, filters)
<1>1. hit = {r \in some : ~r.allocated} /\ some \in SUBSET rows
  BY DEF Selected, Conditions
<1>2. \A x \in rows : ~IsChild(x) /\ x.allocated = TRUE =>
            \A c \in ChildrenOf(x, rows) : c \in some <=> x \in some
  <2> SUFFICES ASSUME NEW x \in rows, ~IsChild(x), x.allocated = TRUE,
                      NEW c \in ChildrenOf(x, rows)
               PROVE  c \in some <=> x \in some
    OBVIOUS
  <2>1. c \in rows
    BY DEF ChildrenOf
  <2>2. Conditions(c, period, all) <=> Conditions(x, period, all)
    BY FamilyMeetsFilters
  <2> QED
    BY <2>1, <2>2 DEF Selected
<1> HIDE DEF some
<1>3. hit = plain \cup kids /\ collected = plain \cup marked
  <2>1. \A r \in some : IsChild(r) => r.allocated = FALSE
    BY <1>1, FamilyFacts
  <2>2. \A r \in some : ~IsChild(r) => r.allocated = TRUE \/ r.allocated = FALSE
    BY <1>1, FamilyFacts
  <2>3. {r \in some : ~r.allocated} = plain \cup kids
    BY <2>1, <2>2
  <2>4. collected = plain \cup marked
    BY <2>2
  <2> QED
    BY <1>1, <2>3, <2>4
<1>4. plain \cap kids = {} /\ plain \cap marked = {}
  OBVIOUS
<1>5. plain \in SUBSET rows /\ kids \in SUBSET rows /\ marked \in SUBSET rows
  BY <1>1
<1>6. Amount(kids) = Amount(marked)
  BY <1>1, <1>2, KidsCoverMarked
<1> HIDE DEF kids, marked, plain, hit, collected
<1>7. Money(plain) /\ Money(kids) /\ Money(marked)
  BY <1>5, AmountOfPart DEF Balanced
<1>8. Amount(plain \cup kids) = Amount(plain) + Amount(kids)
  BY <1>4, <1>7, AmountUnion
<1>9. Amount(plain \cup marked) = Amount(plain) + Amount(marked)
  BY <1>4, <1>7, AmountUnion
<1>10. Amount(hit) = Amount(collected)
  BY <1>3, <1>6, <1>8, <1>9
<1> QED
  BY <1>10 DEF hit, collected, some, TotalSpend

\* What the filters of the property have in common.
LEMMA TeamBlindFilters ==
    ASSUME NEW rows, NEW filters \in TeamBlind(rows)
    PROVE  LET all == [filters EXCEPT !.parents = TRUE]
           IN /\ filters.parents = FALSE /\ all.parents = TRUE /\ all.only = filters.only
              /\ DOMAIN filters.only \subseteq OwnerDimensions \cup {"source"}
              /\ filters.only["team"] = {}
<1>1. CASE filters = NoFilters
  BY <1>1 DEF NoFilters, OwnerDimensions
<1>2. ASSUME NEW d \in (OwnerDimensions \ {"team"}) \cup {"source"}, NEW v,
             filters = FilterOn(d, {v})
      PROVE  LET all == [filters EXCEPT !.parents = TRUE]
             IN /\ filters.parents = FALSE /\ all.parents = TRUE /\ all.only = filters.only
                /\ DOMAIN filters.only \subseteq OwnerDimensions \cup {"source"}
                /\ filters.only["team"] = {}
  BY <1>2 DEF FilterOn, NoFilters, OwnerDimensions
<1> QED
  BY <1>1, <1>2 DEF TeamBlind

\* Allocated spend is counted exactly once, in total and of each source and project,
\* before, between and after the passes, whichever overlap, conflict or die half-way.
THEOREM SpendIsCountedOnce == Spec => []SpendCountedOnce
<1>1. AllocationInv /\ SpendInv => SpendCountedOnce
  <2> SUFFICES ASSUME AllocationInv, SpendInv, NEW filters \in TeamBlind(ledger)
               PROVE  TotalSpend(ledger, Period, filters)
                        = Amount({r \in Selected(ledger, Period, [filters EXCEPT !.parents = TRUE]) :
                                    ~IsChild(r)})
    BY DEF SpendCountedOnce
  <2>1. Whole(ledger) /\ Balanced(ledger)
    BY DEF AllocationInv, SpendInv
  <2> QED
    BY <2>1, TeamBlindFilters, CountedOnce
<1> QED
  BY <1>1, SpendInvariant, PTL

----------------------------------------------------------------------------
(* Groups and shares.                                                       *)

\* A filter on a team selects exactly the rows of the team's group.
LEMMA TeamFilter ==
    ASSUME NEW rows, NEW period, NEW row
    PROVE  InGroup(Selected(rows, period, NoFilters), {"team"}, KeyOf(row, {"team"}))
            = Selected(rows, period, FilterOn("team", {KeyOf(row, {"team"})["team"]}))
<1> DEFINE v == Value(row, "team")
           filter == FilterOn("team", {v})
<1>1. KeyOf(row, {"team"})["team"] = v
  BY DEF KeyOf
<1>2. ASSUME NEW r PROVE KeyOf(r, {"team"}) = KeyOf(row, {"team"}) <=> Value(r, "team") = v
  <2>1. KeyOf(r, {"team"}) = [d \in {"team"} |-> Value(r, d)]
    BY DEF KeyOf
  <2>2. KeyOf(row, {"team"}) = [d \in {"team"} |-> Value(row, d)]
    BY DEF KeyOf
  <2> QED
    BY <2>1, <2>2
<1>3. /\ NoFilters.parents = FALSE
      /\ \A d \in DOMAIN NoFilters.only : NoFilters.only[d] = {}
  BY DEF NoFilters
<1>4. /\ filter.parents = FALSE /\ "team" \in DOMAIN filter.only
      /\ filter.only["team"] = {v}
      /\ \A d \in DOMAIN filter.only : d # "team" => filter.only[d] = {}
  BY DEF FilterOn, NoFilters, OwnerDimensions
<1> HIDE DEF filter, v
<1>5. ASSUME NEW r
      PROVE  Conditions(r, period, filter) <=>
                Conditions(r, period, NoFilters) /\ Value(r, "team") = v
  <2>1. Conditions(r, period, NoFilters) <=> InPeriod(r, period) /\ ~r.allocated
    BY <1>3 DEF Conditions
  <2>2. (\A d \in DOMAIN filter.only : filter.only[d] # {} => Value(r, d) \in filter.only[d])
            <=> Value(r, "team") = v
    BY <1>4
  <2>3. Conditions(r, period, filter) <=>
            /\ InPeriod(r, period) /\ ~r.allocated
            /\ \A d \in DOMAIN filter.only : filter.only[d] # {} => Value(r, d) \in filter.only[d]
    BY <1>4 DEF Conditions
  <2> QED
    BY <2>1, <2>2, <2>3
<1> QED
  BY <1>1, <1>2, <1>5 DEF InGroup, Selected, filter

\* Grouping loses nothing and counts nothing twice, whatever the passes have done
\* to the table: groups and their sources add up to the total, and a filter on a
\* team is its group.
THEOREM GroupsPartition == Spec => []GroupsPartitionSpend
<1>1. ASSUME AllocationInv, SpendInv PROVE GroupsPartitionSpend
  <2> SUFFICES ASSUME NEW groupBy \in {{"team"}, {"model"}, {"team", "project"}}
               PROVE  LET groups == AggregateCosts(ledger, groupBy, Period, NoFilters)
        IN /\ SumOf([g \in groups |-> g.total]) = TotalSpend(ledger, Period, NoFilters)
           /\ SumOf([g \in groups |-> g.count])
                = Cardinality(Selected(ledger, Period, NoFilters))
           /\ \A g \in groups :
                /\ SumOf(g.by_source) = g.total
                /\ groupBy = {"team"} =>
                    g.total = TotalSpend(ledger, Period, FilterOn("team", {g.key["team"]}))
    BY DEF GroupsPartitionSpend
  <2> DEFINE hit == Selected(ledger, Period, NoFilters)
             groups == AggregateCosts(ledger, groupBy, Period, NoFilters)
  <2>1. Money(ledger)
    BY <1>1 DEF SpendInv, Balanced
  <2>2. /\ SumOf([g \in groups |-> g.total]) = TotalSpend(ledger, Period, NoFilters)
        /\ SumOf([g \in groups |-> g.count]) = Cardinality(hit)
        /\ {g.key : g \in groups} = KeysIn(hit, groupBy)
        /\ \A g \in groups : /\ g.total = Amount(InGroup(hit, groupBy, g.key))
                             /\ SumOf(g.by_source) = g.total
    BY <2>1, GroupsAddUp
  <2>3. ASSUME NEW g \in groups, groupBy = {"team"}
        PROVE  g.total = TotalSpend(ledger, Period, FilterOn("team", {g.key["team"]}))
    <3> HIDE DEF groups
    <3>1. PICK row \in hit : g.key = KeyOf(row, {"team"})
      BY <2>2, <2>3 DEF KeysIn
    <3>2. InGroup(hit, {"team"}, KeyOf(row, {"team"}))
            = Selected(ledger, Period, FilterOn("team", {KeyOf(row, {"team"})["team"]}))
      BY TeamFilter
    <3> QED
      BY <2>2, <2>3, <3>1, <3>2 DEF TotalSpend
  <2> HIDE DEF groups
  <2> QED
    BY <2>2, <2>3 DEF groups
<1> QED
  BY <1>1, SpendInvariant, PTL

\* A record's children in the session that splits it are those it was just split into.
LEMMA KidsOfSplit ==
    ASSUME AllocationInv, NEW p \in Passes, NEW row \in todo[p]
    PROVE  LET rule == SelectRule(row)
               kids == BuildChildren(row, rule, ResolveWeights(Overlay(ledger, sent[p]), rule))
           IN ChildrenOf(row, pending[p] \cup kids \cup {MarkAllocated(row, rule)}) = kids
<1> DEFINE rule == SelectRule(row)
           kids == BuildChildren(row, rule, ResolveWeights(Overlay(ledger, sent[p]), rule))
           mark == MarkAllocated(row, rule)
<1>1. PassOK(p) /\ Whole(ledger) /\ row \in Ingestible /\ Governed(row)
  BY DEF AllocationInv, PassOK
<1>2. row.key # Nothing
  BY <1>1, IngestibleFact
<1>3. ~IsChild(mark)
  BY <1>1, Marked
<1>4. \A c \in kids : c.parent = row.key
  BY <1>1, Children
<1>5. ASSUME NEW c \in pending[p], c.parent = row.key PROVE FALSE
  <2>1. Whole(pending[p]) /\ Origins(pending[p]) \subseteq Origins(ledger)
        /\ row \in Origins(ledger) /\ row \notin Origins(pending[p])
    BY <1>1 DEF PassOK
  <2>2. IsChild(c)
    BY <1>2, <1>5 DEF IsChild
  <2>3. PICK x \in pending[p] : ~IsChild(x) /\ x.key = row.key
    BY <1>5, <2>1, <2>2 DEF Whole, ChildOK
  <2>4. Origin(x).key = row.key /\ Origin(x) \in Origins(pending[p])
    BY <2>1, <2>3, WholeKeys
  <2>5. Origin(x) = row
    BY <1>1, <2>1, <2>4, OriginsDiffer
  <2> QED
    BY <2>1, <2>4, <2>5
<1> HIDE DEF kids, mark
<1>6. ChildrenOf(row, pending[p] \cup kids \cup {mark}) = kids
  BY <1>2, <1>3, <1>4, <1>5 DEF ChildrenOf, IsChild
<1> QED
  BY <1>6 DEF kids, mark

\* Children add up to the parent in money and in quantity to the last unit, and no
\* team is more than a step away from its exact share, for any weights and any
\* number of targets.
THEOREM SharesAreExact == Spec => SharesFollowWeights
<1> DEFINE Exact ==
        \A p \in Passes : \A row \in todo[p] :
            row \notin todo'[p] /\ phase'[p] # "idle" =>
            LET weights == ResolveWeights(Overlay(ledger, sent[p]), SelectRule(row))
                children == ChildrenOf(row, pending'[p])
            IN /\ Amount(children) = row.amount
               /\ row.quantity # Nothing =>
                    SumOf([c \in children |-> c.quantity]) = row.quantity
               /\ \A c \in children :
                    LET off == c.amount * SumOf(weights)
                                - row.amount * weights[c.owner["team"]]
                    IN off < SumOf(weights) /\ -off < SumOf(weights)
<1>1. ASSUME AllocationInv, SpendInv, [Next]_vars PROVE Exact
  <2> SUFFICES ASSUME NEW p \in Passes, NEW row \in todo[p],
                      row \notin todo'[p], phase'[p] # "idle"
               PROVE  LET weights == ResolveWeights(Overlay(ledger, sent[p]), SelectRule(row))
                          children == ChildrenOf(row, pending'[p])
                      IN /\ Amount(children) = row.amount
                         /\ row.quantity # Nothing =>
                                SumOf([c \in children |-> c.quantity]) = row.quantity
                         /\ \A c \in children :
                                LET off == c.amount * SumOf(weights)
                                            - row.amount * weights[c.owner["team"]]
                                IN off < SumOf(weights) /\ -off < SumOf(weights)
    OBVIOUS
  <2> DEFINE rule == SelectRule(row)
             weights == ResolveWeights(Overlay(ledger, sent[p]), rule)
             kids == BuildChildren(row, rule, weights)
  <2>1. Shape /\ PassOK(p)
    BY <1>1 DEF AllocationInv
  <2>2. /\ row \in Ingestible /\ Governed(row) /\ Weighable(weights)
    BY <1>1, PassWeightsFit
  <2>3. Splittable(row, weights)
        /\ pending'[p] = pending[p] \cup kids \cup {MarkAllocated(row, rule)}
    <3>1. Split(p)
      <4>1. ASSUME NEW q \in Passes, Begin(q) PROVE FALSE
        BY <2>1, <4>1 DEF Begin, Shape, PassOK
      <4>2. ASSUME NEW q \in Passes, Rollback(q) PROVE FALSE
        BY <2>1, <4>2 DEF Rollback, Shape
      <4>3. ASSUME NEW q \in Passes, Split(q), q # p PROVE FALSE
        BY <2>1, <4>3 DEF Split, Shape
      <4>4. \A q \in Passes : ~Flush(q)
        BY DEF Flush
      <4>5. ~Ingest /\ ~UNCHANGED vars
        BY DEF Ingest, vars
      <4>6. PICK q \in Passes : Pass(q)
        BY <1>1, <4>5 DEF Next
      <4> QED
        BY <4>1, <4>2, <4>3, <4>4, <4>6 DEF Pass, SplitRaises, Conflict, Fails, Commit
    <3>2. PICK other \in todo[p] :
            LET r == SelectRule(other)
                w == ResolveWeights(Overlay(ledger, sent[p]), r)
            IN /\ Splittable(other, w)
               /\ todo' = [todo EXCEPT ![p] = @ \ {other}]
               /\ pending' = [pending EXCEPT ![p] =
                    @ \cup BuildChildren(other, r, w) \cup {MarkAllocated(other, r)}]
      BY <3>1 DEF Split
    <3>3. other = row
      <4>1. todo'[p] = todo[p] \ {other}
        BY <2>1, <3>2 DEF Shape
      <4> QED
        BY <4>1
    <3> HIDE DEF kids, weights, rule
    <3>4. /\ Splittable(row, weights)
          /\ pending' = [pending EXCEPT ![p] = @ \cup kids \cup {MarkAllocated(row, rule)}]
      BY <3>2, <3>3 DEF kids, weights, rule
    <3> QED
      BY <2>1, <3>4 DEF Shape
  <2>4. ChildrenOf(row, pending'[p]) = kids
    BY <1>1, <2>3, KidsOfSplit
  <2> HIDE DEF weights
  <2>5. /\ Amount(kids) = row.amount
        /\ row.quantity # Nothing => SumOf([c \in kids |-> c.quantity]) = row.quantity
        /\ \A c \in kids :
                LET off == c.amount * SumOf(weights) - row.amount * weights[c.owner["team"]]
                IN off < SumOf(weights) /\ -off < SumOf(weights)
    BY <2>2, <2>3, KidsAddUp
  <2> HIDE DEF kids
  <2> QED
    BY <2>4, <2>5 DEF weights
<1>2. Spec => [][Exact]_vars
  <2> HIDE DEF Exact
  <2> QED
    BY <1>1, SpendInvariant, PTL DEF Spec
<1> QED
  BY <1>2 DEF SharesFollowWeights

----------------------------------------------------------------------------
(* The table divides records.                                               *)

\* The records of a table, each as it was written, and the children of each.
DividedIn(rows) == [row \in Origins(rows) |-> ChildrenOf(row, rows)]

\* Children belong to a record as it was written as to the record.
LEMMA ChildrenOfOrigin ==
    ASSUME NEW rows, Whole(rows), NEW x \in rows, ~IsChild(x), NEW others
    PROVE  ChildrenOf(Origin(x), others) = ChildrenOf(x, others)
BY WholeKeys DEF ChildrenOf

\* A row fresh from a collector enters the books undivided.
LEMMA IngestEnters ==
    ASSUME AllocationInv, NEW row \in Ingestible, row.key \notin Keys(ledger),
           ledger' = ledger \cup {row}
    PROVE  /\ row.key \notin {r.key : r \in Origins(ledger)}
           /\ Origins(ledger') = Origins(ledger) \cup {row}
           /\ ChildrenOf(row, ledger') = {}
           /\ \A r \in Origins(ledger) : ChildrenOf(r, ledger') = ChildrenOf(r, ledger)
<1>1. Whole(ledger) /\ Whole({row}) /\ Origins({row}) = {row} /\ Keys({row}) = {row.key}
      /\ ~IsChild(row)
  BY FreshIsWhole DEF AllocationInv, Keys
<1>2. Keys(ledger) \cap Keys({row}) = {}
  BY <1>1
<1>3. Origins(ledger') = Origins(ledger) \cup {row}
  BY <1>1, <1>2, UnionIsWhole
<1>4. /\ \A x \in ledger : ~IsChild(x) => ChildrenOf(x, ledger') = ChildrenOf(x, ledger)
      /\ ChildrenOf(row, ledger') = ChildrenOf(row, {row})
  BY <1>1, <1>2, ChildrenInUnion
<1>5. ChildrenOf(row, {row}) = {}
  BY IngestibleFact DEF ChildrenOf
<1>6. ASSUME NEW r \in Origins(ledger)
      PROVE  r.key # row.key /\ ChildrenOf(r, ledger') = ChildrenOf(r, ledger)
  <2>1. PICK x \in ledger : ~IsChild(x) /\ r = Origin(x)
    BY DEF Origins
  <2>2. x.key = r.key /\ x.key \in Keys(ledger)
    BY <1>1, <2>1, WholeKeys DEF Keys
  <2>3. ChildrenOf(r, ledger') = ChildrenOf(x, ledger') /\ ChildrenOf(r, ledger) = ChildrenOf(x, ledger)
    BY <1>1, <2>1, ChildrenOfOrigin
  <2> QED
    BY <1>4, <2>1, <2>2, <2>3
<1> QED
  BY <1>3, <1>4, <1>5, <1>6

\* What a transaction has split is divided by its commit: the children of each record
\* share its cost, and it had none before.
LEMMA CommitDivides ==
    ASSUME AllocationInv, SpendInv, NEW p \in Passes, ledger' = Overlay(ledger, sent[p])
    PROVE  /\ Origins(ledger') = Origins(ledger) /\ Origins(sent[p]) \subseteq Origins(ledger)
           /\ \A row \in Origins(ledger) \ Origins(sent[p]) :
                    ChildrenOf(row, ledger') = ChildrenOf(row, ledger)
           /\ \A row \in Origins(sent[p]) :
                    /\ ChildrenOf(row, ledger) = {}
                    /\ Books!Shares(row, ChildrenOf(row, ledger'))
<1> DEFINE kept == Kept(p)
           put == sent[p]
<1>1. /\ Whole(ledger) /\ Whole(put) /\ Whole(kept) /\ Keys(kept) \cap Keys(put) = {}
      /\ ledger' = kept \cup put /\ kept \subseteq ledger
      /\ Origins(put) \subseteq Origins(ledger) /\ Balanced(put)
      /\ \A x \in put : ~IsChild(x) => x.allocated = TRUE
      /\ \A x \in kept : ~IsChild(x) => ChildrenOf(x, kept) = ChildrenOf(x, ledger)
  BY KeptIsWhole DEF AllocationInv, PassOK, SpendInv
<1>2. ASSUME NEW q \in ledger, ~IsChild(q), q \notin kept
      PROVE  ChildrenOf(q, ledger) = {} /\ Origin(q) \in Origins(put)
  BY <1>2, KeptIsWhole DEF Origins
<1>3. \A q \in kept : ~IsChild(q) => q.key \notin Keys(put)
  BY DEF Kept
<1> HIDE DEF kept, put
<1>4. /\ Origins(ledger') = Origins(kept) \cup Origins(put)
      /\ \A x \in kept : ~IsChild(x) => ChildrenOf(x, ledger') = ChildrenOf(x, kept)
      /\ \A x \in put : ~IsChild(x) => ChildrenOf(x, ledger') = ChildrenOf(x, put)
  <2>1. Origins(kept \cup put) = Origins(kept) \cup Origins(put)
    BY <1>1, UnionIsWhole
  <2>2. /\ \A x \in kept : ~IsChild(x) => ChildrenOf(x, kept \cup put) = ChildrenOf(x, kept)
        /\ \A x \in put : ~IsChild(x) => ChildrenOf(x, kept \cup put) = ChildrenOf(x, put)
    BY <1>1, ChildrenInUnion
  <2>3. ledger' = kept \cup put
    BY <1>1
  <2> QED
    BY <2>1, <2>2, <2>3
<1>5. Origins(ledger') = Origins(ledger)
  <2>1. Origins(kept) \subseteq Origins(ledger)
    BY <1>1 DEF Origins
  <2>2. ASSUME NEW q \in ledger, ~IsChild(q) PROVE Origin(q) \in Origins(kept) \cup Origins(put)
    BY <1>2, <2>2 DEF Origins
  <2>3. Origins(ledger) \subseteq Origins(kept) \cup Origins(put)
    BY <2>2 DEF Origins
  <2> QED
    BY <1>1, <1>4, <2>1, <2>3
<1>6. ASSUME NEW row \in Origins(ledger) \ Origins(put)
      PROVE  ChildrenOf(row, ledger') = ChildrenOf(row, ledger)
  <2>1. PICK q \in ledger : ~IsChild(q) /\ row = Origin(q)
    BY DEF Origins
  <2>2. q \in kept
    BY <1>2, <2>1
  <2>3. ChildrenOf(q, ledger') = ChildrenOf(q, ledger)
    BY <1>1, <1>4, <2>1, <2>2
  <2> QED
    BY <1>1, <2>1, <2>3, ChildrenOfOrigin
<1>7. ASSUME NEW row \in Origins(put)
      PROVE  ChildrenOf(row, ledger) = {} /\ Books!Shares(row, ChildrenOf(row, ledger'))
  <2>1. PICK x \in put : ~IsChild(x) /\ row = Origin(x)
    BY DEF Origins
  <2>2. row \in Ingestible /\ x.key = row.key /\ x.key \in Keys(put)
    BY <1>1, <2>1, WholeKeys DEF Keys
  <2>3. ChildrenOf(row, ledger) = {}
    <3>1. PICK q \in ledger : ~IsChild(q) /\ row = Origin(q)
      BY <1>1 DEF Origins
    <3>2. q.key = row.key
      BY <1>1, <3>1, WholeKeys
    <3>3. q \notin kept
      BY <1>3, <2>2, <3>1, <3>2
    <3> QED
      BY <1>1, <1>2, <3>1, <3>3, ChildrenOfOrigin
  <2> DEFINE kids == ChildrenOf(x, put)
  <2>4. ChildrenOf(row, ledger') = kids
    BY <1>1, <1>4, <2>1, ChildrenOfOrigin
  <2>5. /\ kids # {} /\ Amount(kids) = x.amount /\ Portions(x, kids)
        /\ \A c \in kids : c.amount \in Nat /\ c.at = x.at
    BY <1>1, <2>1, FamilyFacts DEF Balanced
  <2>6. /\ row.amount = x.amount /\ row.at = x.at /\ row.source = x.source
        /\ row.model = x.model /\ row.owner = x.owner
    <3>1. row = [c \in Columns |-> row[c]]
      BY <2>2, IngestibleFact
    <3> QED
      BY <2>1, <3>1 DEF Origin, Columns
  <2>7. DOMAIN row.owner = OwnerDimensions
    BY <2>2, CollectedAmounts DEF CollectedAmounts
  <2>8. \A c \in kids : c.parent = row.key
    BY <2>2 DEF ChildrenOf
  <2> HIDE DEF kids
  <2>9. Books!Shares(row, kids)
    BY <2>5, <2>6, <2>7, <2>8 DEF Books!Shares, Portions
  <2> QED
    BY <2>3, <2>4, <2>9
<1> QED
  BY <1>1, <1>5, <1>6, <1>7 DEF put

\* Every step is an entry or a division in the books, or leaves them as they are.
LEMMA StepDivides ==
    ASSUME AllocationInv, SpendInv, [Next]_vars
    PROVE  [Books!Next]_Divided
<1>1. /\ Divided = DividedIn(ledger) /\ Divided' = DividedIn(ledger')
      /\ Books!Records = Origins(ledger)
  BY DEF Divided, DividedIn, Origins, Origin, Books!Records
<1>2. ASSUME NEW row \in Ingestible, row.key \notin Keys(ledger), ledger' = ledger \cup {row}
      PROVE  Books!Next
  <2>1. /\ row.key \notin {r.key : r \in Origins(ledger)}
        /\ Origins(ledger') = Origins(ledger) \cup {row}
        /\ ChildrenOf(row, ledger') = {}
        /\ \A r \in Origins(ledger) : ChildrenOf(r, ledger') = ChildrenOf(r, ledger)
    BY <1>2, IngestEnters
  <2>2. DividedIn(ledger') = [r \in Origins(ledger) \cup {row} |->
                                IF r = row THEN {} ELSE DividedIn(ledger)[r]]
    BY <2>1 DEF DividedIn
  <2>3. Books!Enter(row)
    BY <1>1, <2>1, <2>2 DEF Books!Enter
  <2> QED
    BY <2>3 DEF Books!Next
<1>3. ASSUME NEW p \in Passes, Commit(p) PROVE Books!Next
  <2> DEFINE rows == Origins(sent[p])
  <2>1. /\ Origins(ledger') = Origins(ledger) /\ rows \subseteq Origins(ledger)
        /\ \A row \in Origins(ledger) \ rows : ChildrenOf(row, ledger') = ChildrenOf(row, ledger)
        /\ \A row \in rows : /\ ChildrenOf(row, ledger) = {}
                              /\ Books!Shares(row, ChildrenOf(row, ledger'))
    BY <1>3, CommitDivides DEF Commit
  <2> HIDE DEF rows
  <2>2. rows \subseteq Books!Undivided
    BY <1>1, <2>1 DEF Books!Undivided, DividedIn
  <2>3. DividedIn(ledger') = [row \in Origins(ledger) |->
                IF row \in rows THEN DividedIn(ledger')[row] ELSE DividedIn(ledger)[row]]
    BY <2>1 DEF DividedIn
  <2>4. \A row \in rows : Books!Shares(row, DividedIn(ledger')[row])
    BY <2>1 DEF DividedIn
  <2>5. Books!Divide(rows)
    BY <1>1, <2>2, <2>3, <2>4 DEF Books!Divide
  <2> QED
    BY <2>2, <2>5 DEF Books!Next
<1>4. CASE UNCHANGED ledger
  BY <1>1, <1>4
<1>5. \/ UNCHANGED ledger \/ Ingest \/ \E p \in Passes : Commit(p)
  BY DEF Next, Pass, Begin, Split, SplitRaises, Flush, Conflict, Fails, vars
<1> QED
  BY <1>2, <1>3, <1>4, <1>5 DEF Ingest

\* Allocation keeps the promise of CostLedger: whichever passes overlap, conflict or
\* die, the commits divide each record once for all, into parts that cost the same
\* and differ in their teams only, and no record is lost or altered.
THEOREM AllocationDivides == Spec => DividesOnce
<1>1. Init => Books!Init
  <2> SUFFICES ASSUME Init PROVE Books!Init
    OBVIOUS
  <2>1. \A x \in ledger : x \in Ingestible /\ ~IsChild(x) /\ x.parent = Nothing /\ Origin(x) = x
                         /\ x.key # Nothing
    BY IngestibleFact, OriginOfCollected DEF Init, IsChild
  <2>2. Divided = DividedIn(ledger) /\ Origins(ledger) = ledger
    BY <2>1 DEF Divided, DividedIn, Origins, Origin
  <2>3. \A x \in ledger : ChildrenOf(x, ledger) = {}
    BY <2>1 DEF ChildrenOf
  <2>4. Books!Records = ledger /\ Books!Undivided = ledger
    BY <2>2, <2>3 DEF DividedIn, Books!Records, Books!Undivided
  <2> QED
    BY <2>1, <2>4 DEF Books!Init
<1>2. AllocationInv /\ SpendInv /\ [Next]_vars => [Books!Next]_Divided
  BY StepDivides
<1> QED
  BY <1>1, <1>2, SpendInvariant, PTL DEF Spec, DividesOnce

----------------------------------------------------------------------------
(* The unattributed report.                                                 *)

\* Rows that cost nothing or less cost nothing or less together.
LEMMA AmountOfCredits ==
    ASSUME NEW rows, Money(rows), \A r \in rows : r.amount <= 0
    PROVE  Amount(rows) <= 0
<1> DEFINE f == Amounts(rows)
           minus == -1
           owed == [r \in rows |-> minus * f[r]]
<1>1. IsFiniteSet(rows) /\ \A r \in rows : f[r] = r.amount /\ f[r] \in Int
  BY DEF Money, Amounts
<1>2. Amount(rows) = SumOf(On(f, rows))
  BY AmountOfPart
<1> HIDE DEF f
<1>3. minus \in Int /\ \A r \in rows : f[r] \in Int /\ owed[r] = minus * f[r]
  BY <1>1
<1>4. \A r \in rows : owed[r] \in Nat
  BY <1>1
<1> HIDE DEF owed, minus
<1>5. SumOf(On(owed, rows)) = minus * SumOf(On(f, rows)) /\ SumOf(On(f, rows)) \in Int
  BY <1>1, <1>3, SumScaled
<1>6. SumOf(On(owed, rows)) \in Nat
  BY <1>1, <1>4, SumNotNegative
<1> QED
  BY <1>2, <1>5, <1>6 DEF minus

\* What is unattributed of a table is the rows that count and name no team.
LEMMA UnownedRows ==
    ASSUME NEW rows
    PROVE  Unowned(rows, Period) =
            {r \in Selected(rows, Period, NoFilters) : r.owner["team"] = Unattributed}
<1> DEFINE filter == FilterOn("team", {Unattributed})
<1>1. /\ NoFilters.parents = FALSE
      /\ \A d \in DOMAIN NoFilters.only : NoFilters.only[d] = {}
  BY DEF NoFilters
<1>2. /\ filter.parents = FALSE /\ "team" \in DOMAIN filter.only
      /\ filter.only["team"] = {Unattributed}
      /\ \A d \in DOMAIN filter.only : d # "team" => filter.only[d] = {}
  BY DEF FilterOn, NoFilters, OwnerDimensions
<1> HIDE DEF filter
<1>3. ASSUME NEW r
      PROVE  Conditions(r, Period, filter) <=>
                Conditions(r, Period, NoFilters) /\ r.owner["team"] = Unattributed
  <2>1. Conditions(r, Period, NoFilters) <=> InPeriod(r, Period) /\ ~r.allocated
    BY <1>1 DEF Conditions
  <2>2. Value(r, "team") = r.owner["team"]
    BY DEF Value
  <2>3. (\A d \in DOMAIN filter.only : filter.only[d] # {} => Value(r, d) \in filter.only[d])
            <=> r.owner["team"] = Unattributed
    BY <1>2, <2>2
  <2>4. Conditions(r, Period, filter) <=>
            /\ InPeriod(r, Period) /\ ~r.allocated
            /\ \A d \in DOMAIN filter.only : filter.only[d] # {} => Value(r, d) \in filter.only[d]
    BY <1>2 DEF Conditions
  <2> QED
    BY <2>1, <2>3, <2>4
<1> QED
  BY <1>3 DEF Unowned, Selected, filter

\* The total is what teams own and what nobody does, and neither is negative
\* without credits.
LEMMA TotalIsBoth ==
    ASSUME NEW rows, Whole(rows), Balanced(rows)
    PROVE  /\ Money(Unowned(rows, Period)) /\ Amount(Unowned(rows, Period)) \in Int
           /\ Amount(Owned(rows)) \in Int
           /\ TotalSpend(rows, Period, NoFilters)
                = Amount(Unowned(rows, Period)) + Amount(Owned(rows))
           /\ (\A r \in rows : r.amount >= 0) =>
                Amount(Unowned(rows, Period)) >= 0 /\ Amount(Owned(rows)) >= 0
<1> DEFINE hit == Selected(rows, Period, NoFilters)
           part == Unowned(rows, Period)
           rest == hit \ part
<1>1. hit \in SUBSET rows /\ part \in SUBSET hit
  BY UnownedRows DEF Selected
<1>2. Owned(rows) = rest /\ TotalSpend(rows, Period, NoFilters) = Amount(hit)
  BY DEF Owned, TotalSpend
<1> HIDE DEF hit, part
<1>3. Money(hit) /\ Money(part) /\ Money(rest)
  <2>1. Money(hit)
    BY <1>1, AmountOfPart DEF Balanced
  <2>2. rest \in SUBSET hit
    OBVIOUS
  <2> HIDE DEF rest
  <2> QED
    BY <1>1, <2>1, <2>2, AmountOfPart
<1>4. Amount(hit) = Amount(part) + Amount(rest) /\ Amount(part) \in Int /\ Amount(rest) \in Int
  BY <1>1, <1>3, AmountSplit
<1>5. ASSUME \A r \in rows : r.amount >= 0
      PROVE  Amount(part) >= 0 /\ Amount(rest) >= 0
  <2>1. (\A r \in part : r.amount >= 0) /\ (\A r \in rest : r.amount >= 0)
    BY <1>1, <1>5
  <2> HIDE DEF rest
  <2>2. Amount(part) \in Nat /\ Amount(rest) \in Nat
    BY <1>3, <2>1, AmountSign
  <2> QED
    BY <2>2
<1> QED
  BY <1>2, <1>3, <1>4, <1>5 DEF part

\* A record leaves the table only to be replaced by its parts, which a credit has not.
LEMMA ReplacedCosts ==
    ASSUME AllocationInv, SpendInv, [Next]_vars, NEW r \in ledger, r \notin ledger'
    PROVE  r.amount \in Nat
<1>1. PICK p \in Passes : Commit(p)
  <2>1. ~UNCHANGED vars /\ ~Ingest
    BY DEF vars, Ingest
  <2>2. PICK p \in Passes : Pass(p)
    BY <2>1 DEF Next
  <2> QED
    BY <2>2 DEF Pass, Begin, Split, SplitRaises, Flush, Conflict, Fails
<1>2. ledger' = Kept(p) \cup sent[p]
  BY <1>1, KeptIsWhole DEF Commit
<1>3. ~IsChild(r) /\ r \notin Kept(p)
  <2>1. r \notin Kept(p)
    BY <1>2
  <2> QED
    BY <2>1 DEF Kept
<1>4. PICK x \in sent[p] : ~IsChild(x) /\ Origin(x) = Origin(r)
  BY <1>3, KeptIsWhole
<1>5. x.amount \in Nat
  BY <1>4 DEF AllocationInv, PassOK, SpendInv, Balanced
<1>6. Origin(r) \in Ingestible
  BY <1>3, WholeKeys DEF AllocationInv
<1>7. Origin(r) = [c \in Columns |-> Origin(r)[c]]
  BY <1>6, IngestibleFact
<1>8. Origin(r).amount = r.amount
  BY <1>7 DEF Origin, Columns
<1>9. Origin(x).amount = x.amount
  BY <1>4, <1>7 DEF Origin, Columns
<1> QED
  BY <1>4, <1>5, <1>8, <1>9

\* Unattributed spend grows by no more than what arrives.
LEMMA UnownedMoves ==
    ASSUME AllocationInv, SpendInv, AllocationInv', SpendInv', [Next]_vars
    PROVE  LET now == Unowned(ledger, Period)
               next == Unowned(ledger', Period)
               new == {r \in next \ now : r.amount > 0}
           IN Amount(new) \in Nat /\ Amount(next) <= Amount(now) + Amount(new)
<1> DEFINE now == Unowned(ledger, Period)
           next == Unowned(ledger', Period)
           new == {r \in next \ now : r.amount > 0}
           both == next \cap now
           in == next \ now
           out == now \ next
           poor == in \ new
<1>1. Money(now) /\ Money(next)
  BY TotalIsBoth DEF AllocationInv, SpendInv
<1>2. \A r \in out : r.amount \in Nat
  <2> SUFFICES ASSUME NEW r \in out PROVE r.amount \in Nat
    OBVIOUS
  <2>1. r \in ledger /\ r \notin ledger'
    BY DEF Unowned, Selected
  <2> QED
    BY <2>1, ReplacedCosts
<1> HIDE DEF now, next
<1>3. /\ Money(both) /\ Money(in) /\ Money(out)
      /\ Amount(next) = Amount(both) + Amount(in)
      /\ Amount(now) = Amount(both) + Amount(out)
      /\ Amount(both) \in Int /\ Amount(in) \in Int /\ Amount(out) \in Int
  <2>1. both \in SUBSET next /\ both \in SUBSET now /\ next \ both = in /\ now \ both = out
        /\ in \in SUBSET next /\ out \in SUBSET now
    OBVIOUS
  <2> HIDE DEF both, in, out
  <2>2. Money(both) /\ Money(in) /\ Money(out)
    BY <1>1, <2>1, AmountOfPart
  <2>3. Amount(next) = Amount(both) + Amount(in) /\ Amount(both) \in Int /\ Amount(in) \in Int
    BY <1>1, <2>1, AmountSplit
  <2>4. Amount(now) = Amount(both) + Amount(out) /\ Amount(out) \in Int
    BY <1>1, <2>1, AmountSplit
  <2> QED
    BY <2>2, <2>3, <2>4
<1>4. new \in SUBSET in /\ \A r \in new : r.amount > 0
  OBVIOUS
<1>5. \A r \in poor : r \in in /\ ~(r.amount > 0)
  OBVIOUS
<1> HIDE DEF both, in, out, new
<1>6. /\ Money(new) /\ Money(poor)
      /\ Amount(in) = Amount(new) + Amount(poor)
      /\ Amount(new) \in Int /\ Amount(poor) \in Int
  <2>1. poor \in SUBSET in
    OBVIOUS
  <2>2. Money(new) /\ Money(poor)
    BY <1>3, <1>4, <2>1, AmountOfPart
  <2> QED
    BY <1>3, <1>4, <2>2, AmountSplit
<1> HIDE DEF poor
<1>7. Amount(out) \in Nat
  <2>1. \A r \in out : r.amount >= 0
    BY <1>2
  <2> QED
    BY <1>3, <2>1, AmountSign
<1>8. Amount(new) \in Nat
  <2>1. \A r \in new : r.amount >= 0
    BY <1>4, <1>6 DEF Money
  <2> QED
    BY <1>6, <2>1, AmountSign
<1>9. Amount(poor) <= 0
  <2>1. \A r \in poor : r.amount <= 0
    BY <1>5, <1>6 DEF Money
  <2> QED
    BY <1>6, <2>1, AmountOfCredits
<1>10. Amount(new) \in Nat /\ Amount(next) <= Amount(now) + Amount(new)
  BY <1>3, <1>6, <1>7, <1>8, <1>9
<1> QED
  BY <1>10 DEF now, next, new, in

\* What the statements read so far say of the table, and of each other.
ReportInv ==
    /\ DOMAIN report = DOMAIN NoReport
    /\ report.total \in Int /\ report.unattributed \in Int /\ owned \in Int /\ arrived \in Nat
    /\ statement = "unattributed" =>
            Amount(Unowned(ledger, Period)) <= report.total - owned + arrived
    /\ statement \in {"sources", "models", "resources", "done"} =>
            report.unattributed <= report.total - owned + arrived
    /\ quiet /\ statement = "unattributed" =>
            Amount(Unowned(ledger, Period)) = report.total - owned
    /\ quiet /\ statement \in {"sources", "models", "resources", "done"} =>
            report.unattributed = report.total - owned
    /\ quiet /\ statement \in {"sources", "models", "resources"} =>
            report.unattributed = Amount(Unowned(ledger, Period))
    /\ quiet /\ statement \in {"models", "resources", "done"} =>
            Amount(report.by_source) = report.unattributed
    /\ quiet /\ statement \in {"resources", "done"} /\ Cardinality(report.models) < TopN =>
            Amount(report.models) = report.unattributed
    /\ quiet /\ statement = "done" /\ Cardinality(report.resources) < TopN =>
            Amount(report.resources) = report.unattributed
    /\ NoCredits /\ statement \in {"unattributed", "sources", "models", "resources", "done"} =>
            owned >= 0
    /\ NoCredits /\ statement \in {"sources", "models", "resources", "done"} =>
            report.unattributed >= 0

\* Slices the limit does not cut are all of what is unattributed.
LEMMA TopSlicesAddUp ==
    ASSUME NEW rows, Whole(rows), Balanced(rows), NEW column,
           NEW top \in TopSlices(rows, column, Period, TopN), Cardinality(top) < TopN
    PROVE  Amount(top) = Amount(Unowned(rows, Period))
<1> DEFINE slices == Slices(Unowned(rows, Period), column)
<1>1. IsFiniteSet(slices) /\ Amount(slices) = Amount(Unowned(rows, Period))
  BY TotalIsBoth, SlicesAddUp
<1>2. /\ top \in SUBSET slices
      /\ Cardinality(top) = IF Cardinality(slices) < TopN THEN Cardinality(slices) ELSE TopN
  BY DEF TopSlices
<1> HIDE DEF slices
<1>3. Cardinality(top) \in Nat /\ Cardinality(slices) \in Nat
  BY <1>1, <1>2, SubsetSizes, FS_CardinalityType
<1>4. Cardinality(top) = Cardinality(slices)
  <2> SUFFICES ASSUME Cardinality(top) = TopN PROVE FALSE
    BY <1>2
  <2> QED
    BY <1>3
<1>5. top = slices
  <2>1. slices \in SUBSET slices
    OBVIOUS
  <2>2. top # slices => Cardinality(top) < Cardinality(slices)
    BY <1>1, <1>2, <2>1, SubsetSizes
  <2> QED
    BY <1>3, <1>4, <2>2
<1> QED
  BY <1>1, <1>5

\* Each statement answers for the table as it is when it starts.
LEMMA ReadsKeepReport ==
    ASSUME AllocationInv, SpendInv, ReportInv,
           ReadTotal \/ ReadUnattributed \/ ReadBySource \/ ReadModels \/ ReadResources
    PROVE  ReportInv'
<1>1. Whole(ledger) /\ Balanced(ledger)
  BY DEF AllocationInv, SpendInv
<1>2. /\ Amount(Unowned(ledger, Period)) \in Int /\ Money(Unowned(ledger, Period))
      /\ Amount(Owned(ledger)) \in Int
      /\ TotalSpend(ledger, Period, NoFilters) = Amount(Unowned(ledger, Period)) + Amount(Owned(ledger))
      /\ NoCredits => Amount(Unowned(ledger, Period)) >= 0 /\ Amount(Owned(ledger)) >= 0
  BY <1>1, TotalIsBoth DEF NoCredits
<1>3. DOMAIN report = {"total", "unattributed", "by_source", "models", "resources"}
  BY DEF ReportInv, NoReport
<1> DEFINE owed == Amount(Unowned(ledger, Period))
<1>4. ASSUME NEW from, NEW to, NEW field \in DOMAIN report, NEW value, Read(from, to, field, value)
      PROVE  /\ statement = from /\ statement' = to
             /\ DOMAIN report' = DOMAIN NoReport
             /\ report'[field] = value
             /\ \A other \in DOMAIN report : other # field => report'[other] = report[other]
  BY <1>4 DEF Read, ReportInv
<1>5. /\ ledger' = ledger /\ arrived' = arrived /\ quiet' = quiet
      /\ ReadUnattributed \/ ReadBySource \/ ReadModels \/ ReadResources => owned' = owned
      /\ NoCredits' <=> NoCredits
  BY DEF ReadTotal, ReadUnattributed, ReadBySource, ReadModels, ReadResources, ReadTop, vars,
         history, NoCredits
<1>6. CASE ReadTotal
  <2> DEFINE rest == Amount(Owned(ledger))
  <2>1. /\ statement' = "unattributed" /\ DOMAIN report' = DOMAIN NoReport
        /\ report'.total = TotalSpend(ledger, Period, NoFilters)
        /\ report'.unattributed = report.unattributed
        /\ owned' = rest
    BY <1>3, <1>4, <1>6 DEF ReadTotal
  <2>2. owed \in Int /\ rest \in Int /\ report'.total = owed + rest /\ (NoCredits => rest >= 0)
    BY <1>2, <2>1
  <2> HIDE DEF owed, rest
  <2>3. owed <= report'.total - owned' + arrived /\ owed = report'.total - owned'
    BY <2>1, <2>2 DEF ReportInv
  <2> QED
    BY <1>5, <2>1, <2>2, <2>3 DEF ReportInv, owed
<1>7. CASE ReadUnattributed
  <2>1. /\ statement = "unattributed" /\ statement' = "sources"
        /\ DOMAIN report' = DOMAIN NoReport
        /\ report'.unattributed = owed /\ report'.total = report.total
        /\ owned' = owned
    BY <1>3, <1>4, <1>5, <1>7 DEF ReadUnattributed, Read
  <2>2. owed \in Int /\ (NoCredits => owed >= 0)
    BY <1>2
  <2> HIDE DEF owed
  <2> QED
    BY <1>5, <2>1, <2>2 DEF ReportInv, owed
<1>8. CASE ReadBySource
  <2>1. /\ statement = "sources" /\ statement' = "models"
        /\ DOMAIN report' = DOMAIN NoReport
        /\ report'.by_source = Slices(Unowned(ledger, Period), "source")
        /\ report'.unattributed = report.unattributed /\ report'.total = report.total
        /\ owned' = owned
    BY <1>3, <1>4, <1>5, <1>8 DEF ReadBySource
  <2>2. Amount(report'.by_source) = owed
    BY <1>2, <2>1, SlicesAddUp
  <2> HIDE DEF owed
  <2> QED
    BY <1>2, <1>5, <2>1, <2>2 DEF ReportInv, owed
<1>9. CASE ReadModels
  <2>1. PICK slices \in TopSlices(ledger, "model", Period, TopN) :
            Read("models", "resources", "models", slices)
    BY <1>9 DEF ReadModels, ReadTop
  <2>2. /\ statement = "models" /\ statement' = "resources"
        /\ DOMAIN report' = DOMAIN NoReport
        /\ report'.models = slices
        /\ report'.unattributed = report.unattributed /\ report'.total = report.total
        /\ owned' = owned
        /\ report'.by_source = report.by_source
    BY <1>3, <1>4, <1>5, <1>9, <2>1
  <2>3. Cardinality(report'.models) < TopN => Amount(report'.models) = owed
    BY <1>1, <2>1, <2>2, TopSlicesAddUp
  <2> HIDE DEF owed
  <2> QED
    BY <1>2, <1>5, <2>2, <2>3 DEF ReportInv, owed
<1>10. CASE ReadResources
  <2>1. PICK slices \in TopSlices(ledger, "project", Period, TopN) :
            Read("resources", "done", "resources", slices)
    BY <1>10 DEF ReadResources, ReadTop
  <2>2. /\ statement = "resources" /\ statement' = "done"
        /\ DOMAIN report' = DOMAIN NoReport
        /\ report'.resources = slices
        /\ report'.unattributed = report.unattributed /\ report'.total = report.total
        /\ owned' = owned
        /\ report'.by_source = report.by_source /\ report'.models = report.models
    BY <1>3, <1>4, <1>5, <1>10, <2>1
  <2>3. Cardinality(report'.resources) < TopN => Amount(report'.resources) = owed
    BY <1>1, <2>1, <2>2, TopSlicesAddUp
  <2> HIDE DEF owed
  <2> QED
    BY <1>2, <1>5, <2>2, <2>3 DEF ReportInv, owed
<1> QED
  BY <1>6, <1>7, <1>8, <1>9, <1>10

\* A credit stays in the table.
LEMMA CreditsStay ==
    ASSUME AllocationInv, SpendInv, [Next]_vars, NoCredits'
    PROVE  NoCredits
<1> SUFFICES ASSUME NEW r \in ledger PROVE r.amount >= 0
  BY DEF NoCredits
<1>1. CASE r \in ledger'
  BY <1>1 DEF NoCredits
<1>2. CASE r \notin ledger'
  BY <1>2, ReplacedCosts
<1> QED
  BY <1>1, <1>2

\* Others: what they commit is noted while the report is read.
LEMMA OthersKeepReport ==
    ASSUME AllocationInv, SpendInv, AllocationInv', SpendInv', ReportInv, Others
    PROVE  ReportInv'
<1> DEFINE owed == Amount(Unowned(ledger, Period))
           next == Amount(Unowned(ledger', Period))
           new == Amount({r \in Unowned(ledger', Period) \ Unowned(ledger, Period) : r.amount > 0})
<1>1. /\ statement' = statement /\ report' = report /\ owned' = owned
      /\ quiet' = (quiet /\ (Reading => ledger' = ledger))
      /\ arrived' = arrived + IF statement = "unattributed" THEN new ELSE 0
      /\ [Next]_vars
  BY DEF Others
<1>2. new \in Nat /\ next <= owed + new /\ owed \in Int /\ next \in Int
  <2>1. owed \in Int /\ next \in Int
    BY TotalIsBoth DEF AllocationInv, SpendInv
  <2> QED
    BY <1>1, <2>1, UnownedMoves
<1>3. NoCredits' => NoCredits
  BY <1>1, CreditsStay
<1>4. statement \in {"unattributed", "sources", "models", "resources"} => Reading
  BY DEF Reading
<1>5. quiet' => quiet /\ (Reading => next = owed)
  BY <1>1
<1> HIDE DEF owed, next, new
<1>6. arrived' \in Nat /\ arrived <= arrived'
  BY <1>1, <1>2 DEF ReportInv
<1>7. statement = "unattributed" => next <= report.total - owned + arrived'
  <2> SUFFICES ASSUME statement = "unattributed" PROVE next <= report.total - owned + arrived'
    OBVIOUS
  <2>1. arrived' = arrived + new /\ owed <= report.total - owned + arrived
    BY <1>1 DEF ReportInv, owed
  <2> QED
    BY <1>2, <2>1 DEF ReportInv
<1>8. statement \in {"sources", "models", "resources", "done"} =>
            report.unattributed <= report.total - owned + arrived'
  BY <1>6 DEF ReportInv
<1>9. /\ quiet' /\ statement = "unattributed" => next = report.total - owned
      /\ quiet' /\ statement \in {"sources", "models", "resources"} => report.unattributed = next
  BY <1>4, <1>5 DEF ReportInv, owed
<1> QED
  BY <1>1, <1>3, <1>5, <1>6, <1>7, <1>8, <1>9 DEF ReportInv, next

\* A report that is read while others commit is one picture unless somebody does, and
\* then its attributed part is short of what teams owned by no more than what arrived,
\* for any table and any limit, credits of any owner included.
THEOREM ReportsAreConsistent == ReportSpec => []ReportConsistent
<1>1. ReportInit => AllocationInv /\ SpendInv /\ ReportInv
  <2>1. ReportInit => ReportInv
    BY DEF ReportInit, ReportInv, NoReport
  <2> QED
    BY <2>1, AllocationInit, SpendInit DEF ReportInit
<1>2. AllocationInv /\ SpendInv /\ ReportInv /\ [ReportNext]_allVars
        => (AllocationInv /\ SpendInv /\ ReportInv)'
  <2> SUFFICES ASSUME AllocationInv, SpendInv, ReportInv, [ReportNext]_allVars
               PROVE  (AllocationInv /\ SpendInv /\ ReportInv)'
    OBVIOUS
  <2>1. [Next]_vars
    BY DEF ReportNext, ReadTotal, ReadUnattributed, ReadBySource, ReadModels, ReadResources,
           ReadTop, Respond, Others, allVars, vars
  <2>2. AllocationInv' /\ SpendInv'
    BY <2>1, AllocationStep, SpendStep
  <2>3. Respond => ReportInv'
    BY DEF Respond, ReportInv, NoReport
  <2>4. UNCHANGED allVars => ReportInv'
    BY DEF allVars, ReportInv, NoCredits
  <2> QED
    BY <2>2, <2>3, <2>4, ReadsKeepReport, OthersKeepReport DEF ReportNext
<1>3. ReportInv => ReportConsistent
  <2> SUFFICES ASSUME ReportInv, statement = "done" PROVE ReportConsistent
    BY DEF ReportConsistent
  <2>1. AttributedUsd >= owned - arrived /\ (quiet => AttributedUsd = owned)
    BY DEF ReportInv, AttributedUsd
  <2>2. quiet /\ NoCredits => ShareIsFraction
    BY DEF ReportInv, ShareIsFraction
  <2>3. quiet =>
            /\ Amount(report.by_source) = report.unattributed
            /\ \A column \in {report.models, report.resources} :
                Cardinality(column) < TopN => Amount(column) = report.unattributed
    BY DEF ReportInv
  <2> QED
    BY <2>1, <2>2, <2>3 DEF ReportConsistent
<1> QED
  BY <1>1, <1>2, <1>3, PTL DEF ReportSpec
=============================================================================
