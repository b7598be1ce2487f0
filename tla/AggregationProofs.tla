-------------------------- MODULE AggregationProofs --------------------------
(***************************************************************************)
(* Theorems about Aggregation: facts about sums over finite sets, and what  *)
(* they say of every grouping of every finite table.                        *)
(***************************************************************************)
EXTENDS Aggregation, FiniteSetTheorems, TLAPS

----------------------------------------------------------------------------
(* Induction.                                                               *)

\* A set that holds 0 and, with a number, the next one, holds them all.
LEMMA EveryNatural ==
    ASSUME NEW S, 0 \in S, \A n \in Nat : n \in S => n + 1 \in S
    PROVE  \A n \in Nat : n \in S
<1> DEFINE less == {ss \in Nat \X Nat : ss[1] < ss[2]}
           rest == {n \in Nat : n \notin S}
<1>1. IsWellFoundedOn(less, Nat)
  BY NatLessThanWellFounded DEF OpToRel
<1> SUFFICES ASSUME rest # {} PROVE FALSE
  OBVIOUS
<1>2. PICK x \in rest : \A y \in rest : ~(<<y, x>> \in less)
  <2>1. rest \subseteq Nat
    OBVIOUS
  <2> HIDE DEF less, rest
  <2> QED
    BY <1>1, <2>1, WFMin
<1>3. x \in Nat /\ x # 0 /\ x - 1 \in Nat
  OBVIOUS
<1>4. x - 1 \notin rest
  <2>1. <<x - 1, x>> \in less
    BY <1>3
  <2> QED
    BY <1>2, <2>1
<1> QED
  BY <1>3, <1>4

\* Counting the elements of the subsets of a finite set.
LEMMA SubsetSizes ==
    ASSUME NEW S, IsFiniteSet(S), NEW T \in SUBSET S
    PROVE  /\ IsFiniteSet(T) /\ Cardinality(T) \in Nat
           /\ Cardinality(T) <= Cardinality(S)
           /\ T = {} <=> Cardinality(T) = 0
           /\ \A x \in T : /\ T \ {x} \in SUBSET S
                           /\ Cardinality(T \ {x}) = Cardinality(T) - 1
           /\ \A U \in SUBSET T : U # T => Cardinality(U) < Cardinality(T)
<1>1. IsFiniteSet(T) /\ Cardinality(T) \in Nat /\ Cardinality(T) <= Cardinality(S)
  BY FS_Subset, FS_CardinalityType
<1>2. T = {} <=> Cardinality(T) = 0
  BY <1>1, FS_EmptySet
<1>3. ASSUME NEW x \in T PROVE Cardinality(T \ {x}) = Cardinality(T) - 1
  BY <1>1, FS_RemoveElement
<1>4. ASSUME NEW U \in SUBSET T, U # T PROVE Cardinality(U) < Cardinality(T)
  <2>1. Cardinality(U) <= Cardinality(T) /\ (Cardinality(T) = Cardinality(U) => T = U)
    BY <1>1, FS_Subset
  <2>2. Cardinality(U) \in Nat
    BY <1>1, FS_Subset, FS_CardinalityType
  <2> QED
    BY <1>1, <1>4, <2>1, <2>2
<1> QED
  BY <1>1, <1>2, <1>3, <1>4

\* A family that has a subset of S whenever it has the smaller ones has them all.
LEMMA EverySubset ==
    ASSUME NEW S, IsFiniteSet(S), NEW F,
           \A T \in SUBSET S : (\A U \in SUBSET T : U # T => U \in F) => T \in F
    PROVE  \A T \in SUBSET S : T \in F
<1> DEFINE below(n) == \A T \in SUBSET S : Cardinality(T) < n => T \in F
           sizes == {n \in Nat : below(n)}
<1>1. 0 \in sizes
  BY SubsetSizes
<1>2. ASSUME NEW n \in Nat, n \in sizes PROVE n + 1 \in sizes
  <2>1. below(n)
    BY <1>2
  <2>2. ASSUME NEW T \in SUBSET S, Cardinality(T) < n + 1 PROVE T \in F
    <3>1. ASSUME NEW U \in SUBSET T, U # T PROVE U \in F
      <4>1. Cardinality(U) < Cardinality(T) /\ U \in SUBSET S
        BY <3>1, SubsetSizes
      <4>2. Cardinality(U) \in Nat /\ Cardinality(T) \in Nat
        BY <4>1, SubsetSizes
      <4>3. Cardinality(U) < n
        BY <2>2, <4>1, <4>2
      <4> QED
        BY <2>1, <4>1, <4>3
    <3> QED
      BY <3>1
  <2>3. below(n + 1)
    BY <2>2
  <2> QED
    BY <2>3
<1> HIDE DEF sizes
<1>3. \A n \in Nat : n \in sizes
  BY <1>1, <1>2, EveryNatural
<1> SUFFICES ASSUME NEW T \in SUBSET S PROVE T \in F
  OBVIOUS
<1>4. Cardinality(T) \in Nat
  BY SubsetSizes
<1>5. Cardinality(T) + 1 \in sizes
  BY <1>3, <1>4
<1>6. below(Cardinality(T) + 1)
  BY <1>5 DEF sizes
<1> QED
  BY <1>4, <1>6

----------------------------------------------------------------------------
(* The fold that SumOf is.                                                  *)

Pick(s) == CHOOSE x \in s : TRUE

\* g adds f up over the sets of the family D.
Adds(g, f, D) ==
    g = [s \in D |-> IF s = {} THEN 0 ELSE f[Pick(s)] + g[s \ {Pick(s)}]]

\* g adds f up over the subsets of S.
AddsUp(g, f, S) == Adds(g, f, SUBSET S)

\* A function that adds f up over the subsets of a finite set exists.
LEMMA AddsExists ==
    ASSUME NEW S, IsFiniteSet(S), NEW f
    PROVE  \E g : AddsUp(g, f, S)
<1> DEFINE small(n) == {s \in SUBSET S : Cardinality(s) <= n}
           sizes == {n \in Nat : \E g : Adds(g, f, small(n))}
<1>1. \A T : T # {} => Pick(T) \in T
  BY DEF Pick
<1>2. 0 \in sizes
  <2> DEFINE g == [s \in {{}} |-> 0]
  <2>1. small(0) = {{}}
    BY SubsetSizes
  <2>2. Adds(g, f, small(0))
    BY <2>1 DEF Adds
  <2> QED
    BY <2>2
<1>3. ASSUME NEW n \in Nat, n \in sizes
      PROVE  n + 1 \in sizes
  <2>1. PICK g : Adds(g, f, small(n))
    BY <1>3
  <2> DEFINE h == [s \in small(n + 1) |-> IF s = {} THEN 0 ELSE f[Pick(s)] + g[s \ {Pick(s)}]]
  <2>2. small(n) \subseteq small(n + 1)
    BY SubsetSizes
  <2>3. \A s \in small(n) : h[s] = g[s]
    BY <2>1, <2>2 DEF Adds
  <2>4. ASSUME NEW s \in small(n + 1), s # {} PROVE s \ {Pick(s)} \in small(n)
    <3>1. /\ s \ {Pick(s)} \in SUBSET S
          /\ Cardinality(s \ {Pick(s)}) = Cardinality(s) - 1 /\ Cardinality(s) \in Nat
      BY <1>1, <2>4, SubsetSizes
    <3> QED
      BY <2>4, <3>1
  <2>5. h = [s \in small(n + 1) |-> IF s = {} THEN 0 ELSE f[Pick(s)] + h[s \ {Pick(s)}]]
    <3> HIDE DEF small
    <3> QED
      BY <2>3, <2>4
  <2> HIDE DEF h, small
  <2>6. Adds(h, f, small(n + 1))
    BY <2>5 DEF Adds
  <2> QED
    BY <2>6
<1> HIDE DEF sizes
<1>4. \A n \in Nat : n \in sizes
  BY <1>2, <1>3, EveryNatural
<1>5. Cardinality(S) \in sizes
  BY <1>4, FS_CardinalityType
<1>6. small(Cardinality(S)) = SUBSET S
  BY SubsetSizes
<1> QED
  BY <1>5, <1>6 DEF sizes, AddsUp

\* A function that adds f up may take any element first.
LEMMA AddsAnyOrder ==
    ASSUME NEW S, IsFiniteSet(S), NEW f, \A x \in S : f[x] \in Int,
           NEW g, AddsUp(g, f, S)
    PROVE  \A T \in SUBSET S :
                /\ g[T] \in Int
                /\ \A x \in T : g[T] = f[x] + g[T \ {x}]
<1> DEFINE good(T) == g[T] \in Int /\ \A x \in T : g[T] = f[x] + g[T \ {x}]
           family == {T \in SUBSET S : good(T)}
<1>1. \A T : T # {} => Pick(T) \in T
  BY DEF Pick
<1>2. g[{}] = 0 /\ \A T \in SUBSET S : T # {} => g[T] = f[Pick(T)] + g[T \ {Pick(T)}]
  BY DEF AddsUp, Adds
<1>3. ASSUME NEW T \in SUBSET S, \A U \in SUBSET T : U # T => good(U)
      PROVE  good(T)
  <2>1. CASE T = {}
    BY <1>2, <2>1
  <2>2. CASE T # {}
    <3> DEFINE p == Pick(T)
    <3>1. p \in T /\ g[T] = f[p] + g[T \ {p}]
      BY <1>1, <1>2, <2>2
    <3> HIDE DEF p
    <3>2. g[T \ {p}] \in Int
      BY <1>3, <3>1
    <3>3. g[T] \in Int
      BY <3>1, <3>2
    <3>4. ASSUME NEW x \in T, x # p PROVE g[T] = f[x] + g[T \ {x}]
      <4> DEFINE a == g[T \ {p}]  b == g[T \ {x}]  c == g[T \ {p, x}]
      <4>1. f[x] \in Int /\ f[p] \in Int
        BY <3>1
      <4>2. good(T \ {p}) /\ good(T \ {x}) /\ good(T \ {p, x})
        BY <1>3, <3>1
      <4>3. (T \ {p}) \ {x} = T \ {p, x} /\ (T \ {x}) \ {p} = T \ {p, x}
        OBVIOUS
      <4>4. a = f[x] + c
        BY <3>4, <4>2, <4>3
      <4>5. b = f[p] + c
        BY <3>1, <3>4, <4>2, <4>3
      <4>6. c \in Int
        BY <4>2
      <4> HIDE DEF b, c
      <4>7. g[T] = f[p] + a
        BY <3>1
      <4> HIDE DEF a
      <4>8. f[p] + a = f[x] + b
        BY <4>1, <4>4, <4>5, <4>6
      <4> QED
        BY <4>7, <4>8 DEF b
    <3> QED
      BY <3>1, <3>3, <3>4
  <2> QED
    BY <2>1, <2>2
<1> HIDE DEF good
<1>4. \A T \in SUBSET S : (\A U \in SUBSET T : U # T => U \in family) => T \in family
  BY <1>3
<1> HIDE DEF family
<1>5. \A T \in SUBSET S : T \in family
  BY <1>4, EverySubset
<1> QED
  BY <1>5 DEF family, good

\* SumOf is what any function that adds f up says of its domain.
LEMMA SumOfAdds ==
    ASSUME NEW f
    PROVE  SumOf(f) = (CHOOSE g : AddsUp(g, f, DOMAIN f))[DOMAIN f]
BY DEF SumOf, MapThenSumSet, MapThenFoldSet, AddsUp, Adds, Pick

\* Functions that add up what is the same on T agree on T.
LEMMA AddsAgree ==
    ASSUME NEW T, IsFiniteSet(T), NEW S, T \subseteq S, NEW R, T \subseteq R,
           NEW f, NEW e, \A x \in T : f[x] = e[x],
           NEW g, AddsUp(g, f, S), NEW h, AddsUp(h, e, R)
    PROVE  g[T] = h[T]
<1> DEFINE family == {U \in SUBSET T : g[U] = h[U]}
<1>1. \A U : U # {} => Pick(U) \in U
  BY DEF Pick
<1>2. g[{}] = 0 /\ \A U \in SUBSET S : U # {} => g[U] = f[Pick(U)] + g[U \ {Pick(U)}]
  BY DEF AddsUp, Adds
<1>3. h[{}] = 0 /\ \A U \in SUBSET R : U # {} => h[U] = e[Pick(U)] + h[U \ {Pick(U)}]
  BY DEF AddsUp, Adds
<1>4. ASSUME NEW U \in SUBSET T, \A V \in SUBSET U : V # U => V \in family
      PROVE  U \in family
  <2>1. CASE U = {}
    BY <1>2, <1>3, <2>1
  <2>2. CASE U # {}
    <3>1. Pick(U) \in U /\ U \in SUBSET S /\ U \in SUBSET R
      BY <1>1, <2>2
    <3>2. g[U \ {Pick(U)}] = h[U \ {Pick(U)}]
      BY <1>4, <3>1
    <3> QED
      BY <1>2, <1>3, <2>2, <3>1, <3>2
  <2> QED
    BY <2>1, <2>2
<1> HIDE DEF family
<1>5. T \in family
  BY <1>4, EverySubset
<1> QED
  BY <1>5 DEF family

----------------------------------------------------------------------------
(* Sums.                                                                    *)

\* The part of f on a set.
On(f, S) == [x \in S |-> f[x]]

\* A sum of integers over a finite set is an integer, nothing adds up to 0, and a
\* sum is one of its terms and the rest, whichever term that is.
LEMMA SumStep ==
    ASSUME NEW f, IsFiniteSet(DOMAIN f), \A x \in DOMAIN f : f[x] \in Int
    PROVE  /\ SumOf(f) \in Int
           /\ DOMAIN f = {} => SumOf(f) = 0
           /\ \A x \in DOMAIN f : SumOf(f) = f[x] + SumOf(On(f, DOMAIN f \ {x}))
<1> DEFINE S == DOMAIN f
<1>1. PICK g : g = (CHOOSE h : AddsUp(h, f, S)) /\ AddsUp(g, f, S)
  BY AddsExists
<1>2. SumOf(f) = g[S]
  BY <1>1, SumOfAdds
<1> HIDE DEF S
<1>3. g[S] \in Int /\ \A x \in S : g[S] = f[x] + g[S \ {x}]
  <2>1. IsFiniteSet(S) /\ \A x \in S : f[x] \in Int
    BY DEF S
  <2>2. AddsUp(g, f, S)
    BY <1>1
  <2>3. \A T \in SUBSET S : g[T] \in Int /\ \A x \in T : g[T] = f[x] + g[T \ {x}]
    BY <2>1, <2>2, AddsAnyOrder
  <2> QED
    BY <2>3
<1>4. S = {} => g[S] = 0
  BY <1>1 DEF AddsUp, Adds
<1>5. ASSUME NEW x \in S PROVE SumOf(On(f, S \ {x})) = g[S \ {x}]
  <2> DEFINE T == S \ {x}
             e == On(f, T)
  <2>1. DOMAIN e = T /\ \A y \in T : f[y] = e[y]
    BY DEF On
  <2>2. IsFiniteSet(T) /\ T \subseteq S
    BY FS_RemoveElement DEF S
  <2>3. PICK h : h = (CHOOSE k : AddsUp(k, e, T)) /\ AddsUp(h, e, T)
    BY <2>2, AddsExists
  <2>4. SumOf(e) = h[T]
    BY <2>1, <2>3, SumOfAdds
  <2> HIDE DEF e, T
  <2>5. g[T] = h[T]
    <3>1. AddsUp(g, f, S) /\ AddsUp(h, e, T) /\ T \subseteq T
      BY <1>1, <2>3
    <3> QED
      BY <2>1, <2>2, <3>1, AddsAgree
  <2> QED
    BY <2>4, <2>5 DEF e, T
<1> QED
  BY <1>2, <1>3, <1>4, <1>5 DEF S

\* The same facts about the part of f on a finite set.
LEMMA SumOn ==
    ASSUME NEW S, IsFiniteSet(S), NEW f, \A x \in S : f[x] \in Int
    PROVE  /\ SumOf(On(f, S)) \in Int
           /\ S = {} => SumOf(On(f, S)) = 0
           /\ \A x \in S : SumOf(On(f, S)) = f[x] + SumOf(On(f, S \ {x}))
<1> DEFINE e == On(f, S)
<1>1. DOMAIN e = S /\ \A x \in S : e[x] = f[x]
  BY DEF On
<1>2. \A x \in S : On(e, S \ {x}) = On(f, S \ {x})
  BY DEF On
<1> HIDE DEF e
<1>3. /\ SumOf(e) \in Int
      /\ S = {} => SumOf(e) = 0
      /\ \A x \in S : SumOf(e) = e[x] + SumOf(On(e, S \ {x}))
  BY <1>1, SumStep
<1> QED
  BY <1>1, <1>2, <1>3 DEF e

\* A term more.
LEMMA SumAdd ==
    ASSUME NEW S, IsFiniteSet(S), NEW x, x \notin S,
           NEW f, \A y \in S : f[y] \in Int, f[x] \in Int
    PROVE  SumOf(On(f, S \cup {x})) = SumOf(On(f, S)) + f[x]
<1>1. /\ IsFiniteSet(S \cup {x}) /\ (S \cup {x}) \ {x} = S
      /\ \A y \in S \cup {x} : f[y] \in Int
  BY FS_AddElement
<1>2. SumOf(On(f, S \cup {x})) = f[x] + SumOf(On(f, (S \cup {x}) \ {x}))
  BY <1>1, SumOn
<1>3. SumOf(On(f, S)) \in Int /\ f[x] \in Int
  BY SumOn
<1> DEFINE a == SumOf(On(f, S))  b == SumOf(On(f, S \cup {x}))
<1>4. b = f[x] + a /\ a \in Int
  BY <1>1, <1>2, <1>3
<1> HIDE DEF a, b
<1>5. b = a + f[x]
  BY <1>3, <1>4
<1> QED
  BY <1>5 DEF a, b

\* Sums over sets that have nothing in common.
LEMMA SumUnion ==
    ASSUME NEW S, IsFiniteSet(S), NEW T, IsFiniteSet(T), S \cap T = {},
           NEW f, \A x \in S \cup T : f[x] \in Int
    PROVE  SumOf(On(f, S \cup T)) = SumOf(On(f, S)) + SumOf(On(f, T))
<1> DEFINE family == {U \in SUBSET T :
                        SumOf(On(f, S \cup U)) = SumOf(On(f, S)) + SumOf(On(f, U))}
<1>1. \A U \in SUBSET T : IsFiniteSet(U) /\ IsFiniteSet(S \cup U)
  BY FS_Subset, FS_Union
<1>2. SumOf(On(f, S)) \in Int
  BY SumOn
<1>3. ASSUME NEW U \in SUBSET T, \A V \in SUBSET U : V # U => V \in family
      PROVE  U \in family
  <2>1. CASE U = {}
    <3>1. SumOf(On(f, {})) = 0
      BY FS_EmptySet, SumOn
    <3>2. S \cup U = S /\ U = {}
      BY <2>1
    <3> QED
      BY <1>2, <3>1, <3>2
  <2>2. CASE U # {}
    <3>1. PICK x : x \in U
      BY <2>2
    <3> DEFINE V == U \ {x}
    <3>2. SumOf(On(f, S \cup V)) = SumOf(On(f, S)) + SumOf(On(f, V))
      BY <1>3, <3>1
    <3>3. V \cup {x} = U /\ (S \cup V) \cup {x} = S \cup U /\ x \notin V /\ x \notin S \cup V
      BY <3>1
    <3>4. V \in SUBSET T
      OBVIOUS
    <3>5. /\ IsFiniteSet(V) /\ IsFiniteSet(S \cup V) /\ f[x] \in Int
          /\ (\A y \in V : f[y] \in Int) /\ \A y \in S \cup V : f[y] \in Int
      BY <1>1, <3>1, <3>4
    <3> HIDE DEF V
    <3>6. SumOf(On(f, V \cup {x})) = SumOf(On(f, V)) + f[x]
      BY <3>3, <3>5, SumAdd
    <3>7. SumOf(On(f, (S \cup V) \cup {x})) = SumOf(On(f, S \cup V)) + f[x]
      BY <3>3, <3>5, SumAdd
    <3>8. SumOf(On(f, V)) \in Int /\ f[x] \in Int
      BY <3>1, <3>5, SumOn
    <3>9. SumOf(On(f, S \cup U)) = SumOf(On(f, S)) + SumOf(On(f, U))
      <4> DEFINE a == SumOf(On(f, S \cup U))  b == SumOf(On(f, S))  c == SumOf(On(f, U))
                 d == SumOf(On(f, V))  e == SumOf(On(f, S \cup V))
      <4>1. e = b + d
        BY <3>2
      <4>2. c = d + f[x] /\ a = e + f[x]
        BY <3>3, <3>6, <3>7
      <4>3. b \in Int /\ d \in Int /\ f[x] \in Int
        BY <1>2, <3>8
      <4> HIDE DEF a, b, c, d, e
      <4>4. a = b + c
        BY <4>1, <4>2, <4>3
      <4> QED
        BY <4>4 DEF a, b, c
    <3> QED
      BY <3>9
  <2> QED
    BY <2>1, <2>2
<1> HIDE DEF family
<1>4. T \in family
  BY <1>3, EverySubset
<1> QED
  BY <1>4 DEF family

\* A sum over a part of a set and over the rest.
LEMMA SumSplit ==
    ASSUME NEW S, IsFiniteSet(S), NEW T \in SUBSET S, NEW f, \A x \in S : f[x] \in Int
    PROVE  /\ SumOf(On(f, S)) = SumOf(On(f, T)) + SumOf(On(f, S \ T))
           /\ SumOf(On(f, S)) \in Int /\ SumOf(On(f, T)) \in Int
           /\ SumOf(On(f, S \ T)) \in Int
<1>1. IsFiniteSet(T) /\ IsFiniteSet(S \ T) /\ T \cap (S \ T) = {} /\ T \cup (S \ T) = S
  BY FS_Subset, FS_Difference
<1>2. SumOf(On(f, T \cup (S \ T))) = SumOf(On(f, T)) + SumOf(On(f, S \ T))
  BY <1>1, SumUnion
<1>3. /\ SumOf(On(f, S)) \in Int /\ SumOf(On(f, T)) \in Int
      /\ SumOf(On(f, S \ T)) \in Int
  BY <1>1, SumOn
<1> QED
  BY <1>1, <1>2, <1>3

\* What holds of no elements and of one element more holds of every subset.
LEMMA OneMore ==
    ASSUME NEW S, IsFiniteSet(S), NEW F, {} \in F,
           \A T \in SUBSET S : \A x \in S \ T : T \in F => T \cup {x} \in F
    PROVE  S \in F
<1>1. ASSUME NEW T \in SUBSET S, \A U \in SUBSET T : U # T => U \in F
      PROVE  T \in F
  <2>1. CASE T = {}
    BY <2>1
  <2>2. CASE T # {}
    <3>1. PICK x : x \in T
      BY <2>2
    <3> DEFINE U == T \ {x}
    <3>2. U \in F /\ U \in SUBSET S /\ x \in S \ U /\ U \cup {x} = T
      BY <1>1, <3>1
    <3> HIDE DEF U
    <3>3. U \cup {x} \in F
      BY <3>2
    <3> QED
      BY <3>2, <3>3
  <2> QED
    BY <2>1, <2>2
<1> QED
  BY <1>1, EverySubset

\* The terms of one sum and a multiple of those of another.
LEMMA SumLinear ==
    ASSUME NEW S, IsFiniteSet(S), NEW f, NEW e, NEW h, NEW c \in Int,
           \A x \in S : f[x] \in Int /\ e[x] \in Int /\ h[x] = c * f[x] + e[x]
    PROVE  SumOf(On(h, S)) = c * SumOf(On(f, S)) + SumOf(On(e, S))
<1> DEFINE holds(T) == SumOf(On(h, T)) = c * SumOf(On(f, T)) + SumOf(On(e, T))
           family == {T \in SUBSET S : holds(T)}
<1>1. \A x \in S : f[x] \in Int /\ e[x] \in Int /\ h[x] \in Int
  OBVIOUS
<1>2. holds({})
  <2>1. SumOf(On(h, {})) = 0 /\ SumOf(On(f, {})) = 0 /\ SumOf(On(e, {})) = 0
    BY FS_EmptySet, SumOn
  <2> QED
    BY <2>1
<1>3. ASSUME NEW T \in SUBSET S, NEW x \in S \ T, holds(T)
      PROVE  holds(T \cup {x})
  <2>1. /\ IsFiniteSet(T) /\ x \notin T
        /\ \A y \in T : f[y] \in Int /\ e[y] \in Int /\ h[y] \in Int
        /\ f[x] \in Int /\ e[x] \in Int /\ h[x] \in Int
    BY <1>1, FS_Subset
  <2>2. SumOf(On(h, T \cup {x})) = SumOf(On(h, T)) + h[x]
    BY <2>1, SumAdd
  <2>3. SumOf(On(f, T \cup {x})) = SumOf(On(f, T)) + f[x]
    BY <2>1, SumAdd
  <2>4. SumOf(On(e, T \cup {x})) = SumOf(On(e, T)) + e[x]
    BY <2>1, SumAdd
  <2>5. SumOf(On(f, T)) \in Int /\ SumOf(On(e, T)) \in Int
    BY <1>1, <2>1, SumOn
  <2> DEFINE a == SumOf(On(h, T))  a1 == SumOf(On(h, T \cup {x}))
             b == SumOf(On(f, T))  b1 == SumOf(On(f, T \cup {x}))
             d == SumOf(On(e, T))  d1 == SumOf(On(e, T \cup {x}))
  <2>6. a = c * b + d /\ a1 = a + h[x] /\ b1 = b + f[x] /\ d1 = d + e[x]
    BY <1>3, <2>2, <2>3, <2>4
  <2>7. b \in Int /\ d \in Int /\ f[x] \in Int /\ e[x] \in Int /\ h[x] = c * f[x] + e[x]
    BY <2>5
  <2> HIDE DEF a, a1, b, b1, d, d1
  <2>8. a1 = c * b1 + d1
    BY <2>6, <2>7
  <2> QED
    BY <2>8 DEF a1, b1, d1
<1> HIDE DEF holds
<1>4. {} \in family /\ \A T \in SUBSET S : \A x \in S \ T : T \in family => T \cup {x} \in family
  BY <1>2, <1>3
<1> HIDE DEF family
<1>5. S \in family
  BY <1>4, OneMore
<1> QED
  BY <1>5 DEF family, holds

\* A sum of what is not negative is not negative.
LEMMA SumNotNegative ==
    ASSUME NEW S, IsFiniteSet(S), NEW f, \A x \in S : f[x] \in Nat
    PROVE  SumOf(On(f, S)) \in Nat
<1> DEFINE family == {T \in SUBSET S : SumOf(On(f, T)) \in Nat}
<1>1. {} \in family
  BY FS_EmptySet, SumOn
<1>2. ASSUME NEW T \in SUBSET S, NEW x \in S \ T, SumOf(On(f, T)) \in Nat
      PROVE  SumOf(On(f, T \cup {x})) \in Nat
  <2>1. IsFiniteSet(T) /\ x \notin T /\ f[x] \in Int /\ \A y \in T : f[y] \in Int
    BY FS_Subset
  <2>2. SumOf(On(f, T \cup {x})) = SumOf(On(f, T)) + f[x]
    BY <2>1, SumAdd
  <2> QED
    BY <1>2, <2>2
<1>3. \A T \in SUBSET S : \A x \in S \ T : T \in family => T \cup {x} \in family
  BY <1>2
<1> HIDE DEF family
<1>4. S \in family
  BY <1>1, <1>3, OneMore
<1> QED
  BY <1>4 DEF family

\* A sum of larger terms is larger.
LEMMA SumMonotone ==
    ASSUME NEW S, IsFiniteSet(S), NEW f, NEW e,
           \A x \in S : f[x] \in Int /\ e[x] \in Int /\ f[x] <= e[x]
    PROVE  SumOf(On(f, S)) <= SumOf(On(e, S))
<1> DEFINE d == [x \in S |-> e[x] - f[x]]
<1>1. \A x \in S : d[x] \in Nat /\ f[x] \in Int /\ d[x] \in Int /\ e[x] = 1 * f[x] + d[x]
  OBVIOUS
<1> HIDE DEF d
<1>2. SumOf(On(e, S)) = 1 * SumOf(On(f, S)) + SumOf(On(d, S))
  BY <1>1, SumLinear
<1>3. SumOf(On(d, S)) \in Nat
  BY <1>1, SumNotNegative
<1>4. SumOf(On(f, S)) \in Int
  BY <1>1, SumOn
<1> DEFINE a == SumOf(On(e, S))  b == SumOf(On(f, S))  c == SumOf(On(d, S))
<1> HIDE DEF a, b, c
<1>5. a = 1 * b + c /\ c \in Nat /\ b \in Int
  BY <1>2, <1>3, <1>4 DEF a, b, c
<1>6. b <= a
  BY <1>5
<1> QED
  BY <1>6 DEF a, b

\* The elements of a set, counted one by one.
LEMMA SumOfOnes ==
    ASSUME NEW S, IsFiniteSet(S), NEW f, \A x \in S : f[x] = 1
    PROVE  SumOf(On(f, S)) = Cardinality(S)
<1> DEFINE family == {T \in SUBSET S : SumOf(On(f, T)) = Cardinality(T)}
<1>1. {} \in family
  BY FS_EmptySet, SumOn
<1>2. ASSUME NEW T \in SUBSET S, NEW x \in S \ T, SumOf(On(f, T)) = Cardinality(T)
      PROVE  SumOf(On(f, T \cup {x})) = Cardinality(T \cup {x})
  <2>1. IsFiniteSet(T) /\ x \notin T /\ f[x] \in Int /\ \A y \in T : f[y] \in Int
    BY FS_Subset
  <2>2. SumOf(On(f, T \cup {x})) = SumOf(On(f, T)) + f[x]
    BY <2>1, SumAdd
  <2>3. Cardinality(T \cup {x}) = Cardinality(T) + 1
    BY <2>1, FS_AddElement
  <2> QED
    BY <1>2, <2>2, <2>3
<1>3. \A T \in SUBSET S : \A x \in S \ T : T \in family => T \cup {x} \in family
  BY <1>2
<1> HIDE DEF family
<1>4. S \in family
  BY <1>1, <1>3, OneMore
<1> QED
  BY <1>4 DEF family

\* The values of h on a set, and the elements that have one of them.
Image(h, S) == {h[x] : x \in S}
Fibre(h, S, v) == {x \in S : h[x] = v}

\* The image of a finite set is finite.
LEMMA ImageIsFinite ==
    ASSUME NEW S, IsFiniteSet(S), NEW h
    PROVE  IsFiniteSet(Image(h, S))
<1> DEFINE T == Image(h, S)
           k == [x \in S |-> h[x]]
<1>1. k \in Surjection(S, T)
  BY DEF Surjection, Image
<1> QED
  BY <1>1, FS_Surjection

\* A sum over elements that are named by others, each by one.
LEMMA SumImage ==
    ASSUME NEW S, IsFiniteSet(S), NEW h, \A x, y \in S : h[x] = h[y] => x = y,
           NEW f, NEW e, \A x \in S : f[x] \in Int /\ e[h[x]] = f[x]
    PROVE  SumOf(On(e, Image(h, S))) = SumOf(On(f, S))
<1> DEFINE image(T) == Image(h, T)
           family == {T \in SUBSET S : SumOf(On(e, image(T))) = SumOf(On(f, T))}
<1>1. {} \in family
  <2>1. image({}) = {}
    BY DEF Image
  <2> QED
    BY <2>1, FS_EmptySet, SumOn
<1>2. ASSUME NEW T \in SUBSET S, NEW x \in S \ T, SumOf(On(e, image(T))) = SumOf(On(f, T))
      PROVE  SumOf(On(e, image(T \cup {x}))) = SumOf(On(f, T \cup {x}))
  <2>1. IsFiniteSet(T) /\ x \notin T /\ f[x] \in Int /\ \A y \in T : f[y] \in Int
    BY FS_Subset
  <2>2. SumOf(On(f, T \cup {x})) = SumOf(On(f, T)) + f[x]
    BY <2>1, SumAdd
  <2>3. image(T \cup {x}) = image(T) \cup {h[x]} /\ h[x] \notin image(T)
    BY DEF Image
  <2>4. IsFiniteSet(image(T)) /\ e[h[x]] \in Int /\ \A y \in image(T) : e[y] \in Int
    BY <2>1, ImageIsFinite DEF Image
  <2> HIDE DEF image
  <2>5. SumOf(On(e, image(T) \cup {h[x]})) = SumOf(On(e, image(T))) + e[h[x]]
    <3> DEFINE z == h[x]  I == image(T)
    <3>1. IsFiniteSet(I) /\ z \notin I /\ e[z] \in Int /\ \A y \in I : e[y] \in Int
      BY <2>3, <2>4
    <3> HIDE DEF z, I
    <3>2. SumOf(On(e, I \cup {z})) = SumOf(On(e, I)) + e[z]
      BY <3>1, SumAdd
    <3> QED
      BY <3>2 DEF z, I
  <2> QED
    BY <1>2, <2>2, <2>3, <2>5
<1>3. \A T \in SUBSET S : \A x \in S \ T : T \in family => T \cup {x} \in family
  BY <1>2
<1> HIDE DEF family
<1>4. S \in family
  BY <1>1, <1>3, OneMore
<1> QED
  BY <1>4 DEF family

\* What is grouped adds up: the sum of the groups' sums is the sum of everything.
LEMMA SumOfGroups ==
    ASSUME NEW S, IsFiniteSet(S), NEW f, \A x \in S : f[x] \in Int, NEW key,
           NEW part, \A v \in Image(key, S) : part[v] = SumOf(On(f, Fibre(key, S, v)))
    PROVE  /\ SumOf(On(part, Image(key, S))) = SumOf(On(f, S))
           /\ \A v \in Image(key, S) : part[v] \in Int
<1> DEFINE K == Image(key, S)
           with(V) == {x \in S : key[x] \in V}
           family == {V \in SUBSET K : SumOf(On(part, V)) = SumOf(On(f, with(V)))}
<1>1. IsFiniteSet(K)
  BY ImageIsFinite
<1>2. \A T \in SUBSET S : IsFiniteSet(T) /\ SumOf(On(f, T)) \in Int
  BY FS_Subset, SumOn
<1>3. \A v \in K : part[v] = SumOf(On(f, with({v})))
  <2>1. \A v \in K : with({v}) = Fibre(key, S, v)
    BY DEF Fibre
  <2> QED
    BY <2>1
<1>4. \A V : with(V) \in SUBSET S
  OBVIOUS
<1>5. \A v \in K : part[v] \in Int
  BY <1>2, <1>3, <1>4
<1>6. {} \in family
  <2>1. with({}) = {}
    OBVIOUS
  <2> QED
    BY <2>1, FS_EmptySet, SumOn
<1>7. ASSUME NEW V \in SUBSET K, NEW v \in K \ V, SumOf(On(part, V)) = SumOf(On(f, with(V)))
      PROVE  SumOf(On(part, V \cup {v})) = SumOf(On(f, with(V \cup {v})))
  <2>1. IsFiniteSet(V) /\ v \notin V /\ part[v] \in Int /\ \A y \in V : part[y] \in Int
    BY <1>1, <1>5, FS_Subset
  <2> HIDE DEF K
  <2>2. SumOf(On(part, V \cup {v})) = SumOf(On(part, V)) + part[v]
    BY <2>1, SumAdd
  <2>3. with(V \cup {v}) = with(V) \cup with({v}) /\ with(V) \cap with({v}) = {}
    BY <2>1
  <2>4. IsFiniteSet(with(V)) /\ IsFiniteSet(with({v})) /\ \A x \in with(V) \cup with({v}) : f[x] \in Int
    BY <1>2
  <2> HIDE DEF with
  <2>5. SumOf(On(f, with(V) \cup with({v}))) = SumOf(On(f, with(V))) + SumOf(On(f, with({v})))
    BY <2>3, <2>4, SumUnion
  <2> QED
    BY <1>3, <1>7, <2>2, <2>3, <2>5
<1>8. \A V \in SUBSET K : \A v \in K \ V : V \in family => V \cup {v} \in family
  BY <1>7
<1> HIDE DEF family, with
<1>9. K \in family
  BY <1>1, <1>6, <1>8, OneMore
<1>10. with(K) = S
  BY DEF with, Image
<1> QED
  BY <1>5, <1>9, <1>10 DEF family

----------------------------------------------------------------------------
(* Amounts of rows.                                                         *)

\* Finitely many rows, whose amounts are in units of the column's step.
Money(rows) == IsFiniteSet(rows) /\ \A r \in rows : r.amount \in Int

\* The amounts of a table's rows.
Amounts(rows) == [r \in rows |-> r.amount]

\* The amount of a part of a table.
LEMMA AmountOfPart ==
    ASSUME NEW rows, NEW part \in SUBSET rows
    PROVE  /\ Amount(part) = SumOf(On(Amounts(rows), part))
           /\ Money(rows) => Money(part)
<1>1. On(Amounts(rows), part) = [r \in part |-> r.amount]
  BY DEF On, Amounts
<1>2. Money(rows) => Money(part)
  BY FS_Subset DEF Money
<1> QED
  BY <1>1, <1>2 DEF Amount

\* The amount of a part and of the rest.
LEMMA AmountSplit ==
    ASSUME NEW rows, Money(rows), NEW part \in SUBSET rows
    PROVE  /\ Amount(rows) = Amount(part) + Amount(rows \ part)
           /\ Amount(rows) \in Int /\ Amount(part) \in Int /\ Amount(rows \ part) \in Int
<1> DEFINE f == Amounts(rows)
<1>1. IsFiniteSet(rows) /\ \A r \in rows : f[r] \in Int
  BY DEF Money, Amounts
<1>2. /\ Amount(rows) = SumOf(On(f, rows)) /\ Amount(part) = SumOf(On(f, part))
      /\ Amount(rows \ part) = SumOf(On(f, rows \ part))
  BY AmountOfPart
<1> HIDE DEF f
<1> QED
  BY <1>1, <1>2, SumSplit

\* The amount of rows that are none, and of rows that cost nothing or more.
LEMMA AmountSign ==
    ASSUME NEW rows, Money(rows)
    PROVE  /\ rows = {} => Amount(rows) = 0
           /\ (\A r \in rows : r.amount >= 0) => Amount(rows) \in Nat
<1> DEFINE f == Amounts(rows)
<1>1. IsFiniteSet(rows) /\ \A r \in rows : f[r] = r.amount /\ f[r] \in Int
  BY DEF Money, Amounts
<1>2. Amount(rows) = SumOf(On(f, rows))
  BY AmountOfPart
<1> HIDE DEF f
<1>3. rows = {} => Amount(rows) = 0
  BY <1>1, <1>2, SumOn
<1>4. (\A r \in rows : f[r] \in Nat) => Amount(rows) \in Nat
  BY <1>1, <1>2, SumNotNegative
<1> QED
  BY <1>1, <1>3, <1>4

\* The amount of two tables that share no row.
LEMMA AmountUnion ==
    ASSUME NEW A, Money(A), NEW B, Money(B), A \cap B = {}
    PROVE  /\ Money(A \cup B) /\ Amount(A \cup B) = Amount(A) + Amount(B)
           /\ Amount(A) \in Int /\ Amount(B) \in Int
<1>1. Money(A \cup B)
  BY FS_Union DEF Money
<1>2. A \in SUBSET (A \cup B) /\ (A \cup B) \ A = B
  OBVIOUS
<1> QED
  BY <1>1, <1>2, AmountSplit

\* Records that each name one group of rows and state its amount add up to all.
LEMMA NamedGroupsAddUp ==
    ASSUME NEW rows, Money(rows), NEW key,
           NEW h, \A v, u \in Image(key, rows) : h[v] = h[u] => v = u,
           NEW e, \A v \in Image(key, rows) : e[h[v]] = Amount(Fibre(key, rows, v))
    PROVE  SumOf(On(e, Image(h, Image(key, rows)))) = Amount(rows)
<1> DEFINE K == Image(key, rows)
           part == [v \in K |-> Amount(Fibre(key, rows, v))]
           f == Amounts(rows)
<1>1. IsFiniteSet(rows) /\ \A r \in rows : f[r] \in Int
  BY DEF Money, Amounts
<1>2. \A v \in K : part[v] = SumOf(On(f, Fibre(key, rows, v)))
  <2>1. \A v : Fibre(key, rows, v) \in SUBSET rows
    BY DEF Fibre
  <2> QED
    BY <2>1, AmountOfPart
<1>3. Amount(rows) = SumOf(On(f, rows))
  BY AmountOfPart
<1>4. \A v \in K : e[h[v]] = part[v]
  OBVIOUS
<1> HIDE DEF f, part
<1>5. SumOf(On(part, K)) = SumOf(On(f, rows)) /\ \A v \in K : part[v] \in Int
  BY <1>1, <1>2, SumOfGroups
<1>6. IsFiniteSet(K)
  BY <1>1, ImageIsFinite
<1> HIDE DEF K
<1>7. SumOf(On(e, Image(h, K))) = SumOf(On(part, K))
  <2>1. \A v, u \in K : h[v] = h[u] => v = u
    BY DEF K
  <2> QED
    BY <1>4, <1>5, <1>6, <2>1, SumImage
<1> QED
  BY <1>3, <1>5, <1>7 DEF K

----------------------------------------------------------------------------
(* What the aggregation answers.                                            *)

\* A group's sources add up to its total, and its counts to its number of rows.
LEMMA CostGroupAddsUp ==
    ASSUME NEW k, NEW rows, Money(rows)
    PROVE  LET g == CostGroup(k, rows)
           IN /\ g.key = k /\ g.total = Amount(rows) /\ g.total \in Int
              /\ SumOf(g.by_source) = g.total
              /\ g.count = Cardinality(rows)
<1> DEFINE key == [r \in rows |-> r.source]
           K == Image(key, rows)
           bySource == [s \in SourcesIn(rows) |-> Amount(FromSource(rows, s))]
           counts == [s \in SourcesIn(rows) |-> Cardinality(FromSource(rows, s))]
           f == Amounts(rows)
           ones == [r \in rows |-> 1]
<1>1. K = SourcesIn(rows) /\ \A s : FromSource(rows, s) = Fibre(key, rows, s)
  BY DEF SourcesIn, FromSource, Image, Fibre
<1>2. IsFiniteSet(rows) /\ \A r \in rows : f[r] \in Int /\ ones[r] = 1 /\ ones[r] \in Int
  BY DEF Money, Amounts
<1>3. \A s \in K : bySource[s] = SumOf(On(f, Fibre(key, rows, s)))
  <2>1. \A s : Fibre(key, rows, s) \in SUBSET rows
    BY DEF Fibre
  <2> QED
    BY <1>1, <2>1, AmountOfPart
<1>4. \A s \in K : counts[s] = SumOf(On(ones, Fibre(key, rows, s)))
  <2> SUFFICES ASSUME NEW s \in K
               PROVE  Cardinality(FromSource(rows, s)) = SumOf(On(ones, FromSource(rows, s)))
    BY <1>1
  <2>1. IsFiniteSet(FromSource(rows, s)) /\ \A r \in FromSource(rows, s) : ones[r] = 1
    BY <1>2, FS_Subset DEF FromSource
  <2> QED
    BY <2>1, SumOfOnes
<1>5. On(bySource, K) = bySource /\ On(counts, K) = counts
  BY <1>1 DEF On
<1>6. CostGroup(k, rows) =
        [key |-> k, total |-> SumOf(bySource), by_source |-> bySource, count |-> SumOf(counts)]
  BY DEF CostGroup
<1> HIDE DEF bySource, counts, f, ones, key
<1>7. SumOf(On(bySource, K)) = SumOf(On(f, rows))
  BY <1>2, <1>3, SumOfGroups
<1>8. SumOf(On(counts, K)) = SumOf(On(ones, rows))
  BY <1>2, <1>4, SumOfGroups
<1>9. SumOf(On(ones, rows)) = Cardinality(rows)
  BY <1>2, SumOfOnes
<1>10. SumOf(On(f, rows)) = Amount(rows) /\ SumOf(On(f, rows)) \in Int
  BY <1>2, AmountOfPart, SumOn DEF f
<1> QED
  BY <1>5, <1>6, <1>7, <1>8, <1>9, <1>10

\* Grouping loses nothing and counts nothing twice: the groups, and each group's
\* sources, add up to the total spend of the same window and filters, the counts
\* to the number of records, and a key has one group, of exactly its records.
THEOREM GroupsAddUp ==
    ASSUME NEW rows, Money(rows), NEW groupBy, NEW period, NEW filters
    PROVE  LET hit == Selected(rows, period, filters)
               groups == AggregateCosts(rows, groupBy, period, filters)
           IN /\ SumOf([g \in groups |-> g.total]) = TotalSpend(rows, period, filters)
              /\ SumOf([g \in groups |-> g.count]) = Cardinality(hit)
              /\ {g.key : g \in groups} = KeysIn(hit, groupBy)
              /\ IsFiniteSet(groups)
              /\ \A g \in groups :
                    /\ g.total = Amount(InGroup(hit, groupBy, g.key)) /\ g.total \in Int
                    /\ SumOf(g.by_source) = g.total
                    /\ \A o \in groups : o.key = g.key => o = g
<1> DEFINE hit == Selected(rows, period, filters)
           groups == AggregateCosts(rows, groupBy, period, filters)
           key == [r \in hit |-> KeyOf(r, groupBy)]
           K == Image(key, hit)
           h == [k \in K |-> CostGroup(k, InGroup(hit, groupBy, k))]
           totals == [g \in groups |-> g.total]
           counts == [g \in groups |-> g.count]
           ones == [r \in hit |-> 1]
           sizes == [k \in K |-> Cardinality(InGroup(hit, groupBy, k))]
<1>1. Money(hit) /\ \A k : InGroup(hit, groupBy, k) \in SUBSET hit
                         /\ Money(InGroup(hit, groupBy, k))
  BY AmountOfPart DEF Selected, InGroup
<1> HIDE DEF hit
<1>2. K = KeysIn(hit, groupBy)
  BY DEF KeysIn, Image
<1>3. \A k : InGroup(hit, groupBy, k) = Fibre(key, hit, k)
  BY DEF InGroup, Fibre
<1>4. groups = Image(h, K)
  BY <1>2 DEF AggregateCosts, hit, Image
<1>5. ASSUME NEW k \in K
      PROVE  /\ h[k].key = k
             /\ h[k].total = Amount(InGroup(hit, groupBy, k)) /\ h[k].total \in Int
             /\ SumOf(h[k].by_source) = h[k].total
             /\ h[k].count = Cardinality(InGroup(hit, groupBy, k))
  BY <1>1, CostGroupAddsUp
<1> HIDE DEF h
<1>6. \A v, u \in K : h[v] = h[u] => v = u
  BY <1>5
<1>7. /\ \A k \in K : totals[h[k]] = Amount(Fibre(key, hit, k))
      /\ \A k \in K : counts[h[k]] = sizes[k]
  BY <1>3, <1>4, <1>5 DEF Image
<1>8. On(totals, groups) = totals /\ On(counts, groups) = counts
  BY DEF On
<1>9. IsFiniteSet(hit) /\ IsFiniteSet(K)
  BY <1>1, ImageIsFinite DEF Money
<1>10. \A r \in hit : ones[r] = 1 /\ ones[r] \in Int
  OBVIOUS
<1>11. \A k \in K : sizes[k] = SumOf(On(ones, Fibre(key, hit, k)))
  <2> SUFFICES ASSUME NEW k \in K
               PROVE  Cardinality(InGroup(hit, groupBy, k))
                        = SumOf(On(ones, InGroup(hit, groupBy, k)))
    BY <1>3
  <2>1. IsFiniteSet(InGroup(hit, groupBy, k)) /\ \A r \in InGroup(hit, groupBy, k) : ones[r] = 1
    BY <1>1, <1>10 DEF Money
  <2> QED
    BY <2>1, SumOfOnes
<1> HIDE DEF totals, counts, ones, sizes, key
<1>12. SumOf(On(totals, Image(h, K))) = Amount(hit)
  BY <1>1, <1>6, <1>7, NamedGroupsAddUp
<1>13. SumOf(On(sizes, K)) = SumOf(On(ones, hit)) /\ \A k \in K : sizes[k] \in Int
  BY <1>9, <1>10, <1>11, SumOfGroups
<1>14. SumOf(On(ones, hit)) = Cardinality(hit)
  BY <1>9, <1>10, SumOfOnes
<1> HIDE DEF K
<1>15. SumOf(On(counts, Image(h, K))) = SumOf(On(sizes, K))
  BY <1>6, <1>7, <1>9, <1>13, SumImage
<1>16. IsFiniteSet(groups)
  BY <1>4, <1>9, ImageIsFinite
<1>17. SumOf(totals) = TotalSpend(rows, period, filters) /\ SumOf(counts) = Cardinality(hit)
  BY <1>4, <1>8, <1>12, <1>13, <1>14, <1>15 DEF TotalSpend, hit
<1>18. {g.key : g \in groups} = K
  BY <1>4, <1>5 DEF Image
<1>19. \A g \in groups :
            /\ g.total = Amount(InGroup(hit, groupBy, g.key)) /\ g.total \in Int
            /\ SumOf(g.by_source) = g.total
            /\ \A o \in groups : o.key = g.key => o = g
  BY <1>4, <1>5 DEF Image
<1> QED
  BY <1>2, <1>16, <1>17, <1>18, <1>19 DEF totals, counts, hit

\* The points of a series add up to the total spend of its window, and a bucket
\* has one point for a key.
THEOREM PointsAddUp ==
    ASSUME NEW rows, Money(rows), NEW groupBy, NEW period, NEW width, NEW filters
    PROVE  LET points == AggregateTimeseries(rows, groupBy, period, width, filters)
           IN /\ Amount(points) = TotalSpend(rows, period, filters)
              /\ \A p, o \in points : p.bucket = o.bucket /\ p.key = o.key => p = o
              /\ \A p \in points : \E r \in Selected(rows, period, filters) :
                    p.bucket = Bucket(r, width) /\ p.key = KeyOf(r, groupBy)
<1> DEFINE hit == Selected(rows, period, filters)
           points == AggregateTimeseries(rows, groupBy, period, width, filters)
           key == [r \in hit |-> <<Bucket(r, width), KeyOf(r, groupBy)>>]
           K == Image(key, hit)
           h == [p \in K |-> [bucket |-> p[1], key |-> p[2],
                              amount |-> Amount(InPoint(hit, groupBy, width, p))]]
           e == [p \in points |-> p.amount]
<1>1. Money(hit)
  BY AmountOfPart DEF Selected
<1> HIDE DEF hit
<1>2. points = Image(h, K)
  <2>1. K = {<<Bucket(r, width), KeyOf(r, groupBy)>> : r \in hit}
    BY DEF Image
  <2> HIDE DEF K
  <2> QED
    BY <2>1 DEF AggregateTimeseries, hit, Image
<1>3. \A p \in K : InPoint(hit, groupBy, width, p) = Fibre(key, hit, p)
  BY DEF InPoint, Image, Fibre
<1>4. \A p \in K : p = <<p[1], p[2]>> /\ \E r \in hit : p = <<Bucket(r, width), KeyOf(r, groupBy)>>
  BY DEF Image
<1> HIDE DEF K
<1>5. \A p \in K : /\ h[p].bucket = p[1] /\ h[p].key = p[2]
                   /\ h[p].amount = Amount(Fibre(key, hit, p))
  BY <1>3
<1> HIDE DEF h
<1>6. ASSUME NEW v \in K, NEW u \in K, h[v].bucket = h[u].bucket, h[v].key = h[u].key
      PROVE  v = u
  <2>1. v[1] = u[1] /\ v[2] = u[2]
    BY <1>5, <1>6
  <2> QED
    BY <1>4, <2>1
<1>7. \A p \in K : e[h[p]] = Amount(Fibre(key, hit, p))
  BY <1>2, <1>5 DEF Image
<1>8. Amount(points) = SumOf(On(e, points))
  <2>1. On(e, points) = e
    BY DEF On
  <2> QED
    BY <2>1 DEF Amount
<1> HIDE DEF e, points
<1>9. SumOf(On(e, Image(h, K))) = Amount(hit)
  <2>1. \A v, u \in K : h[v] = h[u] => v = u
    BY <1>6
  <2> HIDE DEF key
  <2> QED
    BY <1>1, <1>7, <2>1, NamedGroupsAddUp DEF K
<1>10. \A p, o \in points : p.bucket = o.bucket /\ p.key = o.key => p = o
  BY <1>2, <1>6 DEF Image
<1>11. ASSUME NEW p \in points
       PROVE  \E r \in hit : p.bucket = Bucket(r, width) /\ p.key = KeyOf(r, groupBy)
  <2>1. PICK v \in K : p = h[v]
    BY <1>2 DEF Image
  <2>2. PICK r \in hit : v = <<Bucket(r, width), KeyOf(r, groupBy)>>
    BY <1>4
  <2>3. v[1] = Bucket(r, width) /\ v[2] = KeyOf(r, groupBy)
    BY <2>2
  <2> QED
    BY <1>5, <2>1, <2>3
<1> QED
  BY <1>2, <1>8, <1>9, <1>10, <1>11 DEF TotalSpend, hit, points

\* The lines of a column add up to the rows they are made of, and a value has one.
LEMMA SlicesAddUp ==
    ASSUME NEW rows, Money(rows), NEW column
    PROVE  /\ Amount(Slices(rows, column)) = Amount(rows)
           /\ IsFiniteSet(Slices(rows, column))
<1> DEFINE key == [r \in rows |-> Value(r, column)]
           K == Image(key, rows)
           h == [v \in K |-> [label |-> v, amount |-> Amount({r \in rows : Value(r, column) = v})]]
           slices == Slices(rows, column)
           e == [s \in slices |-> s.amount]
<1>1. slices = Image(h, K)
  <2>1. K = {Value(r, column) : r \in rows}
    BY DEF Image
  <2> HIDE DEF K
  <2> QED
    BY <2>1 DEF Slices, Image
<1>2. \A v : {r \in rows : Value(r, column) = v} = Fibre(key, rows, v)
  BY DEF Fibre
<1>3. IsFiniteSet(K)
  BY ImageIsFinite DEF Money
<1> HIDE DEF K
<1>4. \A v \in K : h[v].label = v /\ h[v].amount = Amount(Fibre(key, rows, v))
  BY <1>2
<1> HIDE DEF h
<1>5. \A v \in K : e[h[v]] = Amount(Fibre(key, rows, v))
  BY <1>1, <1>4 DEF Image
<1>6. Amount(slices) = SumOf(On(e, slices))
  <2>1. On(e, slices) = e
    BY DEF On
  <2> QED
    BY <2>1 DEF Amount
<1>7. IsFiniteSet(slices)
  BY <1>1, <1>3, ImageIsFinite
<1> HIDE DEF e, slices, key
<1>8. SumOf(On(e, Image(h, K))) = Amount(rows)
  <2>1. \A v, u \in K : h[v] = h[u] => v = u
    BY <1>4
  <2> QED
    BY <1>5, <2>1, NamedGroupsAddUp DEF K
<1> QED
  BY <1>1, <1>6, <1>7, <1>8 DEF slices
=============================================================================
