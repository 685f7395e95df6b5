---------------------------- MODULE FoldTheorems ----------------------------
(***************************************************************************)
(* Induction and recursion for proofs about sums and folds.                *)
(*                                                                         *)
(* The induction theorems of the library take the induction hypothesis as  *)
(* an operator, which the provers cannot instantiate.  Here a hypothesis   *)
(* is a set - of the numbers, or of the subsets, that satisfy it - and the *)
(* step of a recursion is a function.                                      *)
(***************************************************************************)
EXTENDS Integers, FiniteSets, Functions, FiniteSetTheorems, WellFoundedInduction, TLAPS

\* Every set of natural numbers that is not empty has a least element.
LEMMA LeastNumber ==
    ASSUME NEW S \in SUBSET Nat, S # {}
    PROVE  \E x \in S : \A y \in S : x <= y
<1> DEFINE R == OpToRel(<, Nat)
<1>1. IsWellFoundedOn(R, Nat)
  BY NatLessThanWellFounded
<1>2. \A x, y \in Nat : x < y => <<x, y>> \in R
  BY DEF OpToRel
<1> HIDE DEF R
<1>3. PICK x \in S : \A y \in S : ~ (<<y, x>> \in R)
  BY <1>1, WFMin, Zenon
<1>4. ASSUME NEW y \in S PROVE x <= y
  <2>1. x \in Nat /\ y \in Nat
    BY Zenon
  <2>2. ~ (y < x)
    BY <1>2, <1>3, <2>1, Zenon
  <2> QED
    BY <2>1, <2>2
<1> QED
  BY <1>4

\* Induction over the natural numbers: P is the set of those that satisfy
\* the hypothesis.
LEMMA NumberInduction ==
    ASSUME NEW P, 0 \in P, \A n \in Nat : n \in P => n + 1 \in P
    PROVE  Nat \subseteq P
<1> SUFFICES ASSUME ~ (Nat \subseteq P) PROVE FALSE
  OBVIOUS
<1>1. PICK m \in Nat \ P : \A y \in Nat \ P : m <= y
  BY LeastNumber
<1>2. m # 0 /\ m - 1 \in Nat
  BY <1>1
<1>3. m - 1 \in P
  BY <1>1, <1>2
<1> QED
  BY <1>1, <1>2, <1>3

\* Induction over the subsets of a finite set, one element at a time.
LEMMA SubsetInduction ==
    ASSUME NEW S, IsFiniteSet(S), NEW P,
           \A T \in SUBSET S : (\A x \in T : T \ {x} \in P) => T \in P
    PROVE  SUBSET S \subseteq P
<1> DEFINE N == {n \in Nat : \A T \in SUBSET S : Cardinality(T) = n => T \in P}
<1>1. \A T \in SUBSET S : IsFiniteSet(T) /\ Cardinality(T) \in Nat
  BY FS_Subset, FS_CardinalityType
<1>2. 0 \in N
  <2> SUFFICES ASSUME NEW T \in SUBSET S, Cardinality(T) = 0 PROVE T \in P
    OBVIOUS
  <2>1. T = {}
    BY <1>1, FS_EmptySet
  <2> QED
    BY <2>1
<1>3. ASSUME NEW n \in Nat, n \in N PROVE n + 1 \in N
  <2> SUFFICES ASSUME NEW T \in SUBSET S, Cardinality(T) = n + 1 PROVE T \in P
    OBVIOUS
  <2>1. ASSUME NEW x \in T PROVE T \ {x} \in P
    <3>1. Cardinality(T \ {x}) = n
      BY <1>1, FS_RemoveElement
    <3> QED
      BY <1>3, <3>1
  <2> QED
    BY <2>1
<1> HIDE DEF N
<1>4. Nat \subseteq N
  BY <1>2, <1>3, NumberInduction
<1> QED
  BY <1>1, <1>4 DEF N

\* A recursion on D: an element has a rank, those of rank zero have the value base
\* and the others get theirs from that of an element of smaller rank.
IsDescent(D, V, rank, m, before, base, step) ==
    /\ m \in Nat
    /\ rank \in [D -> 0..m]
    /\ \A x \in D : rank[x] # 0 => before[x] \in D /\ rank[before[x]] < rank[x]
    /\ base \in V
    /\ step \in [D -> [V -> V]]

Descends(F, D, V, rank, before, base, step) ==
    /\ F \in [D -> V]
    /\ \A x \in D : F[x] = IF rank[x] = 0 THEN base ELSE step[x][F[before[x]]]

\* There is a function that the recursion defines.
LEMMA Recursion ==
    ASSUME NEW D, NEW V, NEW rank, NEW m, NEW before, NEW base, NEW step,
           IsDescent(D, V, rank, m, before, base, step)
    PROVE  \E F : Descends(F, D, V, rank, before, base, step)
<1> USE DEF IsDescent
<1> DEFINE Value(F, x) == IF rank[x] = 0 THEN base ELSE step[x][F[before[x]]]
           Good(F, n) == \A x \in D : rank[x] <= n => F[x] = Value(F, x)
           N == {n \in Nat : \E F \in [D -> V] : Good(F, n)}
<1>1. \A x \in D : rank[x] \in Nat /\ rank[x] <= m
  OBVIOUS
<1>2. ASSUME NEW F \in [D -> V], NEW x \in D PROVE Value(F, x) \in V
  OBVIOUS
<1>3. 0 \in N
  <2> DEFINE F == [x \in D |-> base]
  <2>1. F \in [D -> V]
    OBVIOUS
  <2>2. Good(F, 0)
    BY <1>1
  <2> QED
    BY <2>1, <2>2
<1>4. ASSUME NEW n \in Nat, n \in N PROVE n + 1 \in N
  <2>1. PICK F \in [D -> V] : Good(F, n)
    BY <1>4
  <2> DEFINE G == [x \in D |-> Value(F, x)]
  <2>2. G \in [D -> V]
    BY <1>2
  <2>3. \A x \in D : rank[x] <= n => G[x] = F[x]
    BY <2>1
  <2>4. ASSUME NEW x \in D, rank[x] <= n + 1 PROVE G[x] = Value(G, x)
    <3>1. CASE rank[x] = 0
      BY <3>1
    <3>2. CASE rank[x] # 0
      <4>1. before[x] \in D /\ rank[before[x]] <= n
        BY <1>1, <2>4, <3>2
      <4>2. G[x] = step[x][F[before[x]]]
        BY <3>2
      <4> HIDE DEF G
      <4>3. G[before[x]] = F[before[x]]
        BY <2>3, <4>1
      <4> QED
        BY <3>2, <4>2, <4>3
    <3> QED
      BY <3>1, <3>2
  <2>5. Good(G, n + 1)
    BY <2>4
  <2> HIDE DEF G, Good
  <2> QED
    BY <2>2, <2>5
<1> HIDE DEF N
<1>5. Nat \subseteq N
  BY <1>3, <1>4, NumberInduction
<1>6. PICK F \in [D -> V] : Good(F, m)
  BY <1>5 DEF N
<1> QED
  BY <1>1, <1>6 DEF Descends

\* A recursion over the subsets of S: every set that is not empty has a chosen
\* element, and every step stays in V.
IsRecursion(S, V, base, chosen, step) ==
    /\ base \in V
    /\ \A T \in SUBSET S : T # {} => chosen[T] \in T
    /\ step \in [SUBSET S -> [V -> V]]

\* F takes the step of a set from its value for the set without the chosen one.
Follows(F, S, V, base, chosen, step) ==
    /\ F \in [SUBSET S -> V]
    /\ F[{}] = base
    /\ \A T \in SUBSET S : T # {} => F[T] = step[T][F[T \ {chosen[T]}]]

\* If S is finite there is a function that the recursion defines.
LEMMA SubsetRecursion ==
    ASSUME NEW S, IsFiniteSet(S), NEW V, NEW base, NEW chosen, NEW step,
           IsRecursion(S, V, base, chosen, step)
    PROVE  \E F : Follows(F, S, V, base, chosen, step)
<1> DEFINE D == SUBSET S
           m == Cardinality(S)
           rank == [T \in D |-> Cardinality(T)]
           before == [T \in D |-> T \ {chosen[T]}]
<1>1. \A T \in D : IsFiniteSet(T) /\ Cardinality(T) \in 0..m /\ (Cardinality(T) = 0 <=> T = {})
  BY FS_Subset, FS_CardinalityType, FS_EmptySet
<1>2. \A T \in D : T # {} => /\ T \ {chosen[T]} \in D
                             /\ Cardinality(T \ {chosen[T]}) < Cardinality(T)
  <2> SUFFICES ASSUME NEW T \in D, T # {}
               PROVE  T \ {chosen[T]} \in D /\ Cardinality(T \ {chosen[T]}) < Cardinality(T)
    OBVIOUS
  <2>1. chosen[T] \in T /\ IsFiniteSet(T)
    BY <1>1 DEF IsRecursion
  <2>2. Cardinality(T \ {chosen[T]}) = Cardinality(T) - 1 /\ Cardinality(T) \in Nat
    BY <2>1, FS_RemoveElement, FS_CardinalityType
  <2> QED
    BY <2>2
<1>3. m \in Nat
  BY FS_CardinalityType
<1>4. \A T \in D : rank[T] = Cardinality(T) /\ before[T] = T \ {chosen[T]}
  OBVIOUS
<1>5. rank \in [D -> 0..m]
  BY <1>1
<1> HIDE DEF D, rank, before
<1>6. IsDescent(D, V, rank, m, before, base, step)
  <2>1. step \in [D -> [V -> V]] /\ base \in V
    BY DEF IsRecursion, D
  <2>2. ASSUME NEW T \in D, rank[T] # 0 PROVE before[T] \in D /\ rank[before[T]] < rank[T]
    BY <1>1, <1>2, <1>4, <2>2
  <2> QED
    BY <1>3, <1>5, <2>1, <2>2 DEF IsDescent
<1>7. PICK F : Descends(F, D, V, rank, before, base, step)
  BY <1>6, Recursion
<1>8. \A T \in D : F[T] = IF T = {} THEN base ELSE step[T][F[T \ {chosen[T]}]]
  BY <1>1, <1>4, <1>7 DEF Descends
<1>9. F \in [D -> V] /\ {} \in D
  BY <1>7 DEF Descends, D
<1> QED
  BY <1>8, <1>9 DEF Follows, D

\* The numbers from 1 to k, and the greatest of them.
LEMMA GreatestNumber ==
    ASSUME NEW k \in Nat \ {0}
    PROVE  /\ 1..k # {} /\ (1..k) \ {k} = 1..(k - 1)
           /\ (CHOOSE x \in 1..k : \A y \in 1..k : x >= y) = k
<1>1. k \in 1..k /\ \A y \in 1..k : k >= y
  OBVIOUS
<1> DEFINE g == CHOOSE x \in 1..k : \A y \in 1..k : x >= y
<1>2. g \in 1..k /\ \A y \in 1..k : g >= y
  BY <1>1
<1> HIDE DEF g
<1>3. g = k
  BY <1>1, <1>2
<1>4. (1..k) \ {k} = 1..(k - 1)
  OBVIOUS
<1> QED
  BY <1>1, <1>3, <1>4 DEF g

\* Every set of numbers from 1 to n that is not empty has a greatest one.
LEMMA GreatestExists ==
    ASSUME NEW n \in Nat, NEW T \in SUBSET (1..n), T # {}
    PROVE  (CHOOSE x \in T : \A y \in T : x >= y) \in T
<1> DEFINE R == {n - x : x \in T}
<1>1. R \in SUBSET Nat /\ R # {}
  <2>1. \A x \in T : n - x \in Nat
    OBVIOUS
  <2> QED
    BY <2>1
<1> HIDE DEF R
<1>2. PICK r \in R : \A q \in R : r <= q
  BY <1>1, LeastNumber
<1>3. PICK x \in T : r = n - x
  BY <1>2 DEF R
<1>4. \A y \in T : n - y \in R
  BY DEF R
<1>5. \A y \in T : x >= y
  <2> TAKE y \in T
  <2>1. n - x <= n - y /\ x \in Int /\ y \in Int
    BY <1>2, <1>3, <1>4
  <2> QED
    BY <2>1
<1> QED
  BY <1>5

\* A fold from 1 to n: F[1..k] is its value after k steps.  The last element is
\* taken away first, as the folds over sequences do.
IsFold(n, V, base, step) == n \in Nat /\ base \in V /\ step \in [1..n -> [V -> V]]

Greatest(T) == CHOOSE x \in T : \A y \in T : x >= y

FoldsUp(F, n, V, base, step) ==
    /\ F \in [SUBSET (1..n) -> V]
    /\ \A T \in SUBSET (1..n) : F[T] = IF T = {} THEN base ELSE step[Greatest(T)][F[T \ {Greatest(T)}]]

\* Such a fold exists.
LEMMA FoldExists ==
    ASSUME NEW n, NEW V, NEW base, NEW step, IsFold(n, V, base, step)
    PROVE  \E F : FoldsUp(F, n, V, base, step)
<1> DEFINE S == 1..n
           chosen == [T \in SUBSET S |-> Greatest(T)]
           each == [T \in SUBSET S |-> IF T = {} THEN [v \in V |-> v] ELSE step[Greatest(T)]]
<1>1. n \in Nat /\ base \in V /\ step \in [S -> [V -> V]]
  BY DEF IsFold
<1>2. IsFiniteSet(S)
  BY <1>1, FS_Interval
<1>3. \A T \in SUBSET S : T # {} => Greatest(T) \in T /\ Greatest(T) \in S
  BY <1>1, GreatestExists DEF Greatest
<1>4. /\ \A T \in SUBSET S : chosen[T] = Greatest(T)
      /\ \A T \in SUBSET S : T # {} => each[T] = step[Greatest(T)]
  OBVIOUS
<1>5. each \in [SUBSET S -> [V -> V]]
  BY <1>1, <1>3
<1> HIDE DEF S, chosen, each
<1>6. IsRecursion(S, V, base, chosen, each)
  BY <1>1, <1>3, <1>4, <1>5 DEF IsRecursion
<1>7. PICK F : Follows(F, S, V, base, chosen, each)
  BY <1>2, <1>6, SubsetRecursion
<1>8. F \in [SUBSET S -> V]
  BY <1>7 DEF Follows
<1>9. \A T \in SUBSET S : F[T] = IF T = {} THEN base ELSE step[Greatest(T)][F[T \ {Greatest(T)}]]
  BY <1>4, <1>7 DEF Follows
<1> QED
  BY <1>8, <1>9 DEF FoldsUp, S

-----------------------------------------------------------------------------
(* Sums *)

\* A function F of the subsets of S that adds f of a chosen element at every step.
AddsChosen(F, f, chosen, S) ==
    /\ F[{}] = 0
    /\ \A T \in SUBSET S :
          T # {} => chosen[T] \in T /\ F[T] = f[chosen[T]] + F[T \ {chosen[T]}]

\* Adding up numbers gives a number.
LEMMA AddsNumbers ==
    ASSUME NEW S, IsFiniteSet(S), NEW f \in [S -> Int], NEW F, NEW chosen,
           AddsChosen(F, f, chosen, S)
    PROVE  \A T \in SUBSET S : F[T] \in Int
<1> DEFINE P == {T \in SUBSET S : F[T] \in Int}
<1>1. ASSUME NEW T \in SUBSET S, \A x \in T : T \ {x} \in P PROVE F[T] \in Int
  <2>1. CASE T = {}
    BY <2>1 DEF AddsChosen
  <2>2. CASE T # {}
    <3>1. chosen[T] \in T /\ F[T] = f[chosen[T]] + F[T \ {chosen[T]}]
      BY <2>2 DEF AddsChosen
    <3>2. F[T \ {chosen[T]}] \in Int /\ f[chosen[T]] \in Int
      BY <1>1, <3>1
    <3> QED
      BY <3>1, <3>2
  <2> QED
    BY <2>1, <2>2
<1>2. \A T \in SUBSET S : (\A x \in T : T \ {x} \in P) => T \in P
  BY <1>1
<1> HIDE DEF P
<1>3. SUBSET S \subseteq P
  BY <1>2, SubsetInduction
<1> QED
  BY <1>3 DEF P

\* F is the sum of f over every subset, whichever element is taken first.
IsSumOf(F, f, S) ==
    /\ F[{}] = 0
    /\ \A T \in SUBSET S : F[T] \in Int
    /\ \A T \in SUBSET S : \A x \in T : F[T] = f[x] + F[T \ {x}]

\* The order in which the elements are chosen does not matter.
LEMMA AddsInAnyOrder ==
    ASSUME NEW S, IsFiniteSet(S), NEW f \in [S -> Int], NEW F, NEW chosen,
           AddsChosen(F, f, chosen, S)
    PROVE  IsSumOf(F, f, S)
<1> DEFINE P == {T \in SUBSET S : \A x \in T : F[T] = f[x] + F[T \ {x}]}
<1>1. ASSUME NEW T \in SUBSET S, \A x \in T : T \ {x} \in P, NEW x \in T
      PROVE  F[T] = f[x] + F[T \ {x}]
  <2> DEFINE c == chosen[T]
  <2>1. c \in T /\ F[T] = f[c] + F[T \ {c}]
    BY DEF AddsChosen
  <2> HIDE DEF c
  <2>2. CASE x = c
    BY <2>1, <2>2
  <2>3. CASE x # c
    <3> DEFINE R == (T \ {c}) \ {x}
    <3>1. F[T \ {c}] = f[x] + F[R]
      BY <1>1, <2>1, <2>3
    <3>2. F[T \ {x}] = f[c] + F[(T \ {x}) \ {c}]
      BY <1>1, <2>1, <2>3
    <3>3. (T \ {x}) \ {c} = R /\ R \in SUBSET S
      OBVIOUS
    <3> HIDE DEF R
    <3>4. f[x] \in Int /\ f[c] \in Int /\ F[R] \in Int
      BY <2>1, <3>3, AddsNumbers
    <3>5. F[T \ {x}] = f[c] + F[R]
      BY <3>2, <3>3, Zenon
    <3> QED
      BY <2>1, <3>1, <3>4, <3>5
  <2> QED
    BY <2>2, <2>3
<1>2. \A T \in SUBSET S : (\A x \in T : T \ {x} \in P) => T \in P
  BY <1>1
<1> HIDE DEF P
<1>3. SUBSET S \subseteq P
  BY <1>2, SubsetInduction
<1>4. \A T \in SUBSET S : F[T] \in Int
  BY AddsNumbers
<1> QED
  BY <1>3, <1>4 DEF P, IsSumOf, AddsChosen

\* SumFunction() adds up the values one by one: there is a function from the
\* subsets of the domain to the sums over them.
LEMMA SumOverSubsets ==
    ASSUME NEW S, IsFiniteSet(S), NEW f \in [S -> Int]
    PROVE  \E F : IsSumOf(F, f, S) /\ SumFunction(f) = F[S]
<1> DEFINE pick(T) == CHOOSE x \in T : TRUE
           chosen == [T \in SUBSET S |-> pick(T)]
           Sums(F) == F = [T \in SUBSET S |->
                             IF T = {} THEN 0 ELSE f[pick(T)] + F[T \ {pick(T)}]]
           F == CHOOSE H : Sums(H)
<1>1. \A T \in SUBSET S : T # {} => chosen[T] \in T
  OBVIOUS
<1>2. SumFunction(f) = F[S]
  BY DEF SumFunction, SumFunctionOnSet, FoldFunctionOnSet, MapThenFoldSet
<1>3. \E G : Sums(G)
  <2> DEFINE step == [T \in SUBSET S |-> [v \in Int |-> IF T = {} THEN 0 ELSE f[chosen[T]] + v]]
  <2>1. step \in [SUBSET S -> [Int -> Int]]
    BY <1>1
  <2>2. \A T \in SUBSET S : T # {} => \A v \in Int : step[T][v] = f[chosen[T]] + v
    OBVIOUS
  <2>3. IsRecursion(S, Int, 0, chosen, step)
    BY <1>1, <2>1 DEF IsRecursion
  <2> HIDE DEF step, chosen
  <2>4. PICK G : Follows(G, S, Int, 0, chosen, step)
    BY <2>3, SubsetRecursion
  <2>5. ASSUME NEW T \in SUBSET S, T # {} PROVE G[T] = f[chosen[T]] + G[T \ {chosen[T]}]
    <3>1. G[T \ {chosen[T]}] \in Int
      BY <2>4 DEF Follows
    <3> QED
      BY <2>2, <2>4, <2>5, <3>1 DEF Follows
  <2>6. Sums(G)
    BY <2>4, <2>5 DEF Follows, chosen
  <2> QED
    BY <2>6
<1>4. Sums(F)
  BY <1>3
<1> HIDE DEF F
<1>5. AddsChosen(F, f, chosen, S)
  BY <1>1, <1>4 DEF AddsChosen
<1> HIDE DEF chosen
<1> QED
  BY <1>2, <1>5, AddsInAnyOrder

\* A sum of integers is an integer, one of natural numbers a natural number.
LEMMA SumIsInt ==
    ASSUME NEW S, IsFiniteSet(S), NEW f \in [S -> Int]
    PROVE  SumFunction(f) \in Int
<1>1. PICK F : IsSumOf(F, f, S) /\ SumFunction(f) = F[S]
  BY SumOverSubsets
<1> QED
  BY <1>1 DEF IsSumOf

\* The sum over the whole domain behaves like the sum over every subset: what
\* relates f, g and h element by element relates their sums.
LEMMA SumsCombine ==
    ASSUME NEW S, IsFiniteSet(S), NEW f \in [S -> Int], NEW g \in [S -> Int],
           NEW w \in Int, NEW h \in [S -> Int], \A x \in S : h[x] = f[x] + w * g[x]
    PROVE  SumFunction(h) = SumFunction(f) + w * SumFunction(g)
<1>1. PICK F : IsSumOf(F, f, S) /\ SumFunction(f) = F[S]
  BY SumOverSubsets
<1>2. PICK G : IsSumOf(G, g, S) /\ SumFunction(g) = G[S]
  BY SumOverSubsets
<1>3. PICK H : IsSumOf(H, h, S) /\ SumFunction(h) = H[S]
  BY SumOverSubsets
<1> DEFINE P == {T \in SUBSET S : H[T] = F[T] + w * G[T]}
<1>4. ASSUME NEW T \in SUBSET S, \A x \in T : T \ {x} \in P PROVE H[T] = F[T] + w * G[T]
  <2>1. CASE T = {}
    BY <1>1, <1>2, <1>3, <2>1 DEF IsSumOf
  <2>2. ASSUME NEW x \in T PROVE H[T] = F[T] + w * G[T]
    <3> DEFINE R == T \ {x}
    <3>1. F[T] = f[x] + F[R] /\ G[T] = g[x] + G[R] /\ H[T] = h[x] + H[R]
      BY <1>1, <1>2, <1>3 DEF IsSumOf
    <3>2. F[R] \in Int /\ G[R] \in Int /\ f[x] \in Int /\ g[x] \in Int
      BY <1>1, <1>2 DEF IsSumOf
    <3>3. H[R] = F[R] + w * G[R]
      BY <1>4
    <3>4. h[x] = f[x] + w * g[x]
      OBVIOUS
    <3> HIDE DEF R
    <3>5. w * (g[x] + G[R]) = w * g[x] + w * G[R]
      BY <3>2
    <3> QED
      BY <3>1, <3>2, <3>3, <3>4, <3>5
  <2> QED
    BY <2>1, <2>2
<1>5. \A T \in SUBSET S : (\A x \in T : T \ {x} \in P) => T \in P
  BY <1>4
<1> HIDE DEF P
<1>6. SUBSET S \subseteq P
  BY <1>5, SubsetInduction
<1> QED
  BY <1>1, <1>2, <1>3, <1>6 DEF P

\* A sum of values that are not negative is not negative.
LEMMA SumIsNat ==
    ASSUME NEW S, IsFiniteSet(S), NEW f \in [S -> Int], \A x \in S : f[x] >= 0
    PROVE  SumFunction(f) \in Nat
<1>1. PICK F : IsSumOf(F, f, S) /\ SumFunction(f) = F[S]
  BY SumOverSubsets
<1> DEFINE P == {T \in SUBSET S : F[T] >= 0}
<1>2. ASSUME NEW T \in SUBSET S, \A x \in T : T \ {x} \in P PROVE F[T] >= 0
  <2>1. CASE T = {}
    BY <1>1, <2>1 DEF IsSumOf
  <2>2. ASSUME NEW x \in T PROVE F[T] >= 0
    <3>1. F[T] = f[x] + F[T \ {x}] /\ F[T \ {x}] \in Int
      BY <1>1 DEF IsSumOf
    <3>2. F[T \ {x}] >= 0 /\ f[x] >= 0 /\ f[x] \in Int
      BY <1>2
    <3> QED
      BY <3>1, <3>2
  <2> QED
    BY <2>1, <2>2
<1>3. \A T \in SUBSET S : (\A x \in T : T \ {x} \in P) => T \in P
  BY <1>2
<1>4. F[S] \in Int
  BY <1>1 DEF IsSumOf
<1> HIDE DEF P
<1>5. SUBSET S \subseteq P
  BY <1>3, SubsetInduction
<1> QED
  BY <1>1, <1>4, <1>5 DEF P

\* A value that all elements of A have, the others having none.
LEMMA SumOfConstant ==
    ASSUME NEW S, IsFiniteSet(S), NEW A \in SUBSET S, NEW r \in Int
    PROVE  SumFunction([x \in S |-> IF x \in A THEN r ELSE 0]) = Cardinality(A) * r
<1> DEFINE f == [x \in S |-> IF x \in A THEN r ELSE 0]
<1>1. f \in [S -> Int]
  OBVIOUS
<1>2. \A x \in S : f[x] = IF x \in A THEN r ELSE 0
  OBVIOUS
<1> HIDE DEF f
<1>3. PICK F : IsSumOf(F, f, S) /\ SumFunction(f) = F[S]
  BY <1>1, SumOverSubsets
<1> DEFINE P == {T \in SUBSET S : F[T] = Cardinality(A \cap T) * r}
<1>4. ASSUME NEW T \in SUBSET S, \A x \in T : T \ {x} \in P
      PROVE  F[T] = Cardinality(A \cap T) * r
  <2>1. CASE T = {}
    <3>1. A \cap T = {}
      BY <2>1
    <3>2. Cardinality(A \cap T) = 0
      BY <3>1, FS_EmptySet
    <3> QED
      BY <1>3, <2>1, <3>2 DEF IsSumOf
  <2>2. ASSUME NEW x \in T PROVE F[T] = Cardinality(A \cap T) * r
    <3> DEFINE c == Cardinality(A \cap T)
               d == Cardinality(A \cap (T \ {x}))
    <3>1. F[T] = f[x] + F[T \ {x}]
      BY <1>3 DEF IsSumOf
    <3>2. F[T \ {x}] = d * r
      BY <1>4
    <3>3. IsFiniteSet(A \cap T) /\ c \in Nat
      BY FS_Subset, FS_CardinalityType
    <3>4. IsFiniteSet(A \cap (T \ {x})) /\ d \in Nat
      BY FS_Subset, FS_CardinalityType
    <3>5. CASE x \in A
      <4>1. A \cap (T \ {x}) = (A \cap T) \ {x} /\ x \in A \cap T
        BY <3>5
      <4>2. d = c - 1
        <5>1. Cardinality((A \cap T) \ {x}) = c - 1
          BY <3>3, <4>1, FS_RemoveElement
        <5> QED
          BY <4>1, <5>1, Zenon
      <4>3. f[x] = r
        BY <1>2, <3>5
      <4> HIDE DEF c, d
      <4>4. r + d * r = (d + 1) * r
        BY <3>4
      <4>5. d + 1 = c
        BY <3>3, <4>2
      <4> QED
        BY <3>1, <3>2, <4>3, <4>4, <4>5 DEF c
    <3>6. CASE x \notin A
      <4>1. A \cap (T \ {x}) = A \cap T
        BY <3>6
      <4>2. d = c
        BY <4>1, Zenon
      <4>3. f[x] = 0
        BY <1>2, <3>6
      <4> HIDE DEF c, d
      <4>4. d * r \in Int
        BY <3>4
      <4>5. F[T] = d * r
        BY <3>1, <3>2, <4>3, <4>4
      <4> QED
        BY <4>2, <4>5 DEF c
    <3> QED
      BY <3>5, <3>6
  <2> QED
    BY <2>1, <2>2
<1>5. \A T \in SUBSET S : (\A x \in T : T \ {x} \in P) => T \in P
  BY <1>4
<1> HIDE DEF P
<1>6. SUBSET S \subseteq P
  BY <1>5, SubsetInduction
<1>7. A \cap S = A
  OBVIOUS
<1> QED
  BY <1>3, <1>6, <1>7 DEF P, f

\* Changing one value changes the sum by the difference.
LEMMA SumOfChanged ==
    ASSUME NEW S, IsFiniteSet(S), NEW f \in [S -> Int], NEW x \in S, NEW v \in Int
    PROVE  SumFunction([f EXCEPT ![x] = v]) = SumFunction(f) + (v - f[x])
<1> DEFINE g == [y \in S |-> IF y \in {x} THEN 1 ELSE 0]
           h == [f EXCEPT ![x] = v]
           w == v - f[x]
<1>1. g \in [S -> Int] /\ h \in [S -> Int] /\ w \in Int
  OBVIOUS
<1>2. \A y \in S : h[y] = f[y] + w * g[y]
  OBVIOUS
<1>3. Cardinality({x}) = 1
  BY FS_Singleton
<1>4. SumFunction(g) = Cardinality({x}) * 1
  BY SumOfConstant
<1> HIDE DEF g, h, w
<1>5. SumFunction(h) = SumFunction(f) + w * SumFunction(g)
  BY <1>1, <1>2, SumsCombine
<1>6. SumFunction(f) \in Int
  BY SumIsInt
<1> QED
  BY <1>1, <1>3, <1>4, <1>5, <1>6 DEF h, w

\* Smaller values have a smaller sum.
LEMMA SumIsMonotonic ==
    ASSUME NEW S, IsFiniteSet(S), NEW f \in [S -> Int], NEW g \in [S -> Int],
           \A x \in S : f[x] <= g[x]
    PROVE  SumFunction(f) <= SumFunction(g)
<1> DEFINE h == [x \in S |-> g[x] - f[x]]
           minus == -1
<1>1. /\ minus \in Int /\ h \in [S -> Int]
      /\ \A x \in S : h[x] >= 0 /\ h[x] = g[x] + minus * f[x]
  OBVIOUS
<1> HIDE DEF h, minus
<1>2. SumFunction(h) \in Nat
  BY <1>1, SumIsNat
<1>3. SumFunction(h) = SumFunction(g) + minus * SumFunction(f)
  BY <1>1, SumsCombine
<1>4. SumFunction(f) \in Int /\ SumFunction(g) \in Int
  BY SumIsInt
<1> QED
  BY <1>2, <1>3, <1>4 DEF minus

\* A sum of natural numbers is at least as large as one of them, and as two.
LEMMA SumIsAtLeast ==
    ASSUME NEW S, IsFiniteSet(S), NEW f \in [S -> Nat], NEW x \in S
    PROVE  /\ f[x] <= SumFunction(f)
           /\ \A y \in S \ {x} : f[x] + f[y] <= SumFunction(f)
<1> DEFINE g == [f EXCEPT ![x] = 0]
<1>1. f \in [S -> Int] /\ g \in [S -> Int] /\ \A y \in S : g[y] >= 0
  OBVIOUS
<1>2. SumFunction(g) = SumFunction(f) + (0 - f[x])
  BY <1>1, SumOfChanged
<1>3. SumFunction(g) \in Nat
  <2> HIDE DEF g
  <2> QED
    BY <1>1, SumIsNat
<1>4. SumFunction(f) \in Int
  BY <1>1, SumIsInt
<1>5. ASSUME NEW y \in S \ {x} PROVE f[x] + f[y] <= SumFunction(f)
  <2> DEFINE h == [g EXCEPT ![y] = 0]
  <2>1. h \in [S -> Int] /\ (\A z \in S : h[z] >= 0) /\ g[y] = f[y] /\ y \in S
    OBVIOUS
  <2> HIDE DEF g
  <2> HIDE DEF h
  <2>2. SumFunction([g EXCEPT ![y] = 0]) = SumFunction(g) + (0 - g[y])
    <3>1. 0 \in Int
      OBVIOUS
    <3> QED
      BY <1>1, <2>1, <3>1, SumOfChanged, Zenon
  <2>3. SumFunction(h) \in Nat
    BY <2>1, SumIsNat
  <2> QED
    BY <1>2, <1>3, <1>4, <2>1, <2>2, <2>3 DEF h
<1> QED
  BY <1>2, <1>3, <1>4, <1>5

\* One element can be taken out of a sum.
Others(f, S, x) == [y \in S \ {x} |-> f[y]]

\* A sum is one value and the sum of the others.
LEMMA SumOfOthers ==
    ASSUME NEW S, IsFiniteSet(S), NEW f \in [S -> Int], NEW x \in S
    PROVE  SumFunction(f) = f[x] + SumFunction(Others(f, S, x))
<1> DEFINE R == S \ {x}
           g == [y \in R |-> f[y]]
<1>1. IsFiniteSet(R) /\ g \in [R -> Int] /\ R \in SUBSET S /\ R \in SUBSET R /\ S \in SUBSET S
  BY FS_RemoveElement
<1>2. \A y \in R : g[y] = f[y]
  OBVIOUS
<1> HIDE DEF g
<1>3. PICK F : IsSumOf(F, f, S) /\ SumFunction(f) = F[S]
  BY SumOverSubsets
<1>4. PICK G : IsSumOf(G, g, R) /\ SumFunction(g) = G[R]
  BY <1>1, SumOverSubsets
<1> DEFINE P == {T \in SUBSET R : G[T] = F[T]}
<1>5. \A T \in SUBSET R : (\A y \in T : T \ {y} \in P) => T \in P
  <2> SUFFICES ASSUME NEW T \in SUBSET R, \A y \in T : T \ {y} \in P PROVE G[T] = F[T]
    OBVIOUS
  <2>1. CASE T = {}
    BY <1>3, <1>4, <2>1 DEF IsSumOf
  <2>2. CASE T # {}
    <3>1. PICK y \in T : TRUE
      BY <2>2
    <3>2. y \in R /\ T \in SUBSET S /\ G[T \ {y}] = F[T \ {y}]
      BY <3>1
    <3>3. G[T] = g[y] + G[T \ {y}] /\ F[T] = f[y] + F[T \ {y}]
      BY <1>3, <1>4, <3>1, <3>2 DEF IsSumOf
    <3> QED
      BY <1>2, <3>2, <3>3
  <2> QED
    BY <2>1, <2>2
<1> HIDE DEF P, R
<1>6. SUBSET R \subseteq P
  BY <1>1, <1>5, SubsetInduction
<1>7. G[R] = F[R]
  BY <1>1, <1>6 DEF P
<1>8. F[S] = f[x] + F[R]
  BY <1>1, <1>3 DEF IsSumOf, R
<1> QED
  BY <1>3, <1>4, <1>7, <1>8 DEF g, R, Others

\* Sums over the numbers from 1 to k grow by one value at a time.
SumTo(f, k) == SumFunction([j \in 1..k |-> f[j]])

\* The next value is added.
LEMMA SumToNext ==
    ASSUME NEW f, NEW k \in Nat, \A j \in 1..(k + 1) : f[j] \in Int
    PROVE  /\ SumTo(f, k) \in Int
           /\ SumTo(f, k + 1) = SumTo(f, k) + f[k + 1]
<1> DEFINE S == 1..(k + 1)
           x == k + 1
           g == [j \in S |-> f[j]]
           h == [j \in 1..k |-> f[j]]
<1>1. IsFiniteSet(S) /\ IsFiniteSet(1..k) /\ x \in S /\ S \ {x} = 1..k
  BY FS_Interval
<1>2. g \in [S -> Int] /\ h \in [1..k -> Int] /\ g[x] = f[x] /\ g[x] \in Int
  OBVIOUS
<1>3. Others(g, S, x) = h
  BY <1>1 DEF Others
<1> HIDE DEF S, x, g, h
<1>4. SumFunction(g) = g[x] + SumFunction(Others(g, S, x))
  BY <1>1, <1>2, SumOfOthers
<1>5. SumFunction(h) \in Int
  BY <1>1, <1>2, SumIsInt
<1>6. SumFunction(g) = SumFunction(h) + f[x]
  BY <1>2, <1>3, <1>4, <1>5
<1> QED
  BY <1>5, <1>6 DEF SumTo, S, x, g, h

\* The sum of nothing.
LEMMA SumToNone ==
    ASSUME NEW f
    PROVE  SumTo(f, 0) = 0
<1> DEFINE S == 1..0
           none == [x \in S |-> IF x \in {} THEN 0 ELSE 0]
<1>1. [j \in 1..0 |-> f[j]] = none
  OBVIOUS
<1>2. IsFiniteSet(S) /\ Cardinality({}) = 0 /\ {} \in SUBSET S /\ 0 \in Int
  BY FS_EmptySet, FS_Interval
<1> HIDE DEF S
<1>3. SumFunction(none) = Cardinality({}) * 0
  BY <1>2, SumOfConstant
<1> QED
  BY <1>1, <1>2, <1>3 DEF SumTo

-----------------------------------------------------------------------------
(* Remainders *)

\* A larger factor gives a product that is as large at least.
LEMMA ProductIsMonotonic ==
    ASSUME NEW a \in Nat, NEW b \in Nat, NEW k \in Nat, a <= b
    PROVE  a * k <= b * k
<1>1. b - a \in Nat
  OBVIOUS
<1>2. (b - a) * k \in Nat /\ b * k = a * k + (b - a) * k
  BY <1>1
<1> QED
  BY <1>2

\* Quotient and remainder are unique.
LEMMA RemainderOfMultiple ==
    ASSUME NEW W \in Nat \ {0}, NEW a \in Int, NEW q \in Int, NEW r \in 0..(W - 1),
           a = W * q + r
    PROVE  a % W = r
  OBVIOUS

\* A multiple of the word size does not show.
LEMMA RemainderShifted ==
    ASSUME NEW W \in Nat \ {0}, NEW a \in Int, NEW k \in Int
    PROVE  (a + W * k) % W = a % W
<1> DEFINE q == a \div W
           r == a % W
<1>1. q \in Int /\ r \in 0..(W - 1) /\ a = W * q + r
  OBVIOUS
<1> HIDE DEF q, r
<1>2. W * (q + k) = W * q + W * k
  BY <1>1
<1>3. a + W * k = W * (q + k) + r
  BY <1>1, <1>2
<1>4. (a + W * k) % W = r
  BY <1>1, <1>3, RemainderOfMultiple
<1> QED
  BY <1>4 DEF r

\* Wrapping around early or late makes no difference.
LEMMA RemainderOfSum ==
    ASSUME NEW W \in Nat \ {0}, NEW a \in Int, NEW b \in Int
    PROVE  (a + (b % W)) % W = (a + b) % W
<1> DEFINE q == b \div W
           r == b % W
<1>1. q \in Int /\ r \in 0..(W - 1) /\ b = W * q + r
  OBVIOUS
<1> HIDE DEF q, r
<1> DEFINE c == a + r
<1>2. c \in Int /\ c + W * q = a + b
  BY <1>1
<1> HIDE DEF c
<1>3. (c + W * q) % W = c % W
  BY <1>1, <1>2, RemainderShifted
<1> QED
  BY <1>2, <1>3 DEF r, c

\* Equal remainders stay equal when the same is added.
LEMMA RemaindersStayEqual ==
    ASSUME NEW W \in Nat \ {0}, NEW a \in Int, NEW b \in Int, NEW c \in Int, a % W = b % W
    PROVE  (a + c) % W = (b + c) % W
<1>1. (c + (a % W)) % W = (c + a) % W
  BY RemainderOfSum
<1>2. (c + (b % W)) % W = (c + b) % W
  BY RemainderOfSum
<1>3. c + a = a + c /\ c + b = b + c
  OBVIOUS
<1> QED
  BY <1>1, <1>2, <1>3
=============================================================================
