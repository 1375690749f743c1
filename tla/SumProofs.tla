------------------------------- MODULE SumProofs -------------------------------
(***************************************************************************)
(* Sums over finite sets, as MapThenSumSet computes them: what the rows of *)
(* the statistics tables are compared with.  The library's induction       *)
(* theorems take the statement proved as a parameter; the proofs below     *)
(* look at a least counterexample instead, which needs no such parameter.  *)
(***************************************************************************)
EXTENDS Integers, FiniteSetsExt, FiniteSetTheorems, TLAPS

Sum(f, S) == MapThenSumSet(LAMBDA x : f[x], S)

Picked(s) == CHOOSE x \in s : TRUE

\* What g must be on a subset of its domain.
SumStep(f, g, s) == IF s = {} THEN 0 ELSE f[Picked(s)] + g[s \ {Picked(s)}]

\* g adds up f over the subsets of S, one picked element after the other.
Adds(g, f, S) == g = [s \in SUBSET S |-> SumStep(f, g, s)]

(***************************************************************************)
(* Least elements.                                                         *)
(***************************************************************************)

\* A set of natural numbers that is not empty has a least element.
LEMMA LeastNat ==
    ASSUME NEW T \in SUBSET Nat, T # {}
    PROVE  \E n \in T : \A k \in T : n <= k
<1>1. PICK n \in T : \A k \in T : ~ (<<k, n>> \in OpToRel(<, Nat))
  BY NatLessThanWellFounded, WFMin
<1>2. ASSUME NEW k \in T PROVE n <= k
  <2>1. ~ (k < n)
    BY <1>1 DEF OpToRel
  <2> QED BY <2>1
<1> QED BY <1>2

\* A set of finite sets that is not empty has a member without a smaller one.
LEMMA LeastSet ==
    ASSUME NEW S, IsFiniteSet(S), NEW T \in SUBSET (SUBSET S), T # {}
    PROVE  \E s \in T : \A u \in T : u \subseteq s => u = s
<1>1. T \subseteq FiniteSubsetsOf(S)
  BY FS_FiniteSubsetsOfFinite
<1>2. PICK s \in T : \A u \in T : ~ (<<u, s>> \in StrictSubsetOrdering(S))
  BY <1>1, FS_StrictSubsetOrderingWellFounded, WFMin
<1>3. ASSUME NEW u \in T, u \subseteq s PROVE u = s
  BY <1>2, <1>3 DEF StrictSubsetOrdering
<1> QED BY <1>3

(***************************************************************************)
(* MapThenSumSet is well defined.                                          *)
(***************************************************************************)

\* The element picked from a set that is not empty is one of its elements.
LEMMA PickIn == ASSUME NEW s, s # {} PROVE Picked(s) \in s
BY DEF Picked

\* The library's definition, in terms of Adds.
LEMMA SumChoice ==
    ASSUME NEW f, NEW S
    PROVE  Sum(f, S) = (CHOOSE g : Adds(g, f, S))[S]
BY Zenon DEF Sum, MapThenSumSet, MapThenFoldSet, Adds, SumStep, Picked

\* The subsets of S with at most n elements.
UpTo(S, n) == {s \in SUBSET S : Cardinality(s) <= n}

AddsUpTo(g, f, S, n) == g = [s \in UpTo(S, n) |-> SumStep(f, g, s)]

\* A function that adds up f over sets of n elements extends to n + 1.
LEMMA AddsUpToExists ==
    ASSUME NEW f, NEW S, IsFiniteSet(S), NEW n \in Nat
    PROVE  \E g : AddsUpTo(g, f, S, n)
<1> DEFINE Bad == {k \in Nat : ~ \E g : AddsUpTo(g, f, S, k)}
<1> SUFFICES ASSUME Bad # {} PROVE FALSE
  OBVIOUS
<1>1. PICK k \in Bad : \A j \in Bad : k <= j
  BY LeastNat
<1>2. CASE k = 0
  <2> DEFINE g == [s \in UpTo(S, 0) |-> 0]
  <2>1. ASSUME NEW s \in UpTo(S, 0) PROVE s = {}
    <3>1. IsFiniteSet(s) /\ Cardinality(s) \in Nat /\ Cardinality(s) <= 0
      BY FS_Subset, FS_CardinalityType DEF UpTo
    <3> QED BY <3>1, FS_EmptySet
  <2>2. \A s \in UpTo(S, 0) : SumStep(f, g, s) = 0
    BY <2>1 DEF SumStep
  <2>3. AddsUpTo(g, f, S, 0)
    BY <2>2 DEF AddsUpTo
  <2> QED BY <1>2, <2>3
<1>3. CASE k # 0
  <2>1. k - 1 \in Nat /\ k - 1 \notin Bad
    BY <1>1, <1>3
  <2>2. PICK h : AddsUpTo(h, f, S, k - 1)
    BY <2>1
  <2> DEFINE g == [s \in UpTo(S, k) |-> SumStep(f, h, s)]
  <2>3. ASSUME NEW s \in UpTo(S, k), s # {}
        PROVE  s \ {Picked(s)} \in UpTo(S, k - 1)
    <3>1. IsFiniteSet(s) /\ Cardinality(s) \in Nat /\ Cardinality(s) <= k
      BY FS_Subset, FS_CardinalityType DEF UpTo
    <3>2. Cardinality(s \ {Picked(s)}) = Cardinality(s) - 1
      BY <2>3, <3>1, PickIn, FS_RemoveElement
    <3> QED BY <1>1, <3>1, <3>2 DEF UpTo
  <2>4. ASSUME NEW s \in UpTo(S, k - 1) PROVE s \in UpTo(S, k) /\ g[s] = h[s]
    <3>1. s \in UpTo(S, k)
      <4>1. Cardinality(s) \in Nat
        BY FS_Subset, FS_CardinalityType DEF UpTo
      <4> QED BY <1>1, <4>1 DEF UpTo
    <3>2. h[s] = SumStep(f, h, s)
      BY <2>2 DEF AddsUpTo
    <3> QED BY <3>1, <3>2
  <2>5. ASSUME NEW s \in UpTo(S, k) PROVE SumStep(f, g, s) = SumStep(f, h, s)
    BY <2>3, <2>4 DEF SumStep
  <2>6. AddsUpTo(g, f, S, k)
    BY <2>5 DEF AddsUpTo
  <2> QED BY <1>1, <2>6
<1> QED BY <1>2, <1>3

LEMMA AddsExists ==
    ASSUME NEW f, NEW S, IsFiniteSet(S)
    PROVE  \E g : Adds(g, f, S)
<1>1. Cardinality(S) \in Nat
  BY FS_CardinalityType
<1>2. UpTo(S, Cardinality(S)) = SUBSET S
  BY FS_Subset DEF UpTo
<1>3. PICK g : AddsUpTo(g, f, S, Cardinality(S))
  BY <1>1, AddsUpToExists
<1> QED BY <1>2, <1>3 DEF AddsUpTo, Adds

\* Two such functions agree where both are defined.
LEMMA AddsUnique ==
    ASSUME NEW f, NEW S, IsFiniteSet(S), NEW T \in SUBSET S,
           NEW g, Adds(g, f, S), NEW h, Adds(h, f, T)
    PROVE  g[T] = h[T]
<1> DEFINE Bad == {s \in SUBSET T : g[s] # h[s]}
<1> SUFFICES ASSUME Bad # {} PROVE FALSE
  OBVIOUS
<1>2. PICK s \in Bad : \A u \in Bad : u \subseteq s => u = s
  <2>1. Bad \in SUBSET (SUBSET S)
    OBVIOUS
  <2> HIDE DEF Bad
  <2> QED BY <2>1, LeastSet
<1>3. s \in SUBSET S /\ s \in SUBSET T
  BY <1>2
<1>4. g[s] = SumStep(f, g, s) /\ h[s] = SumStep(f, h, s)
  BY <1>3 DEF Adds
<1>5. CASE s = {}
  BY <1>2, <1>4, <1>5 DEF SumStep
<1>6. CASE s # {}
  <2>1. s \ {Picked(s)} \notin Bad
    BY <1>2, <1>6, PickIn
  <2>2. g[s \ {Picked(s)}] = h[s \ {Picked(s)}]
    BY <1>3, <2>1
  <2> QED BY <1>2, <1>4, <1>6, <2>2 DEF SumStep
<1> QED BY <1>5, <1>6

\* A sum over a set: one picked element, and the sum over the others.
LEMMA SumUnfold ==
    ASSUME NEW f, NEW S, IsFiniteSet(S)
    PROVE  Sum(f, S) = IF S = {} THEN 0 ELSE f[Picked(S)] + Sum(f, S \ {Picked(S)})
<1> DEFINE g == CHOOSE h : Adds(h, f, S)
<1>1. Adds(g, f, S)
  BY AddsExists
<1>2. Sum(f, S) = g[S]
  BY SumChoice
<1>3. g[S] = SumStep(f, g, S)
  <2> HIDE DEF g
  <2> QED BY <1>1 DEF Adds
<1>4. CASE S = {}
  BY <1>2, <1>3, <1>4 DEF SumStep
<1>5. CASE S # {}
  <2> DEFINE T == S \ {Picked(S)}
  <2> DEFINE k == CHOOSE h : Adds(h, f, T)
  <2>1. IsFiniteSet(T)
    BY FS_Subset
  <2>2. Adds(k, f, T)
    BY <2>1, AddsExists
  <2>3. Sum(f, T) = k[T]
    BY SumChoice
  <2>4. g[T] = k[T]
    <3> HIDE DEF g, k
    <3> QED BY <1>1, <2>2, AddsUnique
  <2> QED BY <1>2, <1>3, <1>5, <2>3, <2>4 DEF SumStep
<1> QED BY <1>4, <1>5

(***************************************************************************)
(* What the other proofs use.                                              *)
(***************************************************************************)

LEMMA SumEmpty == ASSUME NEW f PROVE Sum(f, {}) = 0
BY SumUnfold, FS_EmptySet

\* A sum of integers is one; of natural numbers, a natural number.
LEMMA SumType ==
    ASSUME NEW N, N \in {Nat, Int}, NEW S, IsFiniteSet(S), NEW f, \A x \in S : f[x] \in N
    PROVE  Sum(f, S) \in N
<1> DEFINE Bad == {s \in SUBSET S : Sum(f, s) \notin N}
<1> SUFFICES ASSUME Bad # {} PROVE FALSE
  OBVIOUS
<1>1. PICK s \in Bad : \A u \in Bad : u \subseteq s => u = s
  <2>1. Bad \in SUBSET (SUBSET S)
    OBVIOUS
  <2> HIDE DEF Bad
  <2> QED BY <2>1, LeastSet
<1>2. IsFiniteSet(s)
  BY FS_Subset
<1>3. CASE s = {}
  BY <1>1, <1>3, SumEmpty
<1>4. CASE s # {}
  <2>1. Sum(f, s) = f[Picked(s)] + Sum(f, s \ {Picked(s)})
    BY <1>2, <1>4, SumUnfold
  <2>2. Picked(s) \in S /\ f[Picked(s)] \in N
    BY <1>4, PickIn
  <2>3. Sum(f, s \ {Picked(s)}) \in N
    BY <1>1, <1>4, PickIn
  <2> QED BY <1>1, <2>1, <2>2, <2>3
<1> QED BY <1>3, <1>4

\* The order in which the elements are picked does not matter.
LEMMA SumRemove ==
    ASSUME NEW S, IsFiniteSet(S), NEW f, \A x \in S : f[x] \in Int, NEW d \in S
    PROVE  Sum(f, S) = f[d] + Sum(f, S \ {d})
<1> DEFINE Bad == {s \in SUBSET S : \E x \in s : Sum(f, s) # f[x] + Sum(f, s \ {x})}
<1> SUFFICES ASSUME Bad # {} PROVE FALSE
  OBVIOUS
<1>1. PICK s \in Bad : \A u \in Bad : u \subseteq s => u = s
  <2>1. Bad \in SUBSET (SUBSET S)
    OBVIOUS
  <2> HIDE DEF Bad
  <2> QED BY <2>1, LeastSet
<1>2. PICK x \in s : Sum(f, s) # f[x] + Sum(f, s \ {x})
  BY <1>1
<1> DEFINE y == Picked(s)
<1>3. y \in s
  BY PickIn
<1>4. \A u \in SUBSET s : IsFiniteSet(u) /\ Sum(f, u) \in Int
  <2> TAKE u \in SUBSET s
  <2>1. IsFiniteSet(u)
    BY FS_Subset
  <2>2. \A z \in u : f[z] \in Int
    OBVIOUS
  <2> QED BY <2>1, <2>2, SumType
<1>5. Sum(f, s) = f[y] + Sum(f, s \ {y})
  BY <1>4, SumUnfold
<1>6. x # y
  BY <1>2, <1>5
<1>7. s \ {y} \notin Bad /\ s \ {x} \notin Bad
  BY <1>1, <1>3
<1> HIDE DEF y
<1>8. Sum(f, s \ {y}) = f[x] + Sum(f, (s \ {y}) \ {x})
  BY <1>6, <1>7
<1>9. Sum(f, s \ {x}) = f[y] + Sum(f, (s \ {x}) \ {y})
  BY <1>3, <1>6, <1>7
<1>10. (s \ {x}) \ {y} = (s \ {y}) \ {x}
  OBVIOUS
<1>11. /\ f[x] \in Int /\ f[y] \in Int
       /\ Sum(f, (s \ {y}) \ {x}) \in Int
  BY <1>3, <1>4
<1> DEFINE rest == Sum(f, (s \ {y}) \ {x})
<1>12. Sum(f, s) = f[y] + (f[x] + rest) /\ Sum(f, s \ {x}) = f[y] + rest
  BY <1>5, <1>8, <1>9, <1>10
<1> HIDE DEF rest, Bad
<1> QED BY <1>2, <1>11, <1>12 DEF rest

LEMMA SumAdd ==
    ASSUME NEW S, IsFiniteSet(S), NEW f, NEW d, d \notin S,
           \A x \in S \cup {d} : f[x] \in Int
    PROVE  Sum(f, S \cup {d}) = f[d] + Sum(f, S)
<1>1. IsFiniteSet(S \cup {d})
  BY FS_AddElement
<1>2. (S \cup {d}) \ {d} = S
  OBVIOUS
<1> QED BY <1>1, <1>2, SumRemove

\* Two functions that agree on the set have the same sum.
LEMMA SumSame ==
    ASSUME NEW S, IsFiniteSet(S), NEW f, NEW g, \A x \in S : f[x] = g[x]
    PROVE  Sum(f, S) = Sum(g, S)
<1> DEFINE Bad == {s \in SUBSET S : Sum(f, s) # Sum(g, s)}
<1> SUFFICES ASSUME Bad # {} PROVE FALSE
  OBVIOUS
<1>1. PICK s \in Bad : \A u \in Bad : u \subseteq s => u = s
  <2>1. Bad \in SUBSET (SUBSET S)
    OBVIOUS
  <2> HIDE DEF Bad
  <2> QED BY <2>1, LeastSet
<1>2. IsFiniteSet(s)
  BY FS_Subset
<1>3. CASE s = {}
  BY <1>1, <1>3, SumEmpty
<1>4. CASE s # {}
  <2>1. /\ Sum(f, s) = f[Picked(s)] + Sum(f, s \ {Picked(s)})
        /\ Sum(g, s) = g[Picked(s)] + Sum(g, s \ {Picked(s)})
    BY <1>2, <1>4, SumUnfold
  <2>2. f[Picked(s)] = g[Picked(s)] /\ Sum(f, s \ {Picked(s)}) = Sum(g, s \ {Picked(s)})
    BY <1>1, <1>4, PickIn
  <2> QED BY <1>1, <2>1, <2>2
<1> QED BY <1>3, <1>4

\* Raising one term by n raises the sum by n.
LEMMA SumRaise ==
    ASSUME NEW S, IsFiniteSet(S), NEW f, NEW g, NEW d \in S, NEW n \in Int,
           \A x \in S : f[x] \in Int,
           \A x \in S : g[x] = IF x = d THEN f[x] + n ELSE f[x]
    PROVE  Sum(g, S) = Sum(f, S) + n
<1>1. IsFiniteSet(S \ {d})
  BY FS_RemoveElement
<1>2. Sum(f, S) = f[d] + Sum(f, S \ {d}) /\ Sum(g, S) = g[d] + Sum(g, S \ {d})
  BY SumRemove
<1>3. Sum(f, S \ {d}) = Sum(g, S \ {d})
  BY <1>1, SumSame
<1>4. Sum(f, S \ {d}) \in Int
  BY <1>1, SumType
<1> QED BY <1>2, <1>3, <1>4
===============================================================================
