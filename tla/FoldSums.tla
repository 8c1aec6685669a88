------------------------------ MODULE FoldSums ------------------------------
(***************************************************************************)
(* Sums over finite sets, as the community modules' folds compute them: a  *)
(* fold takes an arbitrary element of what is left, adds its value and     *)
(* goes on.  A sum is counted: S with the weights f has as many units as   *)
(* the pairs <<x, k>>, x \in S and k \in 1..f[x], and every fold arrives   *)
(* at that number, so the facts about sums are facts about cardinalities.  *)
(***************************************************************************)
EXTENDS Integers, FiniteSets, Functions, FiniteSetTheorems,
        WellFoundedInduction, TLAPS

Sum(f, S) == FoldFunctionOnSet(+, 0, f, S)

\* The units of x, and of all elements of S.
Units(f, x) == {x} \X (1..f[x])
AllUnits(f, S) == UNION {Units(f, x) : x \in S}

\* The element a fold takes next.
Picked(s) == CHOOSE x \in s : TRUE

\* One step of the fold over a part of S.
Folded(g, f, s) == IF s = {} THEN 0 ELSE f[Picked(s)] + g[s \ {Picked(s)}]

\* A weight is the number of its units.
LEMMA UnitsCount ==
  ASSUME NEW f, NEW x, f[x] \in Nat
  PROVE  IsFiniteSet(Units(f, x)) /\ Cardinality(Units(f, x)) = f[x]
<1> DEFINE n == f[x]
           X == {x}
           I == 1..n
<1>1. IsFiniteSet(X) /\ Cardinality(X) = 1
  BY FS_Singleton
<1>2. IsFiniteSet(I) /\ Cardinality(I) = n
  <2>1. n \in Nat
    OBVIOUS
  <2> HIDE DEF n
  <2> QED BY <2>1, FS_Interval
<1>3. Units(f, x) = X \X I /\ 1 * n = n
  BY DEF Units
<1> HIDE DEF X, I, n
<1>4. IsFiniteSet(X \X I) /\ Cardinality(X \X I) = 1 * n
  BY <1>1, <1>2, FS_Product
<1> QED BY <1>3, <1>4 DEF n

\* The units of a finite set can be counted.
LEMMA AllUnitsFinite ==
  ASSUME NEW S, IsFiniteSet(S), NEW f, \A x \in S : f[x] \in Nat
  PROVE  IsFiniteSet(AllUnits(f, S)) /\ Cardinality(AllUnits(f, S)) \in Nat
<1> DEFINE T == {Units(f, x) : x \in S}
           h == [x \in S |-> Units(f, x)]
<1>1. h \in Surjection(S, T)
  BY DEF Surjection
<1>2. IsFiniteSet(T)
  BY <1>1, FS_Surjection
<1>3. \A t \in T : IsFiniteSet(t)
  BY UnitsCount
<1>4. IsFiniteSet(UNION T)
  BY <1>2, <1>3, FS_UNION
<1> QED BY <1>4, FS_CardinalityType DEF AllUnits

\* One more element brings its weight.
LEMMA AllUnitsAdd ==
  ASSUME NEW S, IsFiniteSet(S), NEW f, NEW u, u \notin S,
         \A x \in S \cup {u} : f[x] \in Nat
  PROVE  Cardinality(AllUnits(f, S \cup {u})) = Cardinality(AllUnits(f, S)) + f[u]
<1>1. AllUnits(f, S \cup {u}) = AllUnits(f, S) \cup Units(f, u)
  BY DEF AllUnits
<1>2. AllUnits(f, S) \cap Units(f, u) = {}
  BY DEF AllUnits, Units
<1>3. IsFiniteSet(AllUnits(f, S)) /\ Cardinality(AllUnits(f, S)) \in Nat
  BY AllUnitsFinite
<1>4. IsFiniteSet(Units(f, u)) /\ Cardinality(Units(f, u)) = f[u]
  BY UnitsCount
<1>5. Cardinality(AllUnits(f, S) \cup Units(f, u))
        = Cardinality(AllUnits(f, S)) + f[u] - Cardinality({})
  BY <1>2, <1>3, <1>4, FS_Union
<1>6. Cardinality(AllUnits(f, S) \cup Units(f, u)) = Cardinality(AllUnits(f, S)) + f[u]
  <2>1. Cardinality({}) = 0
    BY FS_EmptySet
  <2>2. f[u] \in Nat
    OBVIOUS
  <2> QED BY <1>3, <1>5, <2>1, <2>2
<1> QED BY <1>1, <1>6

\* Counting the units is a fold.
LEMMA CountFolds ==
  ASSUME NEW S, IsFiniteSet(S), NEW f, \A x \in S : f[x] \in Nat,
         NEW s \in SUBSET S, s # {}
  PROVE  /\ Picked(s) \in s
         /\ Cardinality(AllUnits(f, s))
              = f[Picked(s)] + Cardinality(AllUnits(f, s \ {Picked(s)}))
<1>1. Picked(s) \in s
  BY DEF Picked
<1> DEFINE r == s \ {Picked(s)}
<1>2. r \cup {Picked(s)} = s /\ Picked(s) \notin r
  BY <1>1
<1>3. IsFiniteSet(r)
  BY FS_Subset
<1>4. \A x \in r \cup {Picked(s)} : f[x] \in Nat
  BY <1>2
<1> HIDE DEF r
<1>5. Cardinality(AllUnits(f, r \cup {Picked(s)}))
        = Cardinality(AllUnits(f, r)) + f[Picked(s)]
  BY <1>2, <1>3, <1>4, AllUnitsAdd
<1>6. Cardinality(AllUnits(f, r)) \in Nat
  BY <1>3, <1>4, AllUnitsFinite
<1>7. f[Picked(s)] \in Nat
  BY <1>4
<1>8. Cardinality(AllUnits(f, s)) = Cardinality(AllUnits(f, r)) + f[Picked(s)]
  BY <1>2, <1>5
<1>9. Cardinality(AllUnits(f, s)) = f[Picked(s)] + Cardinality(AllUnits(f, r))
  BY <1>6, <1>7, <1>8
<1> QED BY <1>1, <1>9 DEF r

\* A set of numbers that is not empty has a least one.
LEMMA LeastNumber ==
  ASSUME NEW A, A \subseteq Nat, A # {}
  PROVE  \E n \in A : \A m \in A : n <= m
<1> DEFINE R == {ss \in Nat \X Nat : ss[1] < ss[2]}
<1>1. IsWellFoundedOn(R, Nat)
  BY NatLessThanWellFounded DEF OpToRel
<1>2. PICK n \in A : \A m \in A : ~(<<m, n>> \in R)
  <2> HIDE DEF R
  <2> QED BY <1>1, WFMin
<1>3. ASSUME NEW m \in A PROVE n <= m
  <2>1. n \in Nat /\ m \in Nat /\ ~(<<m, n>> \in R)
    BY <1>2
  <2>2. m < n => <<m, n>> \in R
    BY <2>1
  <2> QED BY <2>1, <2>2
<1> QED BY <1>3

\* Every function that folds arrives at the count: a least part where it does
\* not would have a smaller one.
LEMMA FoldsAgree ==
  ASSUME NEW S, IsFiniteSet(S), NEW f, \A x \in S : f[x] \in Nat,
         NEW g, g = [s \in SUBSET S |-> Folded(g, f, s)]
  PROVE  \A s \in SUBSET S : g[s] = Cardinality(AllUnits(f, s))
<1> DEFINE Wrong == {s \in SUBSET S : g[s] # Cardinality(AllUnits(f, s))}
           A == {n \in Nat : \E s \in Wrong : Cardinality(s) = n}
<1>1. \A s \in SUBSET S : IsFiniteSet(s) /\ Cardinality(s) \in Nat
  BY FS_Subset, FS_CardinalityType
<1>2. \A s \in SUBSET S : g[s] = Folded(g, f, s)
  OBVIOUS
<1>3. SUFFICES ASSUME Wrong # {} PROVE FALSE
  OBVIOUS
<1>4. A # {}
  BY <1>1, <1>3
<1>5. PICK n \in A : \A m \in A : n <= m
  <2> HIDE DEF A
  <2>1. A \subseteq Nat
    BY DEF A
  <2> QED BY <1>4, <2>1, LeastNumber
<1>6. PICK s \in Wrong : Cardinality(s) = n
  OBVIOUS
<1>7. CASE s = {}
  <2>1. AllUnits(f, s) = {}
    BY <1>7 DEF AllUnits
  <2>2. g[s] = 0
    BY <1>2, <1>7 DEF Folded
  <2> QED BY <1>6, <2>1, <2>2, FS_EmptySet
<1>8. CASE s # {}
  <2> DEFINE r == s \ {Picked(s)}
  <2>1. Picked(s) \in s /\ Cardinality(AllUnits(f, s)) = f[Picked(s)] + Cardinality(AllUnits(f, r))
    <3>1. s \in SUBSET S
      BY <1>6
    <3> QED BY <1>8, <3>1, CountFolds
  <2>2. r \in SUBSET S /\ Cardinality(r) = n - 1 /\ Cardinality(r) \in Nat
    BY <1>1, <1>6, <2>1, FS_RemoveElement
  <2>3. r \notin Wrong
    BY <1>5, <2>2
  <2>4. g[s] = f[Picked(s)] + g[r]
    BY <1>2, <1>8 DEF Folded
  <2> QED BY <1>6, <2>1, <2>2, <2>3, <2>4
<1> QED BY <1>7, <1>8

\* A fold computes the number of units.
LEMMA SumCounts ==
  ASSUME NEW S, IsFiniteSet(S), NEW f, \A x \in S : f[x] \in Nat
  PROVE  Sum(f, S) = Cardinality(AllUnits(f, S))
<1> DEFINE G == [s \in SUBSET S |-> Cardinality(AllUnits(f, s))]
           iter == CHOOSE g : g = [s \in SUBSET S |-> Folded(g, f, s)]
<1>1. G = [s \in SUBSET S |-> Folded(G, f, s)]
  <2>1. ASSUME NEW s \in SUBSET S PROVE G[s] = Folded(G, f, s)
    <3>1. CASE s = {}
      <4>1. AllUnits(f, s) = {}
        BY <3>1 DEF AllUnits
      <4> QED BY <3>1, <4>1, FS_EmptySet DEF Folded
    <3>2. CASE s # {}
      BY <3>2, CountFolds DEF Folded
    <3> QED BY <3>1, <3>2
  <2> QED BY <2>1
<1>2. iter = [s \in SUBSET S |-> Folded(iter, f, s)]
  <2> HIDE DEF G
  <2> QED BY <1>1
<1>3. Sum(f, S) = iter[S]
  BY DEF Sum, FoldFunctionOnSet, MapThenFoldSet, Folded, Picked
<1> HIDE DEF iter
<1> QED BY <1>2, <1>3, FoldsAgree

-----------------------------------------------------------------------------
(* What the proofs use.                                                    *)

\* A sum of numbers is a number, nothing sums to 0, and a part sums to no more.
LEMMA SumBasics ==
  ASSUME NEW S, IsFiniteSet(S), NEW f, \A x \in S : f[x] \in Nat
  PROVE  /\ Sum(f, S) \in Nat
         /\ S = {} => Sum(f, S) = 0
         /\ \A T \in SUBSET S : Sum(f, T) \in Nat /\ Sum(f, T) <= Sum(f, S)
<1>1. Sum(f, S) = Cardinality(AllUnits(f, S)) /\ IsFiniteSet(AllUnits(f, S))
      /\ Cardinality(AllUnits(f, S)) \in Nat
  BY SumCounts, AllUnitsFinite
<1>2. ASSUME S = {} PROVE Sum(f, S) = 0
  <2>1. AllUnits(f, S) = {}
    BY <1>2 DEF AllUnits
  <2> QED BY <1>1, <2>1, FS_EmptySet
<1>3. ASSUME NEW T \in SUBSET S PROVE Sum(f, T) \in Nat /\ Sum(f, T) <= Sum(f, S)
  <2>1. IsFiniteSet(T) /\ \A x \in T : f[x] \in Nat
    BY FS_Subset
  <2>2. Sum(f, T) = Cardinality(AllUnits(f, T)) /\ Cardinality(AllUnits(f, T)) \in Nat
    BY <2>1, SumCounts, AllUnitsFinite
  <2>3. AllUnits(f, T) \in SUBSET AllUnits(f, S)
    BY DEF AllUnits
  <2>4. Cardinality(AllUnits(f, T)) <= Cardinality(AllUnits(f, S))
    BY <1>1, <2>3, FS_Subset
  <2> QED BY <1>1, <2>2, <2>4
<1> QED BY <1>1, <1>2, <1>3

\* One more element adds its value, in whatever order the fold takes them.
LEMMA SumAdd ==
  ASSUME NEW S, IsFiniteSet(S), NEW f, NEW u, u \notin S,
         \A x \in S \cup {u} : f[x] \in Nat
  PROVE  Sum(f, S \cup {u}) = Sum(f, S) + f[u]
<1>1. IsFiniteSet(S \cup {u})
  BY FS_AddElement
<1>2. Sum(f, S \cup {u}) = Cardinality(AllUnits(f, S \cup {u}))
  <2> DEFINE T == S \cup {u}
  <2>1. \A x \in T : f[x] \in Nat
    OBVIOUS
  <2> HIDE DEF T
  <2>2. Sum(f, T) = Cardinality(AllUnits(f, T))
    BY <1>1, <2>1, SumCounts DEF T
  <2> QED BY <2>2 DEF T
<1>3. Sum(f, S) = Cardinality(AllUnits(f, S))
  BY SumCounts
<1> QED BY <1>2, <1>3, AllUnitsAdd

\* Equal values have equal sums.
LEMMA SumSame ==
  ASSUME NEW S, IsFiniteSet(S), NEW f, NEW g, \A x \in S : f[x] \in Nat /\ g[x] = f[x]
  PROVE  Sum(g, S) = Sum(f, S)
<1>1. AllUnits(g, S) = AllUnits(f, S)
  BY DEF AllUnits, Units
<1>2. Sum(g, S) = Cardinality(AllUnits(g, S)) /\ Sum(f, S) = Cardinality(AllUnits(f, S))
  BY SumCounts
<1> QED BY <1>1, <1>2

\* A sum of zeros is 0.
LEMMA SumZeros ==
  ASSUME NEW S, IsFiniteSet(S), NEW f, \A x \in S : f[x] = 0
  PROVE  Sum(f, S) = 0
<1>1. AllUnits(f, S) = {}
  <2>1. \A x \in S : 1..f[x] = {}
    OBVIOUS
  <2> QED BY <2>1 DEF AllUnits, Units
<1>2. Sum(f, S) = Cardinality(AllUnits(f, S))
  BY SumCounts
<1> QED BY <1>1, <1>2, FS_EmptySet

\* A value that changes changes the sum by as much.
LEMMA SumUpdate ==
  ASSUME NEW S, IsFiniteSet(S), NEW f \in [S -> Nat], NEW g \in [S -> Nat], NEW u \in S,
         \A x \in S \ {u} : g[x] = f[x]
  PROVE  Sum(g, S) = Sum(f, S) - f[u] + g[u] /\ Sum(f, S) \in Nat
<1> DEFINE r == S \ {u}
<1>1. r \cup {u} = S /\ u \notin r
  OBVIOUS
<1>2. IsFiniteSet(r)
  BY FS_RemoveElement
<1>3. /\ \A x \in r : f[x] \in Nat /\ g[x] = f[x]
      /\ f[u] \in Nat /\ g[u] \in Nat
      /\ \A x \in r \cup {u} : f[x] \in Nat /\ g[x] \in Nat
  OBVIOUS
<1> HIDE DEF r
<1>4. Sum(f, r \cup {u}) = Sum(f, r) + f[u]
  BY <1>1, <1>2, <1>3, SumAdd
<1>5. Sum(g, r \cup {u}) = Sum(g, r) + g[u]
  BY <1>1, <1>2, <1>3, SumAdd
<1>6. Sum(g, r) = Sum(f, r)
  BY <1>2, <1>3, SumSame
<1>7. Sum(f, r) \in Nat
  BY <1>2, <1>3, SumBasics
<1>8. Sum(f, S) = Sum(f, r) + f[u] /\ Sum(g, S) = Sum(f, r) + g[u]
  BY <1>1, <1>4, <1>5, <1>6
<1> QED BY <1>3, <1>7, <1>8
=============================================================================
