----------------------------- MODULE OrderLemmas -----------------------------
(***************************************************************************)
(* Smallest elements of sets of naturals, and ranks in finite sets of      *)
(* records with a position, for the proofs.                                *)
(***************************************************************************)
EXTENDS Integers, FiniteSetsExt, FiniteSetTheorems, WellFoundedInduction, TLAPS

\* A non-empty set of naturals has a smallest element, which Min returns.
LEMMA MinIsIn ==
  ASSUME NEW S, S \subseteq Nat, S # {}
  PROVE  Min(S) \in S /\ \A q \in S : Min(S) <= q
<1> DEFINE R == OpToRel(<, Nat)
<1>1. PICK x \in S : \A y \in S : ~(<<y, x>> \in R)
  <2> HIDE DEF R
  <2>1. IsWellFoundedOn(R, Nat)
    BY NatLessThanWellFounded DEF R
  <2> QED BY <2>1, WFMin
<1>2. \A y \in S : x =< y
  <2> SUFFICES ASSUME NEW y \in S PROVE x =< y
    OBVIOUS
  <2>1. ~(y < x)
    BY <1>1 DEF OpToRel
  <2> QED BY <2>1
<1> QED BY <1>2 DEF Min

-----------------------------------------------------------------------------
(* Ranks.  Positioned(S): no two elements of S have the same position.     *)

Positioned(S) ==
  /\ IsFiniteSet(S)
  /\ \A v \in S : v.pos \in Nat
  /\ \A v, w \in S : v.pos = w.pos => v = w

OlderIn(S, v) == {w \in S : w.pos < v.pos}
NewerIn(S, v) == {w \in S : w.pos > v.pos}
Rank(S, v) == Cardinality(OlderIn(S, v))

\* A set with bounded, distinct positions is finite.
LEMMA BoundedPositions ==
  ASSUME NEW S, NEW n \in Nat, \A v \in S : v.pos \in 1 .. n,
         \A v, w \in S : v.pos = w.pos => v = w
  PROVE  Positioned(S)
<1> DEFINE f == [v \in S |-> v.pos]
<1>1. f \in Injection(S, 1 .. n)
  BY DEF Injection, IsInjective
<1>2. IsFiniteSet(1 .. n)
  BY FS_Interval
<1>3. IsFiniteSet(S)
  <2> HIDE DEF f
  <2> QED BY <1>1, <1>2, FS_Injection
<1> QED BY <1>3 DEF Positioned

\* Every element of a set is older than v, newer than v, or v.
LEMMA OlderAndNewer ==
  ASSUME NEW S, Positioned(S), NEW v \in S
  PROVE  /\ Rank(S, v) \in Nat /\ Cardinality(NewerIn(S, v)) \in Nat
         /\ Rank(S, v) + Cardinality(NewerIn(S, v)) + 1 = Cardinality(S)
<1> DEFINE O == OlderIn(S, v)
           N == NewerIn(S, v)
<1>1. IsFiniteSet(O) /\ IsFiniteSet(N)
  BY FS_Subset DEF Positioned, OlderIn, NewerIn
<1>2. O \cap N = {} /\ v \notin O \cup N /\ S = (O \cup N) \cup {v}
  BY DEF Positioned, OlderIn, NewerIn
<1> HIDE DEF O, N
<1>3. Cardinality(O) \in Nat /\ Cardinality(N) \in Nat
  BY <1>1, FS_CardinalityType
<1>4. IsFiniteSet(O \cup N) /\ Cardinality(O \cup N) = Cardinality(O) + Cardinality(N)
  BY <1>1, <1>2, <1>3, FS_Union, FS_EmptySet
<1>5. Cardinality((O \cup N) \cup {v}) = Cardinality(O \cup N) + 1
  BY <1>2, <1>4, FS_AddElement
<1> QED BY <1>2, <1>3, <1>4, <1>5 DEF O, N, Rank

\* The rank grows with the position.
LEMMA RankGrows ==
  ASSUME NEW S, Positioned(S), NEW v \in S, NEW w \in S, v.pos < w.pos
  PROVE  Rank(S, v) < Rank(S, w)
<1>1. /\ IsFiniteSet(OlderIn(S, w)) /\ IsFiniteSet(OlderIn(S, v))
      /\ OlderIn(S, v) \in SUBSET OlderIn(S, w)
  BY FS_Subset DEF Positioned, OlderIn
<1>2. v \in OlderIn(S, w) /\ v \notin OlderIn(S, v)
  BY DEF Positioned, OlderIn
<1>3. /\ Cardinality(OlderIn(S, v)) <= Cardinality(OlderIn(S, w))
      /\ Cardinality(OlderIn(S, v)) # Cardinality(OlderIn(S, w))
  BY <1>1, <1>2, FS_Subset
<1>4. Cardinality(OlderIn(S, v)) \in Nat /\ Cardinality(OlderIn(S, w)) \in Nat
  BY <1>1, FS_CardinalityType
<1> QED BY <1>3, <1>4 DEF Rank

\* The ranks of a set are the numbers below its size, each once.
LEMMA Ranks ==
  ASSUME NEW S, Positioned(S)
  PROVE  /\ Cardinality(S) \in Nat
         /\ \A v \in S : Rank(S, v) \in 0 .. Cardinality(S) - 1
         /\ \A v, w \in S : Rank(S, v) = Rank(S, w) => v = w
         /\ \A k \in 0 .. Cardinality(S) - 1 : \E v \in S : Rank(S, v) = k
<1> DEFINE n == Cardinality(S)
           f == [v \in S |-> Rank(S, v)]
<1>1. n \in Nat /\ IsFiniteSet(S)
  BY FS_CardinalityType DEF Positioned
<1> HIDE DEF n
<1>2. \A v \in S : Rank(S, v) \in 0 .. n - 1
  BY <1>1, OlderAndNewer DEF n
<1>3. \A v, w \in S : Rank(S, v) = Rank(S, w) => v = w
  <2> SUFFICES ASSUME NEW v \in S, NEW w \in S, Rank(S, v) = Rank(S, w) PROVE v = w
    OBVIOUS
  <2>1. ~(v.pos < w.pos) /\ ~(w.pos < v.pos)
    BY <1>1, <1>2, RankGrows
  <2> QED BY <2>1 DEF Positioned
<1>4. f \in Injection(S, 0 .. n - 1)
  BY <1>2, <1>3 DEF Injection, IsInjective
<1>5. IsFiniteSet(0 .. n - 1) /\ Cardinality(0 .. n - 1) = n
  BY <1>1, FS_Interval
<1>6. f \in Surjection(S, 0 .. n - 1)
  <2> HIDE DEF f
  <2> QED BY <1>4, <1>5, FS_Injection DEF n
<1>7. \A k \in 0 .. n - 1 : \E v \in S : f[v] = k
  BY <1>6 DEF Surjection
<1> QED BY <1>1, <1>2, <1>3, <1>7 DEF n

\* The elements of rank below m are m, when there are as many.
LEMMA LowRanks ==
  ASSUME NEW S, Positioned(S), NEW m \in 0 .. Cardinality(S)
  PROVE  Cardinality({v \in S : Rank(S, v) < m}) = m
<1> DEFINE T == {v \in S : Rank(S, v) < m}
           f == [v \in T |-> Rank(S, v)]
<1>1. /\ \A v \in T : Rank(S, v) \in 0 .. m - 1
      /\ \A v, w \in T : Rank(S, v) = Rank(S, w) => v = w
      /\ \A k \in 0 .. m - 1 : \E v \in T : Rank(S, v) = k
  BY Ranks
<1>2. f \in Bijection(T, 0 .. m - 1)
  <2> HIDE DEF T
  <2> QED BY <1>1 DEF Bijection, Injection, Surjection, IsInjective
<1>3. ExistsBijection(T, 0 .. m - 1)
  <2> HIDE DEF f
  <2> QED BY <1>2 DEF ExistsBijection
<1>4. IsFiniteSet(T)
  BY FS_Subset DEF Positioned
<1>5. Cardinality(0 .. m - 1) = m
  BY Ranks, FS_Interval
<1> HIDE DEF T
<1> QED BY <1>3, <1>4, <1>5, FS_Bijection DEF T
-----------------------------------------------------------------------------
(* The elements of a set of numbers, counted from the smallest.            *)

\* How many elements of S are not above i.
Place(S, i) == Cardinality({j \in S : j <= i})

\* The places of a set of numbers are 1, 2, ... up to its size, each once, and in
\* an initial segment every number is its own place.
LEMMA Places ==
  ASSUME NEW n \in Nat, NEW S, S \subseteq 1 .. n
  PROVE  /\ IsFiniteSet(S) /\ Cardinality(S) \in Nat
         /\ \A i \in S : Place(S, i) \in 1 .. Cardinality(S)
         /\ \A i, j \in S : Place(S, i) = Place(S, j) => i = j
         /\ \A k \in 1 .. Cardinality(S) : \E i \in S : Place(S, i) = k
         /\ \A k \in S : 1 .. k \subseteq S => Place(S, k) = k
<1> DEFINE m == Cardinality(S)
           upTo(i) == {j \in S : j <= i}
           f == [i \in S |-> Place(S, i)]
<1>0. IsFiniteSet(1 .. n) /\ \A i \in S : i \in 1 .. n
  BY FS_Interval
<1>1. IsFiniteSet(S) /\ m \in Nat
  BY <1>0, FS_Subset, FS_CardinalityType
<1>2. \A i \in S : /\ IsFiniteSet(upTo(i)) /\ upTo(i) \in SUBSET S
                   /\ Cardinality(upTo(i)) \in Nat /\ Cardinality(upTo(i)) <= m
  BY <1>1, FS_Subset, FS_CardinalityType
<1> HIDE DEF m
<1>3. ASSUME NEW i \in S, NEW j \in S, i < j PROVE Place(S, i) < Place(S, j)
  <2>1. upTo(i) \subseteq upTo(j) /\ j \in upTo(j) /\ j \notin upTo(i)
    <3>1. i \in Int /\ j \in Int /\ \A x \in S : x \in Int
      BY <1>0
    <3>2. j \in upTo(j) /\ j \notin upTo(i)
      BY <1>3, <3>1
    <3>3. ASSUME NEW x \in S, x <= i PROVE x <= j
      BY <1>3, <3>1, <3>3
    <3> QED BY <3>2, <3>3
  <2>2. /\ Cardinality(upTo(i)) <= Cardinality(upTo(j))
        /\ Cardinality(upTo(i)) = Cardinality(upTo(j)) => upTo(i) = upTo(j)
    <3> HIDE DEF upTo
    <3> QED BY <1>2, <2>1, FS_Subset
  <2> QED BY <1>2, <2>1, <2>2 DEF Place
<1>4. \A i, j \in S : Place(S, i) = Place(S, j) => i = j
  <2> SUFFICES ASSUME NEW i \in S, NEW j \in S, Place(S, i) = Place(S, j) PROVE i = j
    OBVIOUS
  <2>1. ~(i < j) /\ ~(j < i)
    BY <1>2, <1>3 DEF Place
  <2> QED BY <2>1
<1>5. \A i \in S : Place(S, i) \in 1 .. m
  <2> SUFFICES ASSUME NEW i \in S PROVE Place(S, i) \in 1 .. m
    OBVIOUS
  <2>1. i \in upTo(i)
    OBVIOUS
  <2>2. Cardinality(upTo(i)) # 0
    <3> HIDE DEF upTo
    <3> QED BY <1>2, <2>1, FS_EmptySet
  <2> QED BY <1>1, <1>2, <2>2 DEF Place
<1>6. f \in Injection(S, 1 .. m)
  BY <1>4, <1>5 DEF Injection, IsInjective
<1>7. IsFiniteSet(1 .. m) /\ Cardinality(1 .. m) = m
  BY <1>1, FS_Interval
<1>8. f \in Surjection(S, 1 .. m)
  <2> HIDE DEF f
  <2> QED BY <1>1, <1>6, <1>7, FS_Injection DEF m
<1>9. \A k \in 1 .. m : \E i \in S : f[i] = k
  BY <1>8 DEF Surjection
<1>10. ASSUME NEW k \in S, 1 .. k \subseteq S PROVE Place(S, k) = k
  <2>0. k \in Nat /\ \A x \in S : x \in Nat \ {0}
    BY <1>0
  <2>1. upTo(k) = 1 .. k /\ k \in Nat
    <3>1. ASSUME NEW x \in upTo(k) PROVE x \in 1 .. k
      BY <2>0, <3>1
    <3>2. ASSUME NEW x \in 1 .. k PROVE x \in upTo(k)
      BY <1>10, <2>0, <3>2
    <3> QED BY <2>0, <3>1, <3>2
  <2>2. Cardinality(1 .. k) = k
    BY <2>1, FS_Interval
  <2> QED BY <2>1, <2>2 DEF Place
<1> QED BY <1>1, <1>4, <1>5, <1>9, <1>10 DEF m
=============================================================================
