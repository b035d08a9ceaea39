-------------------------- MODULE OrderedSetsProofs --------------------------
(***************************************************************************)
(* Facts about sets of natural numbers that the other proofs share: least  *)
(* and greatest elements, which is how these proofs do induction, and what *)
(* InOrder returns.                                                        *)
(***************************************************************************)
EXTENDS OrderedSets, FiniteSetTheorems, WellFoundedInduction, TLAPS

\* A nonempty set of naturals has a least element.
LEMMA LeastNatural ==
    ASSUME NEW T \in SUBSET Nat, T # {}
    PROVE  \E x \in T : \A y \in T : x <= y
<1> DEFINE R == OpToRel(<, Nat)
<1>1. \E x \in T : \A y \in T : ~(<<y, x>> \in R)
  BY NatLessThanWellFounded, WFMin
<1>2. \A x, y \in Nat : <<y, x>> \in R <=> y < x
  BY DEF OpToRel
<1> HIDE DEF R
<1>3. PICK x \in T : \A y \in T : ~(<<y, x>> \in R)
  BY <1>1
<1>4. ASSUME NEW y \in T PROVE x <= y
  <2>1. x \in Nat /\ y \in Nat
    OBVIOUS
  <2>2. ~(y < x)
    BY <1>2, <1>3, <2>1
  <2> QED BY <2>1, <2>2
<1> QED BY <1>4

\* A nonempty set of naturals with an upper bound has a greatest element.
LEMMA GreatestNatural ==
    ASSUME NEW T \in SUBSET Nat, T # {}, NEW bound \in Nat, \A x \in T : x <= bound
    PROVE  \E x \in T : \A y \in T : y <= x
<1> DEFINE D == {bound - x : x \in T}
<1>1. D \in SUBSET Nat /\ D # {}
  <2>1. \A x \in T : bound - x \in Nat
    OBVIOUS
  <2>2. PICK x : x \in T
    OBVIOUS
  <2>3. bound - x \in D
    BY <2>2
  <2> QED BY <2>1, <2>3
<1>2. PICK d \in D : \A y \in D : d <= y
  BY <1>1, LeastNatural
<1>3. PICK x \in T : d = bound - x
  BY <1>2
<1>4. ASSUME NEW y \in T PROVE y <= x
  <2>1. bound - y \in D
    OBVIOUS
  <2>2. d <= bound - y
    BY <1>2, <2>1
  <2>3. x \in Nat /\ y \in Nat
    OBVIOUS
  <2> QED BY <1>3, <2>2, <2>3
<1> QED BY <1>4

-----------------------------------------------------------------------------

\* Positions run from zero and grow with the members.
LEMMA PositionGrows ==
    ASSUME NEW S \in SUBSET Nat, IsFiniteSet(S)
    PROVE  /\ \A x \in S : Position(S, x) \in 0..(Cardinality(S) - 1)
           /\ \A x \in S, y \in Nat : x < y => Position(S, x) < Position(S, y)
           /\ \A x, y \in Nat : x <= y => Position(S, x) <= Position(S, y)
<1> DEFINE below(x) == {y \in S : y < x}
<1>1. \A x : IsFiniteSet(below(x)) /\ Cardinality(below(x)) \in Nat /\ Position(S, x) = Cardinality(below(x))
  BY FS_Subset, FS_CardinalityType DEF Position
<1>2. Cardinality(S) \in Nat
  BY FS_CardinalityType
<1>3. ASSUME NEW x \in S PROVE Position(S, x) \in 0..(Cardinality(S) - 1)
  <2>1. below(x) \subseteq S \ {x}
    BY DEF below
  <2>2. IsFiniteSet(S \ {x}) /\ Cardinality(S \ {x}) = Cardinality(S) - 1
    BY FS_RemoveElement
  <2>3. Cardinality(below(x)) <= Cardinality(S) - 1
    BY <2>1, <2>2, FS_Subset
  <2> QED BY <1>1, <1>2, <2>3
<1>4. ASSUME NEW x \in S, NEW y \in Nat, x < y PROVE Position(S, x) < Position(S, y)
  <2>1. below(x) \subseteq below(y) /\ x \in below(y) /\ x \notin below(x)
    <3>1. x \in Nat /\ \A z \in S : z \in Nat
      OBVIOUS
    <3>2. \A z \in S : z < x => z < y
      BY <1>4, <3>1
    <3>3. ~(x < x)
      BY <3>1
    <3> QED BY <1>4, <3>2, <3>3
  <2>2. Cardinality(below(x)) <= Cardinality(below(y)) /\ Cardinality(below(x)) # Cardinality(below(y))
    <3> HIDE DEF below
    <3>1. IsFiniteSet(below(y))
      BY <1>1
    <3> QED BY <2>1, <3>1, FS_Subset
  <2> QED BY <1>1, <2>2
<1>5. ASSUME NEW x \in Nat, NEW y \in Nat, x <= y PROVE Position(S, x) <= Position(S, y)
  <2>1. below(x) \subseteq below(y)
    <3>1. \A z \in S : z \in Nat
      OBVIOUS
    <3>2. \A z \in S : z < x => z < y
      BY <1>5, <3>1
    <3> QED BY <3>2
  <2>2. Cardinality(below(x)) <= Cardinality(below(y))
    <3> HIDE DEF below
    <3>1. IsFiniteSet(below(y))
      BY <1>1
    <3> QED BY <2>1, <3>1, FS_Subset
  <2> QED BY <1>1, <2>2
<1> QED BY <1>3, <1>4, <1>5

\* Every position is somebody's.
LEMMA PositionTaken ==
    ASSUME NEW S \in SUBSET Nat, IsFiniteSet(S), NEW i \in 1..Cardinality(S)
    PROVE  \E x \in S : Position(S, x) = i - 1
<1> DEFINE n == Cardinality(S)
           f == [x \in S |-> Position(S, x) + 1]
<1>1. n \in Nat
  BY FS_CardinalityType
<1>2. f \in [S -> 1..n]
  BY <1>1, PositionGrows
<1>3. \A x, y \in S : f[x] = f[y] => x = y
  <2> SUFFICES ASSUME NEW x \in S, NEW y \in S, x # y PROVE f[x] # f[y]
    OBVIOUS
  <2>1. x < y \/ y < x
    OBVIOUS
  <2>2. Position(S, x) # Position(S, y) /\ Position(S, x) \in Nat /\ Position(S, y) \in Nat
    BY <1>1, <2>1, PositionGrows
  <2> QED BY <2>2
<1>4. f \in Injection(S, 1..n)
  BY <1>2, <1>3 DEF Injection, IsInjective
<1>5. IsFiniteSet(1..n) /\ Cardinality(1..n) = n
  BY <1>1, FS_Interval
<1>6. f \in Surjection(S, 1..n)
  BY <1>4, <1>5, FS_Injection
<1>7. PICK x \in S : f[x] = i
  BY <1>6 DEF Surjection
<1> QED BY <1>2, <1>7, <1>1, PositionGrows

\* InOrder lists the members of S, each at its position.
LEMMA InOrderLists ==
    ASSUME NEW S \in SUBSET Nat, IsFiniteSet(S)
    PROVE  /\ InOrder(S) \in Seq(S)
           /\ Len(InOrder(S)) = Cardinality(S) /\ Cardinality(S) \in Nat
           /\ \A i \in 1..Cardinality(S) : InOrder(S)[i] \in S /\ Position(S, InOrder(S)[i]) = i - 1
           /\ \A x \in S : Position(S, x) + 1 \in 1..Cardinality(S) /\ InOrder(S)[Position(S, x) + 1] = x
<1> DEFINE n == Cardinality(S)
<1>1. n \in Nat
  BY FS_CardinalityType
<1>2. ASSUME NEW i \in 1..n PROVE InOrder(S)[i] \in S /\ Position(S, InOrder(S)[i]) = i - 1
  BY PositionTaken DEF InOrder
<1>3. ASSUME NEW x \in S PROVE Position(S, x) + 1 \in 1..n /\ InOrder(S)[Position(S, x) + 1] = x
  <2>1. Position(S, x) + 1 \in 1..n
    BY <1>1, PositionGrows
  <2>2. PICK i \in 1..n : i = Position(S, x) + 1
    BY <2>1
  <2> DEFINE y == InOrder(S)[i]
  <2>3. y \in S /\ Position(S, y) = Position(S, x)
    <3>1. y \in S /\ Position(S, y) = i - 1
      BY <1>2
    <3>2. Position(S, x) \in 0..(n - 1)
      BY PositionGrows
    <3> HIDE DEF y
    <3> QED BY <1>1, <2>2, <3>1, <3>2
  <2> HIDE DEF y
  <2>4. x \in Nat /\ y \in Nat /\ Position(S, x) \in 0..(n - 1)
    BY <2>3, PositionGrows
  <2>5. x = y
    <3>1. x < y => Position(S, x) < Position(S, y)
      BY <2>4, PositionGrows
    <3>2. y < x => Position(S, y) < Position(S, x)
      BY <2>3, <2>4, PositionGrows
    <3> QED BY <1>1, <2>3, <2>4, <3>1, <3>2
  <2> QED BY <2>1, <2>2, <2>5 DEF y
<1>4. InOrder(S) \in [1..n -> S]
  BY <1>2 DEF InOrder
<1>5. InOrder(S) \in Seq(S) /\ Len(InOrder(S)) = n
  BY <1>1, <1>4
<1> QED BY <1>1, <1>2, <1>3, <1>5
=============================================================================
