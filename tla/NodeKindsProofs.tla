--------------------------- MODULE NodeKindsProofs ---------------------------
(***************************************************************************)
(* Facts about the ladder of node types, about the ascending enumeration   *)
(* of a set of bytes (Rank, HasNth, Nth), and about least elements, for    *)
(* all capacities.                                                         *)
(***************************************************************************)
EXTENDS NodeKinds, FiniteSetTheorems, TLAPS

\* A non-empty set of natural numbers has a least element.
LEMMA LeastNumber ==
  ASSUME NEW S, S \subseteq Nat, S # {}
  PROVE  \E x \in S : \A y \in S : x <= y
<1>1. PICK x \in S : \A y \in S : <<y, x>> \notin OpToRel(<, Nat)
  BY WFMin, NatLessThanWellFounded
<1>2. \A y \in S : ~ (y < x)
  BY <1>1 DEF OpToRel
<1>3. QED
  BY <1>2

\* x % m is x below m: what the counters' widths rest on.
LEMMA SmallRemainder ==
  ASSUME NEW m \in Nat \ {0}, NEW x \in 0 .. m - 1
  PROVE  x % m = x
  OBVIOUS

\* There are node256Capacity bytes, and each is a number.
LEMMA ByteFinite ==
  /\ Byte \in SUBSET Nat /\ \A b \in Byte : b \in Nat
  /\ IsFiniteSet(Byte)
  /\ Cardinality(Byte) = node256Capacity
<1>1. node256Capacity - 1 \in Int /\ node256Capacity > 0
  BY CapacityAssumption
<1>2. QED
  BY <1>1, FS_Interval, CapacityAssumption DEF Byte

-----------------------------------------------------------------------------
\* Rank is the number of smaller elements: below the size of the set, and
\* strictly increasing along it.
LEMMA RankRange ==
  ASSUME NEW S, S \subseteq Nat, IsFiniteSet(S), NEW b \in S
  PROVE  Rank(S, b) \in 0 .. Cardinality(S) - 1
<1> DEFINE T == {c \in S : c < b}
<1>1. T \in SUBSET S /\ b \notin T
  OBVIOUS
<1>2. IsFiniteSet(T) /\ Cardinality(T) <= Cardinality(S) /\ Cardinality(T) # Cardinality(S)
  BY <1>1, FS_Subset
<1>3. Cardinality(T) \in Nat /\ Cardinality(S) \in Nat
  BY <1>2, FS_CardinalityType
<1>4. Rank(S, b) = Cardinality(T)
  BY DEF Rank
<1> HIDE DEF T
<1>5. QED
  BY <1>2, <1>3, <1>4

\* A larger element has a larger rank.
LEMMA RankIncreases ==
  ASSUME NEW S, S \subseteq Nat, IsFiniteSet(S), NEW b \in S, NEW c \in S, b < c
  PROVE  Rank(S, b) < Rank(S, c)
<1> DEFINE T == {x \in S : x < b}
           U == {x \in S : x < c}
<1>1. IsFiniteSet(U)
  BY FS_Subset
<1>2. T \in SUBSET U /\ b \in U /\ b \notin T
  <2>1. b \in Nat /\ c \in Nat /\ \A x \in S : x \in Nat
    OBVIOUS
  <2>2. \A x \in S : x < b => x < c
    BY <2>1
  <2>3. ~ (b < b)
    BY <2>1
  <2>4. QED
    BY <2>2, <2>3
<1>3. IsFiniteSet(T) /\ Cardinality(T) <= Cardinality(U) /\ Cardinality(T) # Cardinality(U)
  BY <1>1, <1>2, FS_Subset
<1>4. Cardinality(T) \in Nat /\ Cardinality(U) \in Nat
  BY <1>1, <1>3, FS_CardinalityType
<1>5. Rank(S, b) = Cardinality(T) /\ Rank(S, c) = Cardinality(U)
  BY DEF Rank
<1> HIDE DEF T, U
<1>6. QED
  BY <1>3, <1>4, <1>5

\* Distinct elements have distinct ranks.
LEMMA RankInjective ==
  ASSUME NEW S, S \subseteq Nat, IsFiniteSet(S), NEW b \in S, NEW c \in S,
         Rank(S, b) = Rank(S, c)
  PROVE  b = c
<1>1. b \in Nat /\ c \in Nat
  OBVIOUS
<1>2. CASE b < c
  <2>1. Rank(S, b) < Rank(S, c)
    BY <1>2, RankIncreases
  <2>2. Rank(S, b) \in Int
    <3>1. Rank(S, b) \in 0 .. Cardinality(S) - 1
      BY RankRange
    <3>2. QED
      BY <3>1
  <2>3. QED
    BY <2>1, <2>2
<1>3. CASE c < b
  <2>1. Rank(S, c) < Rank(S, b)
    BY <1>3, RankIncreases
  <2>2. Rank(S, b) \in Int
    <3>1. Rank(S, b) \in 0 .. Cardinality(S) - 1
      BY RankRange
    <3>2. QED
      BY <3>1
  <2>3. QED
    BY <2>1, <2>2
<1>4. QED
  BY <1>1, <1>2, <1>3

\* The enumeration of a finite set: an element of every rank below its size,
\* none beyond.
LEMMA NthElement ==
  ASSUME NEW S, S \subseteq Nat, IsFiniteSet(S), NEW i \in Nat
  PROVE  /\ HasNth(S, i) <=> i < Cardinality(S)
         /\ HasNth(S, i) => Nth(S, i) \in S /\ Rank(S, Nth(S, i)) = i
<1> DEFINE k == Cardinality(S)
           K == 0 .. k - 1
           f == [b \in S |-> Rank(S, b)]
<1>1. k \in Nat
  BY FS_CardinalityType
<1>2. \A b \in S : Rank(S, b) \in K
  BY RankRange
<1>3. \A b, c \in S : Rank(S, b) = Rank(S, c) => b = c
  BY RankInjective
<1>4. IsFiniteSet(K) /\ Cardinality(K) = k
  <2>1. 0 \in Int /\ k - 1 \in Int
    BY <1>1
  <2>2. IsFiniteSet(K) /\ Cardinality(K) = IF 0 > k - 1 THEN 0 ELSE k - 1 - 0 + 1
    BY <2>1, FS_Interval
  <2> HIDE DEF K
  <2>3. QED
    BY <2>2, <1>1
<1> HIDE DEF k, K
<1>5. f \in Injection(S, K)
  BY <1>2, <1>3 DEF Injection, IsInjective
<1>6. f \in Surjection(S, K)
  <2>1. Cardinality(S) = Cardinality(K)
    BY <1>4 DEF k
  <2>2. QED
    BY <1>4, <1>5, <2>1, FS_Injection
<1>7. \A j \in K : \E b \in S : Rank(S, b) = j
  BY <1>6 DEF Surjection
<1>8. HasNth(S, i) <=> i \in K
  BY <1>2, <1>7 DEF HasNth
<1>9. i \in K <=> i < k
  BY <1>1 DEF K
<1>10. HasNth(S, i) => Nth(S, i) \in S /\ Rank(S, Nth(S, i)) = i
  BY DEF HasNth, Nth
<1>11. QED
  BY <1>8, <1>9, <1>10 DEF k

\* Enumeration and rank are inverse to each other, and ascending.
LEMMA NthOfRank ==
  ASSUME NEW S, S \subseteq Nat, IsFiniteSet(S), NEW b \in S
  PROVE  HasNth(S, Rank(S, b)) /\ Nth(S, Rank(S, b)) = b
<1> DEFINE i == Rank(S, b)
<1>1. i \in Nat
  <2>1. Rank(S, b) \in 0 .. Cardinality(S) - 1
    BY RankRange
  <2>2. QED
    BY <2>1
<1>2. HasNth(S, i)
  BY DEF HasNth
<1> HIDE DEF i
<1>3. Nth(S, i) \in S /\ Rank(S, Nth(S, i)) = i
  BY <1>1, <1>2, NthElement
<1>4. Nth(S, i) = b
  BY <1>3, RankInjective DEF i
<1>5. QED
  BY <1>2, <1>4 DEF i

\* The enumeration ascends: slot order is byte order.
LEMMA NthIncreases ==
  ASSUME NEW S, S \subseteq Nat, IsFiniteSet(S), NEW i \in Nat, NEW j \in Nat,
         i < j, j < Cardinality(S)
  PROVE  Nth(S, i) < Nth(S, j)
<1> DEFINE x == Nth(S, i)
           y == Nth(S, j)
<1>1. i < Cardinality(S)
  <2>1. Cardinality(S) \in Nat
    BY FS_CardinalityType
  <2>2. QED
    BY <2>1
<1>2. x \in S /\ Rank(S, x) = i
  BY <1>1, NthElement
<1>3. y \in S /\ Rank(S, y) = j
  BY NthElement
<1> HIDE DEF x, y
<1>4. x # y
  BY <1>2, <1>3
<1>5. ~ (y < x)
  <2>1. SUFFICES ASSUME y < x PROVE FALSE
    OBVIOUS
  <2>2. Rank(S, y) < Rank(S, x)
    BY <2>1, <1>2, <1>3, RankIncreases
  <2>3. QED
    BY <2>2, <1>2, <1>3
<1>6. x \in Nat /\ y \in Nat
  BY <1>2, <1>3
<1>7. QED
  BY <1>4, <1>5, <1>6 DEF x, y
=============================================================================
