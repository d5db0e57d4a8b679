--------------------------- MODULE ArtSortedProofs ---------------------------
(***************************************************************************)
(* Min, Max, Ceiling and Floor find the least or the greatest key there    *)
(* is, in every whole tree and for every target.                           *)
(***************************************************************************)
EXTENDS ArtSorted, TreeShapeProofs
-----------------------------------------------------------------------------
(***************************************************************************)
(* Least and greatest keys of a set.                                       *)
(***************************************************************************)
\* A finite set of byte strings has a least and a greatest element.
LEMMA ExtremesExist ==
  ASSUME NEW S \in SUBSET Path, IsFiniteSet(S)
  PROVE  (\E x : LeastOf(S, x)) /\ (\E x : GreatestOf(S, x))
<1>1. CASE S = {}
  BY <1>1 DEF LeastOf, GreatestOf
<1>2. CASE S # {}
  <2>1. \E k \in S : \A j \in S : ~ Less(j, k)
    <3> DEFINE Before(k) == {j \in S : Less(j, k)}
               N == {Cardinality(Before(k)) : k \in S}
    <3>1. \A k \in S : IsFiniteSet(Before(k)) /\ Cardinality(Before(k)) \in Nat
      BY FS_Subset, FS_CardinalityType
    <3>2. N \subseteq Nat /\ N # {}
      BY <1>2, <3>1
    <3>3. PICK k \in S : \A j \in S : Cardinality(Before(k)) <= Cardinality(Before(j))
      <4>1. PICK n \in N : \A m \in N : n <= m
        BY <3>2, LeastNumber
      <4> QED BY <4>1
    <3>4. ASSUME NEW j \in S, Less(j, k) PROVE FALSE
      <4>1. Before(j) \in SUBSET Before(k) /\ j \in Before(k) /\ j \notin Before(j)
        BY <3>4, LessOrder
      <4>2. Cardinality(Before(j)) <= Cardinality(Before(k))
            /\ Cardinality(Before(j)) # Cardinality(Before(k))
        BY <3>1, <4>1, FS_Subset
      <4>3. Cardinality(Before(j)) \in Nat /\ Cardinality(Before(k)) \in Nat
            /\ Cardinality(Before(k)) <= Cardinality(Before(j))
        BY <3>1, <3>3
      <4> HIDE DEF Before
      <4> QED BY <4>2, <4>3
    <3> QED BY <3>4
  <2>2. \E k \in S : \A j \in S : ~ Less(k, j)
    <3> DEFINE After(k) == {j \in S : Less(k, j)}
               N == {Cardinality(After(k)) : k \in S}
    <3>1. \A k \in S : IsFiniteSet(After(k)) /\ Cardinality(After(k)) \in Nat
      BY FS_Subset, FS_CardinalityType
    <3>2. N \subseteq Nat /\ N # {}
      BY <1>2, <3>1
    <3>3. PICK k \in S : \A j \in S : Cardinality(After(k)) <= Cardinality(After(j))
      <4>1. PICK n \in N : \A m \in N : n <= m
        BY <3>2, LeastNumber
      <4> QED BY <4>1
    <3>4. ASSUME NEW j \in S, Less(k, j) PROVE FALSE
      <4>1. After(j) \in SUBSET After(k) /\ j \in After(k) /\ j \notin After(j)
        BY <3>4, LessOrder
      <4>2. Cardinality(After(j)) <= Cardinality(After(k))
            /\ Cardinality(After(j)) # Cardinality(After(k))
        BY <3>1, <4>1, FS_Subset
      <4>3. Cardinality(After(j)) \in Nat /\ Cardinality(After(k)) \in Nat
            /\ Cardinality(After(k)) <= Cardinality(After(j))
        BY <3>1, <3>3
      <4> HIDE DEF After
      <4> QED BY <4>2, <4>3
    <3> QED BY <3>4
  <2>3. ASSUME NEW k \in S, \A j \in S : ~ Less(j, k) PROVE LeastOf(S, Leaf(k))
    BY <2>3, LessOrder DEF LeastOf
  <2>4. ASSUME NEW k \in S, \A j \in S : ~ Less(k, j) PROVE GreatestOf(S, Leaf(k))
    BY <2>4, LessOrder DEF GreatestOf
  <2> QED BY <2>1, <2>2, <2>3, <2>4
<1> QED BY <1>1, <1>2

\* It has only one of each.
LEMMA ExtremesUnique ==
  ASSUME NEW S \in SUBSET Path
  PROVE  /\ \A x, y : LeastOf(S, x) /\ LeastOf(S, y) => x = y
         /\ \A x, y : GreatestOf(S, x) /\ GreatestOf(S, y) => x = y
  BY LessOrder DEF LeastOf, GreatestOf

\* Of two sets, one before the other, the least element is that of the first, or
\* of the second if the first is empty.
LEMMA ExtremesJoin ==
  ASSUME NEW A \in SUBSET Path, NEW B \in SUBSET Path,
         \A a \in A, b \in B : Less(a, b)
  PROVE  /\ \A x, y : LeastOf(A, x) /\ LeastOf(B, y) =>
              LeastOf(A \cup B, IF x # nil THEN x ELSE y)
         /\ \A x, y : GreatestOf(A, x) /\ GreatestOf(B, y) =>
              GreatestOf(A \cup B, IF y # nil THEN y ELSE x)
<1>1. \A k \in Path : Leaf(k) # nil
  BY RefKinds
<1>2. /\ \A S \in SUBSET Path : \A x : LeastOf(S, x) => (x = nil <=> S = {})
      /\ \A S \in SUBSET Path : \A x : GreatestOf(S, x) => (x = nil <=> S = {})
  BY <1>1 DEF LeastOf, GreatestOf
<1>3. ASSUME NEW x, NEW y, LeastOf(A, x), LeastOf(B, y)
      PROVE  LeastOf(A \cup B, IF x # nil THEN x ELSE y)
  <2>1. CASE A = {}
    BY <1>2, <1>3, <2>1
  <2>2. CASE A # {}
    <3>1. PICK k \in A : x = Leaf(k) /\ \A j \in A \ {k} : Less(k, j)
      BY <1>3, <2>2 DEF LeastOf
    <3>2. \A j \in (A \cup B) \ {k} : Less(k, j)
      BY <3>1
    <3> QED BY <1>1, <3>1, <3>2 DEF LeastOf
  <2> QED BY <2>1, <2>2
<1>4. ASSUME NEW x, NEW y, GreatestOf(A, x), GreatestOf(B, y)
      PROVE  GreatestOf(A \cup B, IF y # nil THEN y ELSE x)
  <2>1. CASE B = {}
    BY <1>2, <1>4, <2>1
  <2>2. CASE B # {}
    <3>1. PICK k \in B : y = Leaf(k) /\ \A j \in B \ {k} : Less(j, k)
      BY <1>4, <2>2 DEF GreatestOf
    <3>2. \A j \in (A \cup B) \ {k} : Less(j, k)
      BY <3>1
    <3> QED BY <1>1, <3>1, <3>2 DEF GreatestOf
  <2> QED BY <2>1, <2>2
<1> QED BY <1>3, <1>4
-----------------------------------------------------------------------------
(***************************************************************************)
(* The nodes of a whole tree and the keys behind them.                     *)
(***************************************************************************)
TreeOK ==
  stored \in SUBSET Path /\ IsFiniteSet(stored) /\ Whole(nodes, stored, root)

Behind(r) == {k \in stored : r # nil /\ Starts(r.at, k) /\ (IsLeaf(r) => k = r.at)}

\* The keys behind the edges in S of the node r.
Through(r, S) == {k \in stored : \E b \in S : Starts(Append(r.at, b), k)}

\* A reference is nil, a leaf or a node.
LEMMA RefTypes ==
  ASSUME TreeOK
  PROVE  /\ nil \in Refs /\ root \in Refs /\ DOMAIN nodes \subseteq InnerRefs
         /\ \A r \in Refs : IsInner(r) <=> r \in DOMAIN nodes
         /\ \A r \in Refs : r = nil \/ r \in DOMAIN nodes
                            \/ (IsLeaf(r) /\ r = Leaf(r.at) /\ r.at \in stored)
<1>1. DOMAIN nodes \subseteq InnerRefs
  BY LinkedTypes DEF TreeOK, Whole
<1>2. /\ \A k \in stored : ~ IsInner(Leaf(k)) /\ Leaf(k) \notin InnerRefs
                           /\ IsLeaf(Leaf(k)) /\ Leaf(k).at = k
      /\ \A r \in InnerRefs : IsInner(r)
      /\ ~ IsInner(nil)
  BY RefKinds DEF TreeOK
<1>3. root \in Refs
  BY DEF TreeOK, Whole, SlotOK, NodeSlot, LeafSlot, Refs
<1>4. \A r \in Refs : r = nil \/ r \in DOMAIN nodes \/ \E k \in stored : r = Leaf(k)
  BY DEF Refs
<1>5. nil \in Refs
  BY DEF Refs
<1>6. nil \notin DOMAIN nodes
  BY <1>1, <1>2
<1> QED BY <1>1, <1>2, <1>3, <1>4, <1>5, <1>6

\* A slot holds the keys that begin with its path.
LEMMA SlotHolds ==
  ASSUME TreeOK, NEW path \in Path, NEW c, SlotOK(nodes, stored, c, path)
  PROVE  /\ c \in Refs /\ Behind(c) = Under(stored, path)
         /\ c # nil => Behind(c) # {}
         /\ c \in DOMAIN nodes => c.at \in Path /\ Starts(path, c.at)
<1>1. DOMAIN nodes \subseteq InnerRefs /\ stored \in SUBSET Path
  BY RefTypes DEF TreeOK
<1>2. /\ c = nil => EmptySlot(nodes, stored, path)
      /\ IsLeaf(c) => c = Leaf(c.at) /\ LeafSlot(nodes, stored, c.at, path)
      /\ IsInner(c) => NodeSlot(nodes, stored, c, path)
      /\ c = nil \/ IsLeaf(c) \/ IsInner(c)
  BY <1>1, SlotKinds
<1>3. CASE c = nil
  BY <1>1, <1>2, <1>3, RefKinds DEF Refs, Behind, Under, EmptySlot
<1>4. CASE c # nil /\ IsLeaf(c)
  <2>1. c = Leaf(c.at) /\ c.at \in stored /\ Starts(path, c.at)
        /\ \A k \in stored : Starts(path, k) => k = c.at
    BY <1>2, <1>4 DEF LeafSlot
  <2>2. Starts(c.at, c.at) /\ c \notin InnerRefs
    BY <1>1, <2>1, StartsOrder, RefKinds
  <2>3. c.at \in Behind(c) /\ Behind(c) = {c.at} /\ Under(stored, path) = {c.at}
    BY <1>4, <2>1, <2>2 DEF Behind, Under
  <2> QED BY <1>1, <2>1, <2>2, <2>3 DEF Refs
<1>5. CASE c # nil /\ IsInner(c)
  <2>1. c \in DOMAIN nodes /\ Starts(path, c.at) /\ c.at \in Path /\ ~ IsLeaf(c)
        /\ \A k \in stored : Starts(path, k) => Starts(c.at, k)
    BY <1>1, <1>2, <1>5, RefKinds DEF NodeSlot
  <2>2. \A k \in stored : Starts(c.at, k) => Starts(path, k)
    BY <1>1, <2>1, StartsOrder
  <2>3. Behind(c) = Under(stored, path)
    BY <1>5, <2>1, <2>2 DEF Behind, Under
  <2>4. \E k \in stored : Starts(c.at, k)
    BY <2>1 DEF TreeOK, Whole, AllFull, Inhabited
  <2>5. Behind(c) # {}
    BY <1>5, <2>1, <2>4 DEF Behind
  <2> QED BY <2>1, <2>3, <2>5 DEF Refs
<1> QED BY <1>2, <1>3, <1>4, <1>5

\* The slots of a node, and its terminal.
LEMMA NodeParts ==
  ASSUME TreeOK, NEW r \in DOMAIN nodes
  PROVE  /\ r.at \in Path /\ IsInner(r) /\ ~ IsLeaf(r) /\ r # nil /\ r \in Refs
         /\ nodes[r].terminal = IF r.at \in stored THEN Leaf(r.at) ELSE nil
         /\ nodes[r].prefix \in Path
         /\ Edges(r) \subseteq Byte /\ Edges(r) # {}
         /\ \A b \in Edges(r) : nodes[r].children[b] # nil
         /\ \A b \in Byte : /\ Append(r.at, b) \in Path
                            /\ FindChild(r, b) = ChildIn(nodes, r, b)
                            /\ SlotOK(nodes, stored, FindChild(r, b), Append(r.at, b))
<1>1. r \in InnerRefs /\ NodeOK(nodes, stored, r)
  BY RefTypes DEF TreeOK, Whole, Linked
<1>2. /\ r.at \in Path /\ IsInner(r) /\ ~ IsLeaf(r) /\ r # nil /\ r \in Refs
  BY <1>1, RefKinds DEF Refs
<1>3. /\ nodes[r].terminal = IF r.at \in stored THEN Leaf(r.at) ELSE nil
      /\ nodes[r].prefix \in Path
      /\ Edges(r) \subseteq Byte
      /\ \A b \in Edges(r) : nodes[r].children[b] # nil
  BY <1>1 DEF NodeOK, Edges
<1>4. Edges(r) # {}
  <2>1. Count(nodes[r].children) # 0
    BY DEF TreeOK, Whole, AllFull, Full
  <2> QED BY <2>1, FS_EmptySet DEF Count, Edges
<1>5. ASSUME NEW b \in Byte
      PROVE  /\ Append(r.at, b) \in Path
             /\ FindChild(r, b) = ChildIn(nodes, r, b)
             /\ SlotOK(nodes, stored, FindChild(r, b), Append(r.at, b))
  <2>1. Append(r.at, b) \in Path /\ Append(r.at, b) # <<>>
    BY <1>2, AppendStarts
  <2>2. FindChild(r, b) = ChildIn(nodes, r, b)
    BY DEF FindChild, ChildIn, Edges
  <2> QED BY <2>1, <2>2 DEF TreeOK, Whole, Linked
<1> QED BY <1>2, <1>3, <1>4, <1>5

\* The keys behind a node are its terminal's and those behind its edges, in the
\* order of the edges, the terminal's first.
LEMMA NodeKeys ==
  ASSUME TreeOK, NEW r \in DOMAIN nodes
  PROVE  /\ Behind(r) = {k \in stored : k = r.at} \cup Through(r, Edges(r))
         /\ \A k \in Through(r, Byte) : Less(r.at, k)
         /\ \A b \in Edges(r) :
              /\ FindChild(r, b) \in Refs /\ FindChild(r, b) # nil
              /\ Behind(FindChild(r, b)) = Through(r, {b}) /\ Through(r, {b}) # {}
         /\ \A b \in Byte \ Edges(r) : FindChild(r, b) = nil /\ Through(r, {b}) = {}
         /\ \A S, T \in SUBSET Byte : (\A b \in S, c \in T : b < c) =>
              \A k \in Through(r, S), j \in Through(r, T) : Less(k, j)
<1>1. /\ r.at \in Path /\ ~ IsLeaf(r) /\ r # nil /\ stored \in SUBSET Path
      /\ Edges(r) \subseteq Byte
      /\ \A b \in Edges(r) : nodes[r].children[b] # nil
      /\ \A b \in Byte : /\ Append(r.at, b) \in Path
                         /\ SlotOK(nodes, stored, FindChild(r, b), Append(r.at, b))
  BY NodeParts DEF TreeOK
<1>2. \A b \in Byte : Through(r, {b}) = Under(stored, Append(r.at, b))
  BY DEF Through, Under
<1>3. \A b \in Byte :
        /\ FindChild(r, b) \in Refs /\ Behind(FindChild(r, b)) = Through(r, {b})
        /\ FindChild(r, b) # nil => Through(r, {b}) # {}
  BY <1>1, <1>2, SlotHolds
<1>4. \A b \in Byte : b \in Edges(r) <=> FindChild(r, b) # nil
  BY <1>1 DEF FindChild
<1>5. Behind(nil) = {}
  BY DEF Behind
<1>6. ASSUME NEW k \in stored, Starts(r.at, k), k # r.at
      PROVE  k \in Through(r, Edges(r))
  <2>1. PICK b \in Byte : Starts(Append(r.at, b), k)
    BY <1>1, <1>6, NextByte
  <2>2. k \in Through(r, {b})
    BY <2>1 DEF Through
  <2>3. b \in Edges(r)
    BY <1>3, <1>4, <1>5, <2>2
  <2> QED BY <2>1, <2>3 DEF Through
<1>7. \A k \in Through(r, Byte) : Less(r.at, k) /\ Starts(r.at, k)
  <2> SUFFICES ASSUME NEW k \in stored, NEW b \in Byte, Starts(Append(r.at, b), k)
               PROVE  Less(r.at, k) /\ Starts(r.at, k)
    BY DEF Through
  <2>1. Starts(r.at, k) /\ Len(r.at) < Len(k) /\ k \in Path /\ Len(k) \in Nat
    BY <1>1, AppendStarts, Lengths
  <2> QED BY <1>1, <2>1, LessEdges
<1>8. Behind(r) = {k \in stored : k = r.at} \cup Through(r, Edges(r))
  <2>1. \A k \in Through(r, Edges(r)) : k \in stored /\ Starts(r.at, k)
    BY <1>1, <1>7 DEF Through
  <2>2. Starts(r.at, r.at)
    BY <1>1, StartsOrder
  <2>3. Behind(r) = {k \in stored : Starts(r.at, k)}
    BY <1>1 DEF Behind
  <2> QED BY <1>6, <2>1, <2>2, <2>3
<1>9. ASSUME NEW S \in SUBSET Byte, NEW T \in SUBSET Byte, \A b \in S, c \in T : b < c,
             NEW k \in Through(r, S), NEW j \in Through(r, T)
      PROVE  Less(k, j)
  <2>1. PICK b \in S : Starts(Append(r.at, b), k)
    BY DEF Through
  <2>2. PICK c \in T : Starts(Append(r.at, c), j)
    BY DEF Through
  <2>3. k \in Path /\ j \in Path /\ b < c
    BY <1>1, <1>9 DEF Through
  <2> QED BY <1>1, <2>1, <2>2, <2>3, LessEdges
<1> QED BY <1>1, <1>3, <1>4, <1>5, <1>7, <1>8, <1>9
-----------------------------------------------------------------------------
\* A set of bytes has a least and a greatest element.
LEMMA ByteExtremes ==
  ASSUME NEW S \in SUBSET Byte, S # {}
  PROVE  /\ \E b \in S : \A c \in S : b <= c
         /\ \E b \in S : \A c \in S : c <= b
<1>1. S \subseteq Nat /\ \A b \in S : b < node256Capacity /\ node256Capacity \in Nat
  BY CapacityAssumption, ByteFinite DEF Byte
<1>2. \E b \in S : \A c \in S : b <= c
  BY <1>1, LeastNumber
<1>3. \E b \in S : \A c \in S : c <= b
  <2> DEFINE N == {node256Capacity - b : b \in S}
  <2>0. \A b \in S : b \in Nat /\ node256Capacity - b \in Nat
    <3>1. ASSUME NEW b \in S PROVE b \in Nat /\ b < node256Capacity
      BY <1>1
    <3> QED BY <1>1, <3>1
  <2>1. N \subseteq Nat /\ N # {}
    BY <2>0
  <2>2. PICK n \in N : \A m \in N : n <= m
    BY <2>1, LeastNumber
  <2>3. PICK b \in S : n = node256Capacity - b
    BY <2>2
  <2>4. \A c \in S : node256Capacity - b <= node256Capacity - c
    BY <2>2, <2>3
  <2>5. \A c \in S : c <= b
    BY <1>1, <2>4
  <2> QED BY <2>5
<1> QED BY <1>2, <1>3

\* What the descents choose among the edges in S (firstChildOf, lastChildOf,
\* firstChildGT and lastChildLT): the child at the least or the greatest of them.
LEMMA ChildrenChosen ==
  ASSUME TreeOK, NEW r \in DOMAIN nodes, NEW S \in SUBSET Edges(r)
  PROVE  /\ LowestChild(r, S) = nil <=> S = {}
         /\ S # {} => \E b \in S : /\ \A c \in S : b <= c
                                   /\ LowestChild(r, S) = FindChild(r, b)
         /\ HighestChild(r, S) = nil <=> S = {}
         /\ S # {} => \E b \in S : /\ \A c \in S : c <= b
                                   /\ HighestChild(r, S) = FindChild(r, b)
<1>1. Edges(r) \subseteq Byte /\ \A b \in Edges(r) : nodes[r].children[b] # nil
  BY NodeParts
<1>2. CASE S = {}
  BY <1>2 DEF LowestChild, HighestChild
<1>3. CASE S # {}
  <2> DEFINE lo == CHOOSE b \in S : \A c \in S : b <= c
             hi == CHOOSE b \in S : \A c \in S : c <= b
  <2>1. /\ lo \in S /\ \A c \in S : lo <= c
        /\ hi \in S /\ \A c \in S : c <= hi
    BY <1>1, <1>3, ByteExtremes
  <2>2. LowestChild(r, S) = nodes[r].children[lo] /\ HighestChild(r, S) = nodes[r].children[hi]
    BY <1>3 DEF LowestChild, HighestChild
  <2> HIDE DEF lo, hi
  <2>3. \A b \in S : FindChild(r, b) = nodes[r].children[b]
    BY DEF FindChild
  <2> QED BY <1>1, <1>3, <2>1, <2>2, <2>3
<1> QED BY <1>2, <1>3

\* If f answers rightly for the children of a node, it has the least, or the
\* greatest, key behind a set of edges at the child chosen among them.
LEMMA ExtremesThrough ==
  ASSUME TreeOK, NEW r \in DOMAIN nodes, NEW S \in SUBSET Edges(r), NEW f, f[nil] = nil
  PROVE  /\ (\A b \in S : LeastOf(Behind(FindChild(r, b)), f[FindChild(r, b)])) =>
              LeastOf(Through(r, S), f[LowestChild(r, S)])
         /\ (\A b \in S : GreatestOf(Behind(FindChild(r, b)), f[FindChild(r, b)])) =>
              GreatestOf(Through(r, S), f[HighestChild(r, S)])
         /\ Through(r, S) = {} <=> S = {}
         /\ Through(r, S) \in SUBSET Path
<1>1. /\ Edges(r) \subseteq Byte
      /\ \A b \in Edges(r) : Behind(FindChild(r, b)) = Through(r, {b}) /\ Through(r, {b}) # {}
      /\ \A A, B \in SUBSET Byte : (\A b \in A, c \in B : b < c) =>
           \A k \in Through(r, A), j \in Through(r, B) : Less(k, j)
      /\ Through(r, S) \in SUBSET Path /\ S \in SUBSET Byte
  BY NodeParts, NodeKeys DEF Through, TreeOK
<1>2. Through(r, S) = {} <=> S = {}
  <2>1. \A b \in S : Through(r, {b}) \subseteq Through(r, S)
    BY DEF Through
  <2> QED BY <1>1, <2>1 DEF Through
<1>3. CASE S = {}
  BY <1>1, <1>2, <1>3, ChildrenChosen DEF LeastOf, GreatestOf
<1>4. ASSUME S # {}, \A b \in S : LeastOf(Behind(FindChild(r, b)), f[FindChild(r, b)])
      PROVE  LeastOf(Through(r, S), f[LowestChild(r, S)])
  <2>1. PICK b \in S : (\A c \in S : b <= c) /\ LowestChild(r, S) = FindChild(r, b)
    BY <1>4, ChildrenChosen
  <2> DEFINE A == Through(r, {b})
             B == Through(r, S \ {b})
  <2>2. A \in SUBSET Path /\ B \in SUBSET Path /\ A \cup B = Through(r, S) /\ A # {}
    BY <1>1 DEF Through
  <2>3. \A k \in A, j \in B : Less(k, j)
    <3>1. \A x \in {b}, c \in S \ {b} : x < c
      BY <1>1, <2>1, ByteFinite
    <3> QED BY <1>1, <3>1
  <2>4. LeastOf(A, f[FindChild(r, b)])
    BY <1>1, <1>4
  <2> HIDE DEF A, B
  <2>5. PICK k \in A : f[FindChild(r, b)] = Leaf(k) /\ \A j \in A \ {k} : Less(k, j)
    BY <2>2, <2>4 DEF LeastOf
  <2>6. \A j \in (A \cup B) \ {k} : Less(k, j)
    BY <2>3, <2>5
  <2> QED BY <2>1, <2>2, <2>5, <2>6 DEF LeastOf
<1>5. ASSUME S # {}, \A b \in S : GreatestOf(Behind(FindChild(r, b)), f[FindChild(r, b)])
      PROVE  GreatestOf(Through(r, S), f[HighestChild(r, S)])
  <2>1. PICK b \in S : (\A c \in S : c <= b) /\ HighestChild(r, S) = FindChild(r, b)
    BY <1>5, ChildrenChosen
  <2> DEFINE A == Through(r, S \ {b})
             B == Through(r, {b})
  <2>2. A \in SUBSET Path /\ B \in SUBSET Path /\ A \cup B = Through(r, S) /\ B # {}
    BY <1>1 DEF Through
  <2>3. \A k \in A, j \in B : Less(k, j)
    <3>1. \A c \in S \ {b}, x \in {b} : c < x
      BY <1>1, <2>1, ByteFinite
    <3> QED BY <1>1, <3>1
  <2>4. GreatestOf(B, f[FindChild(r, b)])
    BY <1>1, <1>5
  <2> HIDE DEF A, B
  <2>5. PICK k \in B : f[FindChild(r, b)] = Leaf(k) /\ \A j \in B \ {k} : Less(j, k)
    BY <2>2, <2>4 DEF GreatestOf
  <2>6. \A j \in (A \cup B) \ {k} : Less(j, k)
    BY <2>3, <2>5
  <2> QED BY <2>1, <2>2, <2>5, <2>6 DEF GreatestOf
<1> QED BY <1>1, <1>2, <1>3, <1>4, <1>5
-----------------------------------------------------------------------------
(***************************************************************************)
(* minLeafOf and maxLeafOf.  The functions are the ones that satisfy the   *)
(* equations of their definitions; since a node's answer follows from its  *)
(* children's, there are such functions, and all of them answer rightly.   *)
(***************************************************************************)
\* One step of the descents: what they answer at r if f answers below it.
MinFrom(f, r) ==
  IF ~ IsInner(r) THEN r
  ELSE IF nodes[r].terminal # nil THEN nodes[r].terminal
  ELSE f[LowestChild(r, Edges(r))]

MaxFrom(f, r) ==
  IF ~ IsInner(r) THEN r
  ELSE IF Edges(r) = {} THEN nodes[r].terminal
  ELSE f[HighestChild(r, Edges(r))]

LeastAt(f, r) == LeastOf(Behind(r), f[r])
GreatestAt(f, r) == GreatestOf(Behind(r), f[r])

\* A leaf is the least and the greatest key behind itself, nil stands for none.
LEMMA BottomExtremes ==
  ASSUME TreeOK, NEW r \in Refs, r \notin DOMAIN nodes
  PROVE  ~ IsInner(r) /\ LeastOf(Behind(r), r) /\ GreatestOf(Behind(r), r)
<1>1. ~ IsInner(r)
  BY RefTypes
<1>2. CASE r = nil
  BY <1>1, <1>2 DEF Behind, LeastOf, GreatestOf
<1>3. CASE IsLeaf(r) /\ r = Leaf(r.at) /\ r.at \in stored
  <2>1. r # nil /\ Starts(r.at, r.at)
    BY <1>3, StartsOrder DEF IsLeaf, TreeOK
  <2>2. Behind(r) = {r.at}
    BY <1>3, <2>1 DEF Behind
  <2> QED BY <1>1, <1>3, <2>2 DEF LeastOf, GreatestOf
<1> QED BY <1>2, <1>3, RefTypes

\* A node's own answer is right if those below it are.
LEMMA ExtremeStep ==
  ASSUME TreeOK, NEW r \in DOMAIN nodes, NEW f, f[nil] = nil
  PROVE  /\ (\A b \in Edges(r) : LeastAt(f, FindChild(r, b))) => LeastOf(Behind(r), MinFrom(f, r))
         /\ (\A b \in Edges(r) : GreatestAt(f, FindChild(r, b))) =>
              GreatestOf(Behind(r), MaxFrom(f, r))
<1> DEFINE own == {k \in stored : k = r.at}
           rest == Through(r, Edges(r))
<1>1. /\ r.at \in Path /\ IsInner(r)
      /\ nodes[r].terminal = IF r.at \in stored THEN Leaf(r.at) ELSE nil
      /\ Edges(r) \subseteq Byte /\ Edges(r) # {}
  BY NodeParts
<1>2. /\ Behind(r) = own \cup rest
      /\ \A k \in Through(r, Byte) : Less(r.at, k)
  BY NodeKeys
<1>3. rest \subseteq Through(r, Byte) /\ own \in SUBSET Path /\ rest \in SUBSET Path
  BY <1>1 DEF Through, TreeOK
<1>4. \A a \in own, b \in rest : Less(a, b)
  BY <1>2, <1>3
<1>5. LeastOf(own, nodes[r].terminal) /\ GreatestOf(own, nodes[r].terminal)
  BY <1>1 DEF LeastOf, GreatestOf
<1>6. rest # {}
  BY <1>1, ExtremesThrough
<1>7. ASSUME \A b \in Edges(r) : LeastAt(f, FindChild(r, b))
      PROVE  LeastOf(Behind(r), MinFrom(f, r))
  <2>1. LeastOf(rest, f[LowestChild(r, Edges(r))])
    BY <1>7, ExtremesThrough DEF LeastAt
  <2> HIDE DEF own, rest
  <2>2. LeastOf(own \cup rest, IF nodes[r].terminal # nil THEN nodes[r].terminal
                               ELSE f[LowestChild(r, Edges(r))])
    BY <1>3, <1>4, <1>5, <2>1, ExtremesJoin
  <2> QED BY <1>1, <1>2, <2>2 DEF MinFrom
<1>8. ASSUME \A b \in Edges(r) : GreatestAt(f, FindChild(r, b))
      PROVE  GreatestOf(Behind(r), MaxFrom(f, r))
  <2>1. GreatestOf(rest, f[HighestChild(r, Edges(r))])
    BY <1>8, ExtremesThrough DEF GreatestAt
  <2> HIDE DEF own, rest
  <2>2. f[HighestChild(r, Edges(r))] # nil
    BY <1>3, <1>6, <2>1, RefKinds DEF GreatestOf
  <2>3. GreatestOf(own \cup rest, f[HighestChild(r, Edges(r))])
    BY <1>3, <1>4, <1>5, <2>1, <2>2, ExtremesJoin
  <2> QED BY <1>1, <1>2, <2>3 DEF MaxFrom
<1> QED BY <1>7, <1>8

\* Finitely many naturals have an upper bound.
LEMMA NaturalsBounded ==
  ASSUME NEW S \in SUBSET Nat, IsFiniteSet(S)
  PROVE  \E m \in Nat : \A x \in S : x <= m
<1>1. CASE S = {}
  BY <1>1
<1>2. CASE S # {}
  <2> DEFINE After(k) == {j \in S : k < j}
             N == {Cardinality(After(k)) : k \in S}
  <2>1. \A k \in S : IsFiniteSet(After(k)) /\ Cardinality(After(k)) \in Nat
    BY FS_Subset, FS_CardinalityType
  <2>2. N \subseteq Nat /\ N # {}
    BY <1>2, <2>1
  <2>3. PICK k \in S : \A j \in S : Cardinality(After(k)) <= Cardinality(After(j))
    <3>1. PICK n \in N : \A m \in N : n <= m
      BY <2>2, LeastNumber
    <3> QED BY <3>1
  <2>4. ASSUME NEW j \in S, k < j PROVE FALSE
    <3>0. /\ \A y \in S : y \in Nat
          /\ \A y \in Nat : j < y => k < y
          /\ ~ (j < j)
      BY <2>4
    <3>1. After(j) \in SUBSET After(k) /\ j \in After(k) /\ j \notin After(j)
      BY <2>4, <3>0
    <3>2. Cardinality(After(j)) <= Cardinality(After(k))
          /\ Cardinality(After(j)) # Cardinality(After(k))
      BY <2>1, <3>1, FS_Subset
    <3>3. Cardinality(After(j)) \in Nat /\ Cardinality(After(k)) \in Nat
          /\ Cardinality(After(k)) <= Cardinality(After(j))
      BY <2>1, <2>3
    <3> HIDE DEF After
    <3> QED BY <3>2, <3>3
  <2> QED BY <2>4
<1> QED BY <1>1, <1>2

\* Below the node there are only longer paths, so some node that answers wrongly
\* has none below it that does.
LEMMA DeepestWrong ==
  ASSUME TreeOK, NEW W \in SUBSET DOMAIN nodes, W # {}
  PROVE  \E r \in W : \A b \in Edges(r) : FindChild(r, b) \notin W
<1>1. stored \in SUBSET Path /\ IsFiniteSet(stored) /\ \A r \in DOMAIN nodes : r.at \in Path
  BY NodeParts DEF TreeOK
<1>2. PICK n \in Nat : \A k \in stored : Len(k) <= n
  <2> DEFINE L == {Len(k) : k \in stored}
  <2>1. L \subseteq Nat
    BY <1>1, Lengths
  <2>2. IsFiniteSet(L)
    <3> DEFINE len == [k \in stored |-> Len(k)]
    <3>1. len \in Surjection(stored, L)
      BY DEF Surjection
    <3> HIDE DEF L, len
    <3> QED BY <1>1, <3>1, FS_Surjection
  <2>3. \A k \in stored : Len(k) \in L
    OBVIOUS
  <2> HIDE DEF L
  <2>4. PICK m \in Nat : \A x \in L : x <= m
    BY <2>1, <2>2, NaturalsBounded
  <2> QED BY <2>3, <2>4
<1>3. ASSUME NEW r \in DOMAIN nodes PROVE Len(r.at) \in Nat /\ n - Len(r.at) \in Nat
  <2>1. PICK k \in stored : Starts(r.at, k)
    BY DEF TreeOK, Whole, AllFull, Inhabited
  <2>2. Len(r.at) \in Nat /\ Len(k) \in Nat /\ Len(r.at) <= Len(k) /\ Len(k) <= n
    BY <1>1, <1>2, <2>1, Lengths, StartsOrder
  <2> QED BY <2>2
<1> DEFINE N == {n - Len(r.at) : r \in W}
<1>4. N \subseteq Nat /\ N # {}
  BY <1>3
<1>5. PICK x \in N : \A y \in N : x <= y
  BY <1>4, LeastNumber
<1>6. PICK r \in W : x = n - Len(r.at)
  BY <1>5
<1>7. ASSUME NEW b \in Edges(r), FindChild(r, b) \in W
      PROVE  FALSE
  <2> DEFINE c == FindChild(r, b)
  <2>1. b \in Byte /\ SlotOK(nodes, stored, c, Append(r.at, b)) /\ Append(r.at, b) \in Path
    BY NodeParts
  <2>2. c \in DOMAIN nodes /\ c.at \in Path /\ Starts(Append(r.at, b), c.at)
    BY <1>7, <2>1, SlotHolds
  <2>4. n - Len(c.at) \in N
    BY <1>7
  <2>5. n - Len(r.at) <= n - Len(c.at)
    BY <1>5, <1>6, <2>4
  <2> HIDE DEF c
  <2>3. Len(r.at) + 1 <= Len(c.at)
    <3>1. r.at \in Path /\ Len(Append(r.at, b)) = Len(r.at) + 1
      BY <1>1, <2>1, AppendStarts
    <3>2. Len(Append(r.at, b)) <= Len(c.at)
      BY <2>1, <2>2, StartsOrder
    <3> QED BY <3>1, <3>2
  <2> QED BY <1>2, <1>3, <2>2, <2>3, <2>5
<1> QED BY <1>6, <1>7

Minima(f) == f = [r \in Refs |-> MinFrom(f, r)]
Maxima(f) == f = [r \in Refs |-> MaxFrom(f, r)]

LEMMA MinimaRight ==
  ASSUME TreeOK, NEW f, Minima(f), NEW r \in Refs
  PROVE  LeastAt(f, r)
<1>1. \A x \in Refs : f[x] = MinFrom(f, x)
  BY DEF Minima
<1>2. \A x \in Refs : x \notin DOMAIN nodes => f[x] = x /\ LeastAt(f, x)
  BY <1>1, BottomExtremes DEF MinFrom, LeastAt
<1>3. f[nil] = nil
  BY <1>2, RefTypes, RefKinds
<1> DEFINE W == {x \in DOMAIN nodes : ~ LeastAt(f, x)}
<1>4. ASSUME W # {} PROVE FALSE
  <2>1. PICK x \in W : \A b \in Edges(x) : FindChild(x, b) \notin W
    BY <1>4, DeepestWrong
  <2>2. \A b \in Edges(x) : FindChild(x, b) \in Refs
    BY NodeKeys
  <2>3. \A b \in Edges(x) : LeastAt(f, FindChild(x, b))
    BY <1>2, <2>1, <2>2
  <2>4. LeastOf(Behind(x), MinFrom(f, x))
    BY <1>3, <2>3, ExtremeStep
  <2> QED BY <1>1, <2>4, NodeParts DEF LeastAt
<1> QED BY <1>2, <1>4

LEMMA MaximaRight ==
  ASSUME TreeOK, NEW f, Maxima(f), NEW r \in Refs
  PROVE  GreatestAt(f, r)
<1>1. \A x \in Refs : f[x] = MaxFrom(f, x)
  BY DEF Maxima
<1>2. \A x \in Refs : x \notin DOMAIN nodes => f[x] = x /\ GreatestAt(f, x)
  BY <1>1, BottomExtremes DEF MaxFrom, GreatestAt
<1>3. f[nil] = nil
  BY <1>2, RefTypes, RefKinds
<1> DEFINE W == {x \in DOMAIN nodes : ~ GreatestAt(f, x)}
<1>4. ASSUME W # {} PROVE FALSE
  <2>1. PICK x \in W : \A b \in Edges(x) : FindChild(x, b) \notin W
    BY <1>4, DeepestWrong
  <2>2. \A b \in Edges(x) : FindChild(x, b) \in Refs
    BY NodeKeys
  <2>3. \A b \in Edges(x) : GreatestAt(f, FindChild(x, b))
    BY <1>2, <2>1, <2>2
  <2>4. GreatestOf(Behind(x), MaxFrom(f, x))
    BY <1>3, <2>3, ExtremeStep
  <2> QED BY <1>1, <2>4, NodeParts DEF GreatestAt
<1> QED BY <1>2, <1>4

\* minLeafOf and maxLeafOf at every reference: the extreme leaf behind it.
LEMMA ExtremeLeaves ==
  ASSUME TreeOK, NEW r \in Refs
  PROVE  LeastOf(Behind(r), minLeafOf[r]) /\ GreatestOf(Behind(r), maxLeafOf[r])
<1> DEFINE lo == [x \in Refs |-> CHOOSE l : LeastOf(Behind(x), l)]
           hi == [x \in Refs |-> CHOOSE l : GreatestOf(Behind(x), l)]
<1>1. \A x \in Refs : Behind(x) \in SUBSET Path /\ IsFiniteSet(Behind(x))
  BY FS_Subset DEF Behind, TreeOK
<1>2. \A x \in Refs : LeastOf(Behind(x), lo[x]) /\ GreatestOf(Behind(x), hi[x])
  BY <1>1, ExtremesExist
<1>3. \A x \in Refs : x \notin DOMAIN nodes => lo[x] = x /\ hi[x] = x
  BY <1>1, <1>2, BottomExtremes, ExtremesUnique
<1>4. lo[nil] = nil /\ hi[nil] = nil
  BY <1>3, RefTypes, RefKinds
<1>5. DOMAIN lo = Refs /\ DOMAIN hi = Refs
      /\ lo = [x \in Refs |-> lo[x]] /\ hi = [x \in Refs |-> hi[x]]
  OBVIOUS
<1> HIDE DEF lo, hi
<1>6. ASSUME NEW x \in Refs PROVE lo[x] = MinFrom(lo, x) /\ hi[x] = MaxFrom(hi, x)
  <2>1. CASE x \notin DOMAIN nodes
    BY <1>3, <2>1, BottomExtremes DEF MinFrom, MaxFrom
  <2>2. CASE x \in DOMAIN nodes
    <3>1. \A b \in Edges(x) : LeastAt(lo, FindChild(x, b)) /\ GreatestAt(hi, FindChild(x, b))
      BY <1>2, <2>2, NodeKeys DEF LeastAt, GreatestAt
    <3>2. LeastOf(Behind(x), MinFrom(lo, x)) /\ GreatestOf(Behind(x), MaxFrom(hi, x))
      BY <1>4, <2>2, <3>1, ExtremeStep
    <3> QED BY <1>1, <1>2, <3>2, ExtremesUnique
  <2> QED BY <2>1, <2>2
<1>7. Minima(lo) /\ Maxima(hi)
  BY <1>5, <1>6 DEF Minima, Maxima
<1>8. Minima(minLeafOf)
  <2>1. minLeafOf = CHOOSE f : Minima(f)
    BY DEF minLeafOf, Minima, MinFrom
  <2> QED BY <1>7, <2>1
<1>9. Maxima(maxLeafOf)
  <2>1. maxLeafOf = CHOOSE f : Maxima(f)
    BY DEF maxLeafOf, Maxima, MaxFrom
  <2> QED BY <1>7, <2>1
<1> QED BY <1>8, <1>9, MinimaRight, MaximaRight DEF LeastAt, GreatestAt
-----------------------------------------------------------------------------
(***************************************************************************)
(* How a compressed prefix compares with the target.                       *)
(***************************************************************************)
\* The four outcomes of walkPrefixToward, in terms of the paths: the node's path
\* begins the target, or lies before or after it with all keys behind it.
LEMMA Outcomes ==
  ASSUME NEW path \in Path, NEW at \in Path, NEW target \in Path,
         Starts(path, at), Starts(path, target),
         NEW o, o = WalkPrefixToward(From(at, Len(path)), target, Len(path))
  PROVE  /\ o = "matched" => Starts(at, target)
         /\ o = "divergedBelow" => Less(at, target) /\ ~ Starts(at, target)
         /\ o \in {"divergedAbove", "targetEndsHere"} => Less(target, at)
         /\ o \in {"matched", "divergedBelow", "divergedAbove", "targetEndsHere"}
         /\ Len(path) + Len(From(at, Len(path))) = Len(at)
<1> DEFINE d == Len(path)
           x == From(at, d)
           y == From(target, d)
           i == SharedLen(x, y)
           e == Upto(target, d + i)
<1>1. /\ d \in Nat /\ Len(at) \in Nat /\ Len(target) \in Nat
      /\ d \in 0 .. Len(at) /\ d \in 0 .. Len(target)
  BY Lengths, StartsOrder
<1>2. /\ x \in Path /\ Len(x) = Len(at) - d /\ \A j \in 1 .. Len(at) - d : x[j] = at[d + j]
      /\ y \in Path /\ Len(y) = Len(target) - d
      /\ \A j \in 1 .. Len(target) - d : y[j] = target[d + j]
  BY <1>1, FromBytes
<1>3. /\ i \in Nat /\ i <= Len(at) - d /\ i <= Len(target) - d
      /\ e \in Path /\ Len(e) = d + i
      /\ Starts(e, at) /\ Starts(e, target)
      /\ Len(e) < Len(at) /\ Len(e) < Len(target) => at[Len(e) + 1] # target[Len(e) + 1]
  BY MeetAt
<1>4. o = IF i = Len(x) THEN "matched"
          ELSE IF i < Len(x) /\ i = Len(y) THEN "targetEndsHere"
          ELSE IF x[i + 1] < y[i + 1] THEN "divergedBelow" ELSE "divergedAbove"
  BY DEF WalkPrefixToward
<1> HIDE DEF d, x, y, i, e
<1>5. d + Len(x) = Len(at)
  BY <1>1, <1>2
<1>6. CASE i = Len(x)
  <2>1. o = "matched" /\ Len(e) = Len(at)
    BY <1>1, <1>2, <1>3, <1>4, <1>6
  <2>2. e = at
    BY <1>3, <2>1, StartsOrder
  <2> QED BY <1>3, <2>1, <2>2, <1>5 DEF d, x
<1>7. CASE i # Len(x) /\ i = Len(y)
  <2>1. o = "targetEndsHere" /\ Len(e) = Len(target) /\ Len(e) < Len(at)
    BY <1>1, <1>2, <1>3, <1>4, <1>7
  <2>2. e = target
    BY <1>3, <2>1, StartsOrder
  <2>3. target # at
    BY <1>1, <2>1, <2>2
  <2>4. Less(target, at)
    BY <1>3, <2>2, <2>3, LessEdges
  <2> QED BY <2>1, <2>4, <1>5 DEF d, x
<1>8. CASE i # Len(x) /\ i # Len(y)
  <2> DEFINE a == at[Len(e) + 1]
             t == target[Len(e) + 1]
  <2>1. Len(e) < Len(at) /\ Len(e) < Len(target) /\ Len(e) + 1 \in 1 .. Len(at)
        /\ Len(e) + 1 \in 1 .. Len(target)
    <3>1. i < Len(at) - d /\ i < Len(target) - d
      BY <1>1, <1>2, <1>3, <1>8
    <3>2. \A m, n, l \in Nat : m < n - l => l + m < n /\ l + m + 1 \in 1 .. n
      OBVIOUS
    <3> QED BY <1>1, <1>3, <3>1, <3>2
  <2>2. a \in Byte /\ t \in Byte /\ a # t /\ a \in Nat /\ t \in Nat
    BY <1>3, <2>1, Lengths, ByteFinite
  <2>3. x[i + 1] = a /\ y[i + 1] = t
    <3>1. i + 1 \in 1 .. Len(at) - d /\ i + 1 \in 1 .. Len(target) - d
          /\ d + (i + 1) = Len(e) + 1
      BY <1>1, <1>3, <2>1
    <3> QED BY <1>2, <3>1
  <2>4. Starts(Append(e, a), at) /\ Starts(Append(e, t), target)
    BY <1>3, <2>1, <2>2, AppendStarts
  <2>5. o = IF a < t THEN "divergedBelow" ELSE "divergedAbove"
    BY <1>2, <1>3, <1>4, <1>8, <2>3
  <2>6. ~ Starts(at, target)
    <3>1. SUFFICES ASSUME Starts(at, target) PROVE FALSE
      OBVIOUS
    <3>2. at[Len(e) + 1] = target[Len(e) + 1]
      BY <2>1, <3>1, StartsBytewise
    <3> QED BY <2>2, <3>2
  <2> HIDE DEF a, t
  <2>7. CASE a < t
    <3>1. Less(at, target)
      BY <1>3, <2>2, <2>4, <2>7, LessEdges
    <3> QED BY <2>5, <2>6, <2>7, <3>1, <1>5 DEF d, x
  <2>8. CASE ~ (a < t)
    <3>1. t < a
      BY <2>2, <2>8
    <3>2. Less(target, at)
      BY <1>3, <2>2, <2>4, <3>1, LessEdges
    <3> QED BY <2>5, <2>8, <3>2, <1>5 DEF d, x
  <2> QED BY <2>7, <2>8
<1> QED BY <1>6, <1>7, <1>8
-----------------------------------------------------------------------------
(***************************************************************************)
(* ceilingLeafOf and floorLeafOf.  A call is right if its answer is the    *)
(* least key at or above the target, or the greatest at or below it, among *)
(* the keys that begin with the bytes consumed so far.                     *)
(***************************************************************************)
AnswerFrom(way, target, f, r, depth) ==
  IF way = "ceiling" THEN CeilingFrom(target, f, r, depth) ELSE FloorFrom(target, f, r, depth)

Right(way, target, K, leaf) ==
  IF way = "ceiling" THEN LeastOf({k \in K : ~ Less(k, target)}, leaf)
                     ELSE GreatestOf({k \in K : ~ Less(target, k)}, leaf)

RightAt(way, target, f, r, depth) ==
  SlotOK(nodes, stored, r, Upto(target, depth)) =>
    Right(way, target, Under(stored, Upto(target, depth)), f[<<r, depth>>])

\* The answers at nil and at a leaf: a comparison decides.
LEMMA BottomAnswers ==
  ASSUME TreeOK, NEW r \in Refs, r \notin DOMAIN nodes, NEW target \in Path,
         NEW f, NEW depth, NEW way
  PROVE  Right(way, target, Behind(r), AnswerFrom(way, target, f, r, depth))
<1>1. ~ IsInner(r) /\ ~ IsInner(nil)
  BY RefTypes, RefKinds
<1>2. CASE r = nil
  BY <1>1, <1>2 DEF Behind, LeastOf, GreatestOf, Right, AnswerFrom, CeilingFrom, FloorFrom
<1>3. CASE IsLeaf(r) /\ r = Leaf(r.at) /\ r.at \in stored
  <2>1. r # nil /\ Starts(r.at, r.at)
    BY <1>3, StartsOrder DEF IsLeaf, TreeOK
  <2>2. Behind(r) = {r.at}
    BY <1>3, <2>1 DEF Behind
  <2>3. /\ LeastOf({k \in {r.at} : ~ Less(k, target)}, IF Less(r.at, target) THEN nil ELSE r)
        /\ GreatestOf({k \in {r.at} : ~ Less(target, k)}, IF Less(target, r.at) THEN nil ELSE r)
    BY <1>3 DEF LeastOf, GreatestOf
  <2> QED BY <1>1, <2>1, <2>2, <2>3 DEF Right, AnswerFrom, CeilingFrom, FloorFrom
<1> QED BY <1>2, <1>3, RefTypes

\* Where the target goes on below the node: the keys at or above it are those
\* behind the child on its path, then those behind higher edges; the keys at or
\* below it the node's own, then those behind lower edges, then the child's.
LEMMA SidesOfEdge ==
  ASSUME TreeOK, NEW r \in DOMAIN nodes, NEW target \in Path, NEW b \in Byte,
         Starts(Append(r.at, b), target)
  PROVE  /\ {k \in Behind(r) : ~ Less(k, target)} =
              {k \in Through(r, {b}) : ~ Less(k, target)}
                \cup Through(r, {c \in Edges(r) : c > b})
         /\ {k \in Behind(r) : ~ Less(target, k)} =
              {k \in stored : k = r.at} \cup
                (Through(r, {c \in Edges(r) : c < b})
                   \cup {k \in Through(r, {b}) : ~ Less(target, k)})
<1>1. /\ r.at \in Path /\ Edges(r) \subseteq Byte /\ stored \in SUBSET Path
      /\ Append(r.at, b) \in Path /\ Edges(r) \subseteq Nat /\ b \in Nat
  BY NodeParts, ByteFinite DEF TreeOK
<1>2. Starts(r.at, target) /\ r.at # target
  <2>1. Starts(r.at, target) /\ Len(r.at) < Len(target) /\ Len(target) \in Nat
    BY <1>1, AppendStarts, Lengths
  <2> QED BY <2>1
<1>3. Less(r.at, target) /\ ~ Less(target, r.at)
  BY <1>1, <1>2, LessEdges, LessOrder
<1>4. \A c \in Edges(r), k \in stored : Starts(Append(r.at, c), k) =>
        /\ c < b => Less(k, target) /\ ~ Less(target, k)
        /\ b < c => Less(target, k) /\ ~ Less(k, target)
  BY <1>1, LessEdges, LessOrder
<1>5. /\ Behind(r) = {k \in stored : k = r.at} \cup Through(r, Edges(r))
      /\ b \notin Edges(r) => Through(r, {b}) = {}
  BY NodeKeys
<1>6. Through(r, Edges(r)) = Through(r, {c \in Edges(r) : c < b}) \cup Through(r, {b})
                               \cup Through(r, {c \in Edges(r) : c > b})
  <2>1. \A c \in Edges(r) : c < b \/ c = b \/ c > b
    BY <1>1
  <2>2. Through(r, {b}) \subseteq Through(r, Edges(r))
    BY <1>5 DEF Through
  <2>3. Through(r, Edges(r)) \subseteq Through(r, {c \in Edges(r) : c < b}) \cup Through(r, {b})
                                         \cup Through(r, {c \in Edges(r) : c > b})
    BY <2>1 DEF Through
  <2>4. Through(r, {c \in Edges(r) : c < b}) \cup Through(r, {c \in Edges(r) : c > b})
          \subseteq Through(r, Edges(r))
    BY DEF Through
  <2> QED BY <2>2, <2>3, <2>4
<1>7. /\ \A k \in Through(r, {c \in Edges(r) : c < b}) : Less(k, target) /\ ~ Less(target, k)
      /\ \A k \in Through(r, {c \in Edges(r) : c > b}) : Less(target, k) /\ ~ Less(k, target)
  BY <1>1, <1>4 DEF Through
<1> QED BY <1>3, <1>5, <1>6, <1>7

\* What the two functions answer at a node, by the outcome of the comparison.
LEMMA NodeAnswers ==
  ASSUME TreeOK, NEW r \in DOMAIN nodes, NEW target \in Path, NEW f,
         NEW depth \in 0 .. Len(target),
         SlotOK(nodes, stored, r, Upto(target, depth)),
         NEW way, \A e \in depth + 1 .. Len(target) : \A x : RightAt(way, target, f, x, e)
  PROVE  Right(way, target, Behind(r), AnswerFrom(way, target, f, r, depth))
<1> DEFINE path == Upto(target, depth)
           o == WalkPrefixToward(nodes[r].prefix, target, depth)
           at == r.at
<1>1. /\ at \in Path /\ IsInner(r) /\ stored \in SUBSET Path /\ r \in Refs
      /\ nodes[r].terminal = IF at \in stored THEN Leaf(at) ELSE nil
  BY NodeParts DEF TreeOK
<1>2. path \in Path /\ Len(path) = depth /\ Starts(path, target)
  BY UptoStarts
<1>3. NodeSlot(nodes, stored, r, path)
  BY <1>1, <1>2, RefTypes, SlotKinds
<1>4. Starts(path, at) /\ nodes[r].prefix = From(at, depth)
  BY <1>2, <1>3 DEF NodeSlot
<1>5. /\ o = "matched" => Starts(at, target)
      /\ o = "divergedBelow" => Less(at, target) /\ ~ Starts(at, target)
      /\ o \in {"divergedAbove", "targetEndsHere"} => Less(target, at)
      /\ o \in {"matched", "divergedBelow", "divergedAbove", "targetEndsHere"}
      /\ Consumed(r, depth) = Len(at)
  <2>1. /\ o = WalkPrefixToward(From(at, Len(path)), target, Len(path))
        /\ Consumed(r, depth) = Len(path) + Len(From(at, Len(path)))
    BY <1>2, <1>4 DEF Consumed
  <2> HIDE DEF o
  <2> QED BY <1>1, <1>2, <1>4, <2>1, Outcomes
<1>6. \A k \in Behind(r) : k \in Path /\ Starts(at, k)
  BY <1>1 DEF Behind
<1>7. LeastOf(Behind(r), minLeafOf[r]) /\ GreatestOf(Behind(r), maxLeafOf[r])
  BY <1>1, ExtremeLeaves
<1> DEFINE up == {k \in Behind(r) : ~ Less(k, target)}
           down == {k \in Behind(r) : ~ Less(target, k)}
<1>8. SUFFICES /\ LeastOf(up, CeilingFrom(target, f, r, depth)) \/ way # "ceiling"
               /\ GreatestOf(down, FloorFrom(target, f, r, depth)) \/ way = "ceiling"
  BY DEF Right, AnswerFrom
<1>9. CASE o = "divergedBelow"
  <2>1. \A k \in Behind(r) : Less(k, target) /\ ~ Less(target, k)
    BY <1>1, <1>5, <1>6, <1>9, LessBehind, LessOrder
  <2>2. up = {} /\ down = Behind(r)
    BY <2>1
  <2>3. CeilingFrom(target, f, r, depth) = nil /\ FloorFrom(target, f, r, depth) = maxLeafOf[r]
    BY <1>1, <1>9 DEF CeilingFrom, FloorFrom
  <2> HIDE DEF up, down
  <2> QED BY <1>7, <2>2, <2>3 DEF LeastOf
<1>10. CASE o \in {"divergedAbove", "targetEndsHere"}
  <2>1. \A k \in Behind(r) : Less(target, k) /\ ~ Less(k, target)
    BY <1>1, <1>5, <1>6, <1>10, LessBehind, LessOrder
  <2>2. up = Behind(r) /\ down = {}
    BY <2>1
  <2>3. CeilingFrom(target, f, r, depth) = minLeafOf[r] /\ FloorFrom(target, f, r, depth) = nil
    BY <1>1, <1>10 DEF CeilingFrom, FloorFrom
  <2> HIDE DEF up, down
  <2> QED BY <1>7, <2>2, <2>3 DEF GreatestOf
<1>11. CASE o = "matched" /\ Len(at) = Len(target)
  <2>1. at = target
    BY <1>1, <1>5, <1>11, StartsOrder
  <2>2. \A k \in Behind(r) : ~ Less(k, target) /\ (k # target => Less(target, k))
    BY <1>1, <1>6, <2>1, LessEdges, LessOrder
  <2>3. up = Behind(r) /\ down = {k \in stored : k = at}
    <3>1. at \in stored => at \in Behind(r)
      BY NodeKeys
    <3>2. ~ Less(target, target)
      BY LessOrder
    <3>3. Behind(r) \subseteq stored
      BY DEF Behind
    <3> QED BY <2>1, <2>2, <3>1, <3>2, <3>3
  <2>4. /\ CeilingFrom(target, f, r, depth) = minLeafOf[r]
        /\ FloorFrom(target, f, r, depth) = nodes[r].terminal
    BY <1>1, <1>5, <1>11 DEF CeilingFrom, FloorFrom
  <2>5. GreatestOf({k \in stored : k = at}, nodes[r].terminal)
    BY <1>1 DEF GreatestOf
  <2> HIDE DEF up, down
  <2> QED BY <1>7, <2>3, <2>4, <2>5
<1>12. CASE o = "matched" /\ Len(at) # Len(target)
  <2> DEFINE b == target[Len(at) + 1]
             x == FindChild(r, b)
             found == f[<<x, Len(at) + 1>>]
             next == Through(r, {b})
             lower == Through(r, {c \in Edges(r) : c < b})
             higher == Through(r, {c \in Edges(r) : c > b})
             own == {k \in stored : k = at}
  <2>1. Len(at) < Len(target) /\ b \in Byte /\ Starts(Append(at, b), target)
    BY <1>1, <1>5, <1>12, NextByte
  <2>2. Append(at, b) = Upto(target, Len(at) + 1) /\ Append(at, b) \in Path
    <3>1. Append(at, b) \in Path /\ Len(Append(at, b)) = Len(at) + 1
      BY <1>1, <2>1, AppendStarts
    <3>2. Upto(target, Len(Append(at, b))) = Append(at, b)
      BY <2>1, <3>1, UptoOfStart
    <3> QED BY <3>1, <3>2
  <2>3. Len(at) + 1 \in depth + 1 .. Len(target)
    <3>1. Len(at) \in Nat /\ depth \in Nat /\ Len(target) \in Nat /\ depth <= Len(at)
      BY <1>1, <1>2, <1>4, Lengths, StartsOrder
    <3> QED BY <2>1, <3>1
  <2>4. SlotOK(nodes, stored, x, Upto(target, Len(at) + 1))
    BY <2>1, <2>2, NodeParts
  <2>5. Right(way, target, next, found)
    <3>1. next = Under(stored, Upto(target, Len(at) + 1))
      BY <2>2 DEF Through, Under
    <3> QED BY <2>3, <2>4, <3>1 DEF RightAt
  <2>6. /\ up = {k \in next : ~ Less(k, target)} \cup higher
        /\ down = own \cup (lower \cup {k \in next : ~ Less(target, k)})
    BY <2>1, SidesOfEdge
  <2>7. /\ LeastOf(higher, minLeafOf[FirstChildGT(r, b)])
        /\ GreatestOf(lower, maxLeafOf[LastChildLT(r, b)])
        /\ LastChildLT(r, b) = nil <=> lower = {}
    <3> DEFINE above == {c \in Edges(r) : c > b}
               below == {c \in Edges(r) : c < b}
    <3>1. \A c \in Edges(r) : FindChild(r, c) \in Refs
      BY NodeKeys
    <3>2. minLeafOf[nil] = nil /\ maxLeafOf[nil] = nil
      <4>1. nil \in Refs /\ Behind(nil) = {}
        BY RefTypes DEF Behind
      <4> QED BY <4>1, ExtremeLeaves DEF LeastOf, GreatestOf
    <3>3. \A c \in Edges(r) : /\ LeastOf(Behind(FindChild(r, c)), minLeafOf[FindChild(r, c)])
                              /\ GreatestOf(Behind(FindChild(r, c)), maxLeafOf[FindChild(r, c)])
      BY <3>1, ExtremeLeaves
    <3>4. LeastOf(Through(r, above), minLeafOf[LowestChild(r, above)])
      <4>1. above \in SUBSET Edges(r)
        OBVIOUS
      <4> HIDE DEF above
      <4> QED BY <3>2, <3>3, <4>1, ExtremesThrough
    <3>5. /\ GreatestOf(Through(r, below), maxLeafOf[HighestChild(r, below)])
          /\ HighestChild(r, below) = nil <=> Through(r, below) = {}
      <4>1. below \in SUBSET Edges(r)
        OBVIOUS
      <4> HIDE DEF below
      <4>2. GreatestOf(Through(r, below), maxLeafOf[HighestChild(r, below)])
        BY <3>2, <3>3, <4>1, ExtremesThrough
      <4>3. Through(r, below) = {} <=> below = {}
        BY <3>2, <4>1, ExtremesThrough
      <4>4. HighestChild(r, below) = nil <=> below = {}
        BY <4>1, ChildrenChosen
      <4> QED BY <4>2, <4>3, <4>4
    <3> QED BY <3>4, <3>5 DEF FirstChildGT, LastChildLT
  <2>8. /\ next \in SUBSET Path /\ higher \in SUBSET Path /\ lower \in SUBSET Path
        /\ own \in SUBSET Path
    BY <1>1 DEF Through
  <2>9. /\ \A k \in next, j \in higher : Less(k, j)
        /\ \A k \in lower, j \in next : Less(k, j)
        /\ \A k \in own, j \in lower \cup next : Less(k, j)
    <3> DEFINE above == {c \in Edges(r) : c > b}
               below == {c \in Edges(r) : c < b}
    <3>1. Edges(r) \subseteq Byte
      BY NodeParts
    <3>2. /\ \A S, T \in SUBSET Byte : (\A e \in S, c \in T : e < c) =>
               \A k \in Through(r, S), j \in Through(r, T) : Less(k, j)
          /\ \A k \in Through(r, Byte) : Less(at, k)
      BY NodeKeys
    <3>3. /\ \A e \in {b}, c \in above : e < c
          /\ \A e \in below, c \in {b} : e < c
      BY <2>1, <3>1, ByteFinite
    <3>4. above \in SUBSET Byte /\ below \in SUBSET Byte /\ {b} \in SUBSET Byte
      BY <2>1, <3>1
    <3>5. lower \cup next \subseteq Through(r, Byte)
      BY <2>1, <3>1 DEF Through
    <3>6. \A k \in Through(r, {b}), j \in Through(r, above) : Less(k, j)
      BY <3>2, <3>3, <3>4
    <3>7. \A k \in Through(r, below), j \in Through(r, {b}) : Less(k, j)
      BY <3>2, <3>3, <3>4
    <3> QED BY <3>2, <3>5, <3>6, <3>7
  <2>10. /\ CeilingFrom(target, f, r, depth) =
              IF found # nil THEN found ELSE minLeafOf[FirstChildGT(r, b)]
         /\ FloorFrom(target, f, r, depth) =
              IF found # nil THEN found
              ELSE IF LastChildLT(r, b) # nil THEN maxLeafOf[LastChildLT(r, b)]
              ELSE nodes[r].terminal
    BY <1>1, <1>5, <1>12 DEF CeilingFrom, FloorFrom
  <2>11. GreatestOf(own, nodes[r].terminal)
    BY <1>1 DEF GreatestOf
  <2> DEFINE nextUp == {k \in next : ~ Less(k, target)}
             nextDown == {k \in next : ~ Less(target, k)}
  <2>12. nextUp \in SUBSET next /\ nextDown \in SUBSET next
    OBVIOUS
  <2>13. /\ way = "ceiling" => LeastOf(nextUp, found)
         /\ way # "ceiling" => GreatestOf(nextDown, found)
    BY <2>5 DEF Right
  <2>14. up = nextUp \cup higher /\ down = own \cup (lower \cup nextDown)
    BY <2>6
  <2> HIDE DEF up, down, next, lower, higher, own, nextUp, nextDown, b, x, found, at
  <2>15. CASE way = "ceiling"
    <3>1. nextUp \in SUBSET Path /\ \A k \in nextUp, j \in higher : Less(k, j)
      BY <2>8, <2>9, <2>12
    <3>2. LeastOf(nextUp \cup higher, IF found # nil THEN found ELSE minLeafOf[FirstChildGT(r, b)])
      BY <2>7, <2>8, <2>13, <2>15, <3>1, ExtremesJoin
    <3> QED BY <2>10, <2>14, <2>15, <3>2
  <2>16. CASE way # "ceiling"
    <3> DEFINE m == maxLeafOf[LastChildLT(r, b)]
               best == IF found # nil THEN found ELSE m
    <3>1. nextDown \in SUBSET Path /\ \A k \in lower, j \in nextDown : Less(k, j)
      BY <2>8, <2>9, <2>12
    <3>2. GreatestOf(lower \cup nextDown, best)
      BY <2>7, <2>8, <2>13, <2>16, <3>1, ExtremesJoin
    <3>3. lower \cup nextDown \in SUBSET Path /\ \A k \in own, j \in lower \cup nextDown : Less(k, j)
      BY <2>8, <2>9, <2>12, <3>1
    <3>4. m = nil <=> LastChildLT(r, b) = nil
      BY <2>7, <2>8, RefKinds DEF GreatestOf
    <3>5. FloorFrom(target, f, r, depth) = IF best # nil THEN best ELSE nodes[r].terminal
      BY <2>10, <3>4
    <3> HIDE DEF m, best
    <3>6. GreatestOf(own \cup (lower \cup nextDown), IF best # nil THEN best ELSE nodes[r].terminal)
      BY <2>8, <2>11, <3>2, <3>3, ExtremesJoin
    <3> QED BY <2>14, <2>16, <3>5, <3>6
  <2> QED BY <2>15, <2>16
<1> QED BY <1>5, <1>9, <1>10, <1>11, <1>12

(***************************************************************************)
(* The functions ceilingLeafOf and floorLeafOf descend with: a call asks   *)
(* only calls that have consumed more of the target.                       *)
(***************************************************************************)
AnswersAt(way, target, f, call) == f[call] = AnswerFrom(way, target, f, call[1], call[2])
Answers(way, target, f) ==
  f = [call \in Calls(target) |-> AnswerFrom(way, target, f, call[1], call[2])]

LEMMA AsksDeeper ==
  ASSUME TreeOK, NEW target \in Path, NEW way, NEW r \in Refs, NEW depth \in 0 .. Len(target),
         NEW f, NEW g,
         \A x \in Refs, e \in depth + 1 .. Len(target) : f[<<x, e>>] = g[<<x, e>>]
  PROVE  AnswerFrom(way, target, f, r, depth) = AnswerFrom(way, target, g, r, depth)
<1>1. CASE ~ IsInner(r)
  BY <1>1 DEF AnswerFrom, CeilingFrom, FloorFrom
<1>2. CASE IsInner(r) /\ (WalkPrefixToward(nodes[r].prefix, target, depth) # "matched"
                          \/ Consumed(r, depth) = Len(target))
  BY <1>2 DEF AnswerFrom, CeilingFrom, FloorFrom
<1>3. CASE IsInner(r) /\ WalkPrefixToward(nodes[r].prefix, target, depth) = "matched"
           /\ Consumed(r, depth) # Len(target)
  <2> DEFINE n == Consumed(r, depth)
             b == target[n + 1]
             x == FindChild(r, b)
  <2>1. r \in DOMAIN nodes /\ nodes[r].prefix \in Path
    BY <1>3, RefTypes, NodeParts
  <2>2. n < Len(target) /\ n + 1 \in depth + 1 .. Len(target) /\ n + 1 \in 1 .. Len(target)
    <3> DEFINE p == nodes[r].prefix
               y == From(target, depth)
    <3>1. y \in Path /\ Len(y) = Len(target) - depth
      BY FromBytes
    <3>2. SharedLen(p, y) <= Len(y) /\ SharedLen(p, y) \in 0 .. Len(p)
      BY <2>1, <3>1, SharedLenMeets
    <3>3. SharedLen(p, y) = Len(p)
      BY <1>3 DEF WalkPrefixToward
    <3>4. Len(p) \in Nat /\ Len(target) \in Nat /\ depth \in Nat /\ Len(p) <= Len(target) - depth
      BY <2>1, <3>1, <3>2, <3>3, Lengths
    <3>5. n = depth + Len(p) /\ n # Len(target)
      BY <1>3 DEF Consumed
    <3> HIDE DEF p, y, n
    <3> QED BY <3>4, <3>5
  <2>3. x \in Refs
    <3>1. b \in Byte
      BY <2>2, Lengths
    <3>2. nil \in Refs
      BY RefTypes
    <3> HIDE DEF b
    <3> QED BY <2>1, <3>1, <3>2, NodeKeys
  <2>4. f[<<x, n + 1>>] = g[<<x, n + 1>>]
    BY <2>2, <2>3
  <2>5. CeilingFrom(target, f, r, depth) = CeilingFrom(target, g, r, depth)
    BY <1>3, <2>4 DEF CeilingFrom
  <2>6. FloorFrom(target, f, r, depth) = FloorFrom(target, g, r, depth)
    BY <1>3, <2>4 DEF FloorFrom
  <2> QED BY <2>5, <2>6 DEF AnswerFrom
<1> QED BY <1>1, <1>2, <1>3

\* There is such a function: answers to deep calls extend to shallower ones.
LEMMA AnswersExist ==
  ASSUME TreeOK, NEW target \in Path, NEW way
  PROVE  \E f : Answers(way, target, f)
<1> DEFINE OkFrom(n, f) ==
             /\ f = [call \in Calls(target) |-> f[call]]
             /\ \A call \in Calls(target) : call[2] >= n => AnswersAt(way, target, f, call)
           S == {n \in Nat : \E f : OkFrom(n, f)}
<1>1. Len(target) \in Nat
  BY Lengths
<1>2. \A call \in Calls(target) : call[1] \in Refs /\ call[2] \in 0 .. Len(target)
                                   /\ call = <<call[1], call[2]>>
  BY DEF Calls
<1>3. Len(target) + 1 \in S
  <2> DEFINE f == [call \in Calls(target) |-> nil]
  <2>1. f = [call \in Calls(target) |-> f[call]]
    OBVIOUS
  <2>2. \A call \in Calls(target) : ~ (call[2] >= Len(target) + 1)
    BY <1>1, <1>2
  <2> HIDE DEF f
  <2>3. OkFrom(Len(target) + 1, f)
    BY <2>1, <2>2
  <2> QED BY <1>1, <2>3
<1>4. PICK n \in S : \A m \in S : n <= m
  <2>1. S \subseteq Nat /\ S # {}
    BY <1>3
  <2> HIDE DEF S
  <2> QED BY <2>1, LeastNumber
<1>5. PICK f : OkFrom(n, f)
  BY <1>4
<1>6. n = 0
  <2> SUFFICES ASSUME n # 0 PROVE n - 1 \in S
    <3>1. ASSUME n - 1 \in S PROVE FALSE
      <4>1. n <= n - 1 /\ n \in Nat
        BY <1>4, <3>1
      <4> QED BY <4>1
    <3> QED BY <3>1
  <2>1. n \in Nat /\ n - 1 \in Nat
    BY <1>4
  <2> DEFINE g == [call \in Calls(target) |->
                     IF call[2] = n - 1 THEN AnswerFrom(way, target, f, call[1], call[2])
                     ELSE f[call]]
  <2>2. /\ g = [call \in Calls(target) |-> g[call]]
        /\ \A call \in Calls(target) : call[2] = n - 1 =>
             g[call] = AnswerFrom(way, target, f, call[1], call[2])
        /\ \A call \in Calls(target) : call[2] # n - 1 => g[call] = f[call]
    OBVIOUS
  <2> HIDE DEF g
  <2>3. \A call \in Calls(target) : call[2] >= n - 1 => AnswersAt(way, target, g, call)
    <3> SUFFICES ASSUME NEW call \in Calls(target), call[2] >= n - 1
                 PROVE  AnswersAt(way, target, g, call)
      OBVIOUS
    <3> DEFINE r == call[1]
               d == call[2]
    <3>1. r \in Refs /\ d \in 0 .. Len(target) /\ d \in Nat
      BY <1>2
    <3>2. \A x \in Refs, e \in d + 1 .. Len(target) : f[<<x, e>>] = g[<<x, e>>]
      <4> SUFFICES ASSUME NEW x \in Refs, NEW e \in d + 1 .. Len(target)
                   PROVE  f[<<x, e>>] = g[<<x, e>>]
        OBVIOUS
      <4>1. e \in 0 .. Len(target) /\ e # n - 1
        BY <1>1, <2>1, <3>1
      <4>2. <<x, e>> \in Calls(target) /\ <<x, e>>[2] = e
        BY <4>1 DEF Calls
      <4> QED BY <2>2, <4>1, <4>2
    <3> HIDE DEF r, d
    <3>3. AnswerFrom(way, target, f, r, d) = AnswerFrom(way, target, g, r, d)
      BY <3>1, <3>2, AsksDeeper
    <3>4. CASE d = n - 1
      BY <2>2, <3>3, <3>4 DEF r, d, AnswersAt
    <3>5. CASE d # n - 1
      <4>1. d >= n
        BY <2>1, <3>1, <3>5 DEF d
      <4>2. f[call] = AnswerFrom(way, target, f, r, d)
        BY <1>5, <4>1 DEF AnswersAt, r, d
      <4> QED BY <2>2, <3>3, <3>5, <4>2 DEF r, d, AnswersAt
    <3> QED BY <3>4, <3>5
  <2>4. OkFrom(n - 1, g)
    BY <2>2, <2>3
  <2> QED BY <2>1, <2>4
<1>7. \A call \in Calls(target) : f[call] = AnswerFrom(way, target, f, call[1], call[2])
  BY <1>2, <1>5, <1>6 DEF AnswersAt
<1>8. f = [call \in Calls(target) |-> f[call]]
  BY <1>5
<1> HIDE DEF OkFrom, S
<1>9. Answers(way, target, f)
  BY <1>7, <1>8 DEF Answers
<1> QED BY <1>9

\* Every such function answers rightly at every call in its slot: the deepest
\* call that did not would have only right ones below it.
LEMMA AnswersRight ==
  ASSUME TreeOK, NEW target \in Path, NEW way, NEW f, Answers(way, target, f),
         NEW d \in 0 .. Len(target), NEW r
  PROVE  RightAt(way, target, f, r, d)
<1> DEFINE n == Len(target)
           W == {e \in 0 .. n : \E x : ~ RightAt(way, target, f, x, e)}
           N == {n - e : e \in W}
<1>1. n \in Nat
  BY Lengths
<1>2. ASSUME W # {} PROVE FALSE
  <2>1. \A e \in W : n - e \in Nat
    BY <1>1
  <2>2. N \subseteq Nat /\ N # {}
    BY <1>2, <2>1
  <2>3. PICK m \in N : \A l \in N : m <= l
    BY <2>2, LeastNumber
  <2>4. PICK e \in W : m = n - e
    BY <2>3
  <2>5. e \in 0 .. n
    OBVIOUS
  <2>6. \A l \in e + 1 .. n : \A x : RightAt(way, target, f, x, l)
    <3> SUFFICES ASSUME NEW l \in e + 1 .. n PROVE l \notin W
      <4>1. \A l \in e + 1 .. n : l \in 0 .. n
        BY <1>1, <2>5
      <4> QED BY <4>1
    <3>1. SUFFICES ASSUME l \in W PROVE FALSE
      OBVIOUS
    <3>2. n - e <= n - l
      BY <2>3, <2>4, <3>1
    <3> QED BY <1>1, <2>5, <3>2
  <2>7. PICK x : ~ RightAt(way, target, f, x, e)
    OBVIOUS
  <2> HIDE DEF W, N, n
  <2>8. SlotOK(nodes, stored, x, Upto(target, e)) /\ Upto(target, e) \in Path
    BY <2>5, <2>7, UptoStarts DEF RightAt, n
  <2>9. x \in Refs /\ Behind(x) = Under(stored, Upto(target, e))
    BY <2>8, SlotHolds
  <2>10. f[<<x, e>>] = AnswerFrom(way, target, f, x, e)
    <3>1. <<x, e>> \in Calls(target) /\ <<x, e>>[1] = x /\ <<x, e>>[2] = e
      BY <2>5, <2>9 DEF Calls, n
    <3> QED BY <3>1 DEF Answers
  <2>11. Right(way, target, Behind(x), AnswerFrom(way, target, f, x, e))
    <3>1. CASE x \notin DOMAIN nodes
      BY <2>9, <3>1, BottomAnswers
    <3>2. CASE x \in DOMAIN nodes
      BY <2>5, <2>6, <2>8, <3>2, NodeAnswers DEF n
    <3> QED BY <3>1, <3>2
  <2> QED BY <2>7, <2>9, <2>10, <2>11 DEF RightAt
<1> QED BY <1>2

\* What the tree's Ceiling and Floor return.
LEMMA TreeAnswers ==
  ASSUME TreeOK, NEW target \in Path
  PROVE  /\ LeastOf({k \in stored : ~ Less(k, target)}, ceilingLeafOf(target))
         /\ GreatestOf({k \in stored : ~ Less(target, k)}, floorLeafOf(target))
<1> DEFINE up == CHOOSE f : Answers("ceiling", target, f)
           down == CHOOSE f : Answers("floor", target, f)
<1>1. Answers("ceiling", target, up) /\ Answers("floor", target, down)
  BY AnswersExist
<1>2. ceilingLeafOf(target) = up[<<root, 0>>]
  BY DEF ceilingLeafOf, Answers, AnswerFrom
<1>3. floorLeafOf(target) = down[<<root, 0>>]
  BY DEF floorLeafOf, Answers, AnswerFrom
<1> HIDE DEF up, down
<1>4. 0 \in 0 .. Len(target) /\ Upto(target, 0) = <<>>
  <2>1. 0 \in 0 .. Len(target)
    BY Lengths
  <2>2. Upto(target, 0) \in Path /\ Len(Upto(target, 0)) = 0
    BY <2>1, UptoStarts
  <2> QED BY <2>1, <2>2, StartsOrder
<1>5. SlotOK(nodes, stored, root, <<>>)
  BY DEF TreeOK, Whole
<1>6. Under(stored, <<>>) = stored
  BY StartsOrder DEF TreeOK, Under
<1>7. /\ Right("ceiling", target, stored, up[<<root, 0>>])
      /\ Right("floor", target, stored, down[<<root, 0>>])
  <2>1. RightAt("ceiling", target, up, root, 0) /\ RightAt("floor", target, down, root, 0)
    BY <1>1, <1>4, AnswersRight
  <2> QED BY <1>4, <1>5, <1>6, <2>1 DEF RightAt
<1> QED BY <1>2, <1>3, <1>7 DEF Right

\* What Min and Max return.
LEMMA TreeExtremes ==
  ASSUME TreeOK
  PROVE  LeastOf(stored, minLeafOf[root]) /\ GreatestOf(stored, maxLeafOf[root])
<1>1. SlotOK(nodes, stored, root, <<>>) /\ <<>> \in Path
  BY StartsOrder DEF TreeOK, Whole
<1>2. root \in Refs /\ Behind(root) = Under(stored, <<>>)
  BY <1>1, SlotHolds
<1>3. Under(stored, <<>>) = stored
  BY StartsOrder DEF TreeOK, Under
<1> QED BY <1>2, <1>3, ExtremeLeaves
-----------------------------------------------------------------------------
\* The tree is whole from the start and no query changes it.
LEMMA TreeStays == Spec => []TreeOK
<1>1. Init => TreeOK
  <2> SUFFICES ASSUME Init PROVE TreeOK
    OBVIOUS
  <2>1. stored \in SUBSET Path /\ IsFiniteSet(stored)
    BY KeysAssumption DEF Init, Path
  <2>2. Whole(ShapeOf(stored), stored, Top(stored, <<>>))
    BY <2>1, ShapeIsWhole
  <2> QED BY <2>1, <2>2 DEF Init, TreeOK
<1>2. TreeOK /\ [Next]_qVars => TreeOK'
  BY DEF TreeOK, Next, qVars, AskMin, AskMax, AskCeiling, AskFloor, Asks, qTree
<1> QED BY <1>1, <1>2, PTL DEF Spec

Sorted == CeilingIsLeast /\ FloorIsGreatest

\* Min, Max, Ceiling and Floor answer right about any whole tree.
LEMMA QueriesRight == Spec => []Sorted
<1>1. Init => Sorted
  BY DEF Init, NoQuery, Sorted, CeilingIsLeast, FloorIsGreatest
<1>2. TreeOK /\ TreeOK' /\ Sorted /\ [Next]_qVars => Sorted'
  <2> SUFFICES ASSUME TreeOK, Sorted, [Next]_qVars PROVE Sorted'
    OBVIOUS
  <2>1. CASE UNCHANGED qVars
    BY <2>1 DEF Sorted, CeilingIsLeast, FloorIsGreatest, qVars
  <2>2. CASE AskMin
    BY <2>2, TreeExtremes DEF AskMin, Asks, qTree, Sorted, CeilingIsLeast, FloorIsGreatest
  <2>3. CASE AskMax
    BY <2>3, TreeExtremes DEF AskMax, Asks, qTree, Sorted, CeilingIsLeast, FloorIsGreatest
  <2>4. ASSUME NEW target \in Targets, AskCeiling(target) PROVE Sorted'
    <3>1. target \in Path
      BY TargetsAssumption DEF Path
    <3> QED BY <2>4, <3>1, TreeAnswers
            DEF AskCeiling, Asks, qTree, Sorted, CeilingIsLeast, FloorIsGreatest
  <2>5. ASSUME NEW target \in Targets, AskFloor(target) PROVE Sorted'
    <3>1. target \in Path
      BY TargetsAssumption DEF Path
    <3> QED BY <2>5, <3>1, TreeAnswers
            DEF AskFloor, Asks, qTree, Sorted, CeilingIsLeast, FloorIsGreatest
  <2> QED BY <2>1, <2>2, <2>3, <2>4, <2>5 DEF Next
<1> QED BY <1>1, <1>2, TreeStays, PTL DEF Spec

\* Min and Ceiling find the least stored key, at or above the target, in every
\* tree of any keys, however its prefixes are compressed.
THEOREM SortedCeilingIsLeast == Spec => []CeilingIsLeast
<1>1. Sorted => CeilingIsLeast
  BY DEF Sorted
<1> QED BY <1>1, QueriesRight, PTL

\* Max and Floor find the greatest stored key, at or below the target.
THEOREM SortedFloorIsGreatest == Spec => []FloorIsGreatest
<1>1. Sorted => FloorIsGreatest
  BY DEF Sorted
<1> QED BY <1>1, QueriesRight, PTL
=============================================================================
