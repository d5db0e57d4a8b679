--------------------------- MODULE InnerNodeProofs ---------------------------
(***************************************************************************)
(* The specification of InnerNode, for all capacities, bytes and children: *)
(* its properties, and that the four layouts implement ChildMap.           *)
(*                                                                         *)
(* The first part has one lemma per operation and type: each preserves the *)
(* layout of its type, and the lemma says what its result's header is and  *)
(* what findChild answers of it at any byte.  Good(m) is what holds of a   *)
(* node object m between two calls, whichever its type: its layout (Laid)  *)
(* and an exact count (Counted).                                           *)
(*                                                                         *)
(* The second part is about the state machine.  The inductive invariant    *)
(* IInv is Good of the node under study together with KindFits.            *)
(***************************************************************************)
EXTENDS InnerNode, NodeKindsProofs

Slot == Nodes \cup {nil}
Fields == {"kind", "num", "prefix", "terminal", "edge", "child", "index"}
Live(m) == 0 .. m.num - 1

Header(m, kind, prefix, terminal) ==
  /\ DOMAIN m = Fields
  /\ m.kind = kind /\ m.prefix = prefix /\ m.terminal = terminal

Typed(m) ==
  /\ DOMAIN m = Fields
  /\ m.kind \in InnerKinds /\ m.prefix \in Prefixes /\ m.terminal \in Slot
  /\ m.num \in 0 .. Capacity(m.kind)
  /\ m.child \in [Slots(m.kind) -> Slot]
  /\ m.kind # "node256" => m.edge \in [Slots(m.kind) -> Byte]
  /\ m.kind = "node48" => m.index \in [Byte -> 0 .. Capacity("node48")]

\* The slots in use are the first num ones, in every type but node256.
Filled(m) ==
  /\ \A i \in Live(m) : m.child[i] # nil
  /\ \A i \in Slots(m.kind) : i >= m.num => m.child[i] = nil

Ascending(m) == \A i, j \in Live(m) : j < i => m.edge[j] < m.edge[i]

Indexed(m) ==
  /\ \A i \in Live(m) : m.index[m.edge[i]] = i + 1
  /\ \A b \in Byte : m.index[b] # 0 =>
       m.index[b] <= m.num /\ m.edge[m.index[b] - 1] = b

\* num counts the children: every decision to grow or to shrink rests on it.
Counted(m) == m.num = Cardinality(Edges(m))

Laid(m) ==
  /\ Typed(m)
  /\ m.kind # "node256" => Filled(m)
  /\ IsSorted(m) => Ascending(m)
  /\ m.kind = "node48" => Indexed(m)

Good(m) == Laid(m) /\ Counted(m)

-----------------------------------------------------------------------------
\* The capacities by type: at least two, at most one slot per byte.
LEMMA CapacityFacts ==
  /\ Capacity("node4") = node4Capacity /\ Capacity("node16") = node16Capacity
  /\ Capacity("node48") = node48Capacity /\ Capacity("node256") = node256Capacity
  /\ \A kind \in InnerKinds :
       Capacity(kind) \in Nat /\ 2 <= Capacity(kind) /\ Capacity(kind) <= node256Capacity
  BY CapacityAssumption DEF Capacity, InnerKinds

\* A node4, node16 or node48 counts within uint8; a node256 within uint16.
LEMMA CountersFit ==
  /\ \A x \in 0 .. node48Capacity : Uint8(x) = x
  /\ \A x \in 0 .. node256Capacity : Uint16(x) = x
<1> DEFINE k == node256Capacity
<1>1. k \in Nat \ {0} /\ node48Capacity \in Nat /\ node48Capacity < k
  BY CapacityAssumption
<1>2. k * k \in Nat \ {0} /\ k < k * k
  <2>1. k \in Nat /\ 2 <= k
    BY CapacityAssumption
  <2> HIDE DEF k
  <2>2. \A x \in Nat : 2 <= x => x * x \in Nat \ {0} /\ x < x * x
    OBVIOUS
  <2>3. QED
    BY <2>1, <2>2
<1>3. ASSUME NEW x \in 0 .. node48Capacity PROVE Uint8(x) = x
  <2>1. x \in 0 .. k - 1
    BY <1>1
  <2>2. QED
    BY <2>1, <1>1, SmallRemainder DEF Uint8
<1>4. ASSUME NEW x \in 0 .. node256Capacity PROVE Uint16(x) = x
  <2>1. x \in 0 .. k * k - 1
    BY <1>1, <1>2
  <2>2. QED
    BY <2>1, <1>2, SmallRemainder DEF Uint16
<1>5. QED
  BY <1>3, <1>4

\* A node's live bytes are finitely many numbers.
LEMMA EdgesFinite ==
  ASSUME NEW m
  PROVE  /\ IsFiniteSet(Edges(m)) /\ Edges(m) \subseteq Nat
         /\ Cardinality(Edges(m)) \in Nat
<1>1. Edges(m) \in SUBSET Byte
  BY DEF Edges
<1>2. IsFiniteSet(Edges(m))
  BY <1>1, ByteFinite, FS_Subset
<1>3. QED
  BY <1>1, <1>2, ByteFinite, FS_CardinalityType

-----------------------------------------------------------------------------
\* The slots in use lie within the arrays of the node's type.
LEMMA LiveSlots ==
  ASSUME NEW m, Typed(m)
  PROVE  /\ m.num \in Nat /\ Live(m) \subseteq Slots(m.kind)
         /\ Live(m) \subseteq Nat
         /\ Capacity(m.kind) \in Nat /\ Capacity(m.kind) <= node256Capacity
         /\ IsSorted(m) => m.kind # "node256" /\ m.kind # "node48"
  BY CapacityFacts DEF Typed, Live, Slots, IsSorted

\* In a sorted node each live byte is found in its own slot, and no other.
LEMMA SortedSlot ==
  ASSUME NEW m, Laid(m), IsSorted(m), NEW i \in Live(m)
  PROVE  SlotsWith(m, m.edge[i]) = {i} /\ SlotOf(m, m.edge[i]) = i
<1>1. m.num \in Int
  BY CapacityFacts DEF Laid, Typed
<1>2. \A j \in Live(m) : m.edge[j] \in Int
  <2>1. m.edge \in [Slots(m.kind) -> Byte] /\ Live(m) \subseteq Slots(m.kind)
    BY LiveSlots DEF Laid, Typed
  <2>2. \A j \in Live(m) : m.edge[j] \in Byte
    BY <2>1
  <2>3. \A x \in Byte : x \in Nat
    BY ByteFinite
  <2>4. QED
    BY <2>2, <2>3
<1>3. \A j \in Live(m) : m.edge[j] = m.edge[i] => j = i
  <2>1. SUFFICES ASSUME NEW j \in Live(m), m.edge[j] = m.edge[i], j # i
                 PROVE  FALSE
    OBVIOUS
  <2>2. j < i \/ i < j
    BY <2>1, <1>1 DEF Live
  <2>3. QED
    BY <2>1, <2>2, <1>2 DEF Laid, Ascending
<1>4. SlotsWith(m, m.edge[i]) = {i}
  BY <1>3 DEF SlotsWith, Live
<1>5. i <= i
  BY <1>1 DEF Live
<1>6. QED
  BY <1>4, <1>5 DEF SlotOf

\* findChild in terms of slots, for node4, node16 and node48 alike.
LEMMA FindInSlots ==
  ASSUME NEW m, Laid(m), m.kind # "node256"
  PROVE  /\ \A i \in Live(m) : /\ m.edge[i] \in Byte
                               /\ FindChild(m, m.edge[i]) = m.child[i]
                               /\ m.child[i] \in Nodes
         /\ \A b \in Byte : FindChild(m, b) # nil => \E i \in Live(m) : m.edge[i] = b
<1>1. m.num \in Nat /\ Live(m) \subseteq Slots(m.kind)
  BY LiveSlots DEF Laid
<1>2. \A i \in Live(m) : m.edge[i] \in Byte /\ m.child[i] \in Nodes
  BY <1>1 DEF Laid, Typed, Filled, Slot
<1>3. CASE IsSorted(m)
  <2>1. \A b : FindChild(m, b) = FindSorted(m, b)
    BY <1>3 DEF FindChild, IsSorted
  <2>2. ASSUME NEW i \in Live(m) PROVE FindChild(m, m.edge[i]) = m.child[i]
    BY <2>1, <1>3, SortedSlot DEF FindSorted
  <2>3. ASSUME NEW b \in Byte, FindChild(m, b) # nil
        PROVE  \E i \in Live(m) : m.edge[i] = b
    BY <2>1, <2>3 DEF FindSorted, SlotsWith, Live
  <2>4. QED
    BY <1>2, <2>2, <2>3
<1>4. CASE m.kind = "node48"
  <2>1. \A b : FindChild(m, b) = FindDense(m, b)
    BY <1>4 DEF FindChild, IsSorted
  <2>2. ASSUME NEW i \in Live(m) PROVE FindChild(m, m.edge[i]) = m.child[i]
    <3>1. m.index[m.edge[i]] = i + 1 /\ i \in Int /\ 0 <= i
      BY <1>1, <1>4 DEF Laid, Indexed, Live
    <3>2. i + 1 # 0 /\ i + 1 - 1 = i
      BY <3>1
    <3>3. QED
      BY <2>1, <3>1, <3>2 DEF FindDense
  <2>3. ASSUME NEW b \in Byte, FindChild(m, b) # nil
        PROVE  \E i \in Live(m) : m.edge[i] = b
    <3>1. m.index[b] # 0
      BY <2>1, <2>3 DEF FindDense
    <3>2. m.index[b] \in Nat
      BY <1>4, CapacityFacts DEF Laid, Typed
    <3>3. m.index[b] <= m.num /\ m.edge[m.index[b] - 1] = b
      BY <3>1, <1>4 DEF Laid, Indexed
    <3>4. m.index[b] - 1 \in Live(m)
      BY <3>1, <3>2, <3>3, <1>1 DEF Live
    <3>5. QED
      BY <3>3, <3>4
  <2>4. QED
    BY <1>2, <2>2, <2>3
<1>5. QED
  BY <1>3, <1>4 DEF Laid, Typed, IsSorted, InnerKinds

-----------------------------------------------------------------------------
(***************************************************************************)
(* Adding.  Extended(r, m, b, c): r is m with child c under the new byte b.*)
(***************************************************************************)
Found(r, m, b, c) ==
  \A x \in Byte : FindChild(r, x) = IF x = b THEN c ELSE FindChild(m, x)

Extended(r, m, b, c) ==
  /\ Laid(r) /\ Header(r, m.kind, m.prefix, m.terminal)
  /\ r.num = m.num + 1 /\ Found(r, m, b, c)

\* The hypotheses under which addChild is called.
Addable(m, b, c) ==
  /\ Laid(m) /\ m.num < Capacity(m.kind)
  /\ b \in Byte /\ c \in Nodes /\ FindChild(m, b) = nil

\* addChild's num++ keeps the count exact, whichever layout it is.
LEMMA ExtendedCounts ==
  ASSUME NEW m, NEW r, NEW b \in Byte, NEW c \in Nodes, FindChild(m, b) = nil,
         Counted(m), Extended(r, m, b, c)
  PROVE  Good(r)
<1>1. Edges(r) = Edges(m) \cup {b} /\ b \notin Edges(m)
  BY NilAssumption DEF Edges, Extended, Found
<1>2. Cardinality(Edges(r)) = Cardinality(Edges(m)) + 1
  BY <1>1, EdgesFinite, FS_AddElement
<1>3. QED
  BY <1>2 DEF Good, Counted, Extended

\* The scan of addChild stops at the slot that keeps the edges ascending.
LEMMA InsertionSlotFound ==
  ASSUME NEW m, NEW b, NEW c, Addable(m, b, c), IsSorted(m)
  PROVE  /\ InsertionSlot(m, b) \in 0 .. m.num
         /\ \A j \in Live(m) : /\ j < InsertionSlot(m, b) => m.edge[j] < b
                               /\ InsertionSlot(m, b) <= j => b < m.edge[j]
<1> DEFINE i == InsertionSlot(m, b)
           S == {j \in 0 .. m.num : j = m.num \/ m.edge[j] >= b}
           Stops(j) == /\ \A k \in 0 .. j - 1 : m.edge[k] < b
                       /\ j = m.num \/ m.edge[j] >= b
<1>1. Laid(m) /\ m.kind # "node256" /\ b \in Nat
  BY LiveSlots, ByteFinite DEF Addable, Laid
<1>2. m.num \in Nat /\ \A j \in Live(m) : m.edge[j] \in Nat
  BY <1>1, LiveSlots, FindInSlots, ByteFinite DEF Laid
<1>3. \A j \in Live(m) : m.edge[j] # b
  BY <1>1, FindInSlots, NilAssumption DEF Addable
<1>4. \E j \in 0 .. m.num : Stops(j)
  <2>1. S \subseteq Nat /\ m.num \in S
    BY <1>2
  <2>2. PICK j \in S : \A k \in S : j <= k
    BY <2>1, LeastNumber
  <2>3. ASSUME NEW k \in 0 .. j - 1 PROVE m.edge[k] < b
    <3>1. k \in Live(m) /\ k \notin S
      BY <1>2, <2>1, <2>2 DEF Live
    <3>2. QED
      BY <3>1, <1>1, <1>2 DEF Live
  <2>4. QED
    BY <2>2, <2>3
<1>5. i \in 0 .. m.num /\ Stops(i)
  BY <1>4 DEF InsertionSlot
<1> HIDE DEF i
<1>6. ASSUME NEW j \in Live(m), j < i PROVE m.edge[j] < b
  BY <1>5, <1>6, <1>2 DEF Live
<1>7. ASSUME NEW j \in Live(m), i <= j PROVE b < m.edge[j]
  <2>1. i \in Live(m) /\ m.edge[i] >= b /\ m.edge[i] # b
    BY <1>2, <1>3, <1>5, <1>7 DEF Live
  <2>2. i = j \/ m.edge[i] < m.edge[j]
    BY <2>1, <1>1, <1>2, <1>7 DEF Laid, Ascending, Addable, Live
  <2>3. QED
    BY <2>1, <2>2, <1>1, <1>2
<1>8. QED
  BY <1>5, <1>6, <1>7 DEF i

\* r is a with x in slot i, and slots i .. num - 1 one place further on.
ShiftedUp(r, a, cap, T, num, i, x) ==
  /\ r \in [0 .. cap - 1 -> T]
  /\ r[i] = x
  /\ \A j \in 0 .. num : j < i => r[j] = a[j]
  /\ \A j \in 0 .. num : i < j => r[j] = a[j - 1]
  /\ \A j \in 0 .. cap - 1 : num < j => r[j] = a[j]

\* The shift in addChild of node4 and node16, array by array.
LEMMA InsertedArray ==
  ASSUME NEW cap \in Nat, NEW T, NEW a \in [0 .. cap - 1 -> T], NEW num \in Nat,
         num < cap, NEW i \in 0 .. num, NEW x \in T
  PROVE  ShiftedUp(Inserted(a, i, num, x), a, cap, T, num, i, x)
<1> DEFINE r == Inserted(a, i, num, x)
<1>1. r = [j \in 0 .. cap - 1 |-> IF j = i THEN x
                                  ELSE IF i < j /\ j <= num THEN a[j - 1]
                                  ELSE a[j]]
  BY DEF Inserted
<1>2. \A j \in 0 .. cap - 1 : i < j /\ j <= num => j - 1 \in 0 .. cap - 1
  OBVIOUS
<1> HIDE DEF r
<1>3. r \in [0 .. cap - 1 -> T]
  BY <1>1, <1>2
<1>4. ShiftedUp(r, a, cap, T, num, i, x)
  BY <1>1, <1>3 DEF ShiftedUp
<1>5. QED
  BY <1>4 DEF r

\* addChild of node4 and node16.
LEMMA InsertSortedExtends ==
  ASSUME NEW m, NEW b, NEW c, Addable(m, b, c), IsSorted(m)
  PROVE  Extended(InsertSorted(m, b, c), m, b, c)
<1> DEFINE i == InsertionSlot(m, b)
           r == InsertSorted(m, b, c)
           num == m.num
<1>1. /\ Laid(m) /\ m.kind # "node256" /\ m.kind # "node48"
      /\ b \in Byte /\ c \in Slot /\ c # nil
      /\ num \in Nat /\ Capacity(m.kind) \in Nat /\ num < Capacity(m.kind)
  BY LiveSlots, NilAssumption DEF Addable, Laid, Slot
<1>2. /\ i \in 0 .. num
      /\ \A j \in Live(m) : j < i => m.edge[j] < b
      /\ \A j \in Live(m) : i <= j => b < m.edge[j]
  BY InsertionSlotFound
<1>3. Uint8(num + 1) = num + 1
  <2>1. num + 1 \in 0 .. node48Capacity
    BY <1>1, CapacityFacts, CapacityAssumption DEF IsSorted, Addable
  <2>2. QED
    BY <2>1, CountersFit
<1>4. /\ Header(r, m.kind, m.prefix, m.terminal) /\ r.num = num + 1
      /\ r.edge = Inserted(m.edge, i, num, b)
      /\ r.child = Inserted(m.child, i, num, c)
  BY <1>1, <1>3 DEF Laid, Typed, Fields, Header, InsertSorted
<1> HIDE DEF i, r
<1>5. m.edge \in [Slots(m.kind) -> Byte] /\ m.child \in [Slots(m.kind) -> Slot]
  BY <1>1 DEF Laid, Typed
<1>6. Slots(m.kind) = 0 .. Capacity(m.kind) - 1
  BY DEF Slots
<1>7. /\ r.edge \in [Slots(m.kind) -> Byte] /\ r.child \in [Slots(m.kind) -> Slot]
      /\ r.edge[i] = b /\ r.child[i] = c
      /\ \A j \in 0 .. num : j < i => r.edge[j] = m.edge[j] /\ r.child[j] = m.child[j]
      /\ \A j \in 0 .. num : i < j => r.edge[j] = m.edge[j - 1] /\ r.child[j] = m.child[j - 1]
      /\ \A j \in Slots(m.kind) : num < j => r.child[j] = m.child[j]
  <2>1. m.edge \in [0 .. Capacity(m.kind) - 1 -> Byte]
    BY <1>5, <1>6
  <2>2. m.child \in [0 .. Capacity(m.kind) - 1 -> Slot]
    BY <1>5, <1>6
  <2>3. ShiftedUp(r.edge, m.edge, Capacity(m.kind), Byte, num, i, b)
    BY <2>1, <1>1, <1>2, <1>4, InsertedArray
  <2>4. ShiftedUp(r.child, m.child, Capacity(m.kind), Slot, num, i, c)
    BY <2>2, <1>1, <1>2, <1>4, InsertedArray
  <2>5. QED
    BY <2>3, <2>4, <1>6 DEF ShiftedUp
<1>8. Live(r) = 0 .. num /\ Live(m) = 0 .. num - 1
  BY <1>1, <1>4 DEF Live
<1>9. Laid(r)
  <2>1. Typed(r)
    BY <1>1, <1>4, <1>7 DEF Typed, Laid, Header
  <2>2. Filled(r)
    <3>1. ASSUME NEW j \in 0 .. num PROVE r.child[j] # nil
      <4>1. CASE j < i
        BY <4>1, <1>1, <1>2, <1>7, <1>8 DEF Laid, Filled
      <4>2. CASE i < j
        BY <4>2, <1>1, <1>2, <1>7, <1>8 DEF Laid, Filled
      <4>3. QED
        BY <4>1, <4>2, <1>1, <1>2, <1>7
    <3>2. ASSUME NEW j \in Slots(m.kind), j >= num + 1 PROVE r.child[j] = nil
      BY <3>2, <1>1, <1>6, <1>7 DEF Laid, Filled
    <3>3. QED
      BY <3>1, <3>2, <1>4, <1>8 DEF Filled, Header
  <2>3. Ascending(r)
    <3>1. SUFFICES ASSUME NEW j \in 0 .. num, NEW k \in 0 .. num, k < j
                   PROVE  r.edge[k] < r.edge[j]
      BY <1>8 DEF Ascending
    <3>2. CASE j < i
      BY <3>1, <3>2, <1>1, <1>2, <1>7, <1>8 DEF Laid, Ascending
    <3>3. CASE j = i
      BY <3>1, <3>3, <1>1, <1>2, <1>7, <1>8
    <3>4. CASE i < j
      <4>1. r.edge[j] = m.edge[j - 1] /\ j - 1 \in Live(m) /\ i <= j - 1
        BY <3>4, <1>1, <1>2, <1>7, <1>8
      <4>2. CASE k = i
        BY <4>1, <4>2, <1>2, <1>7
      <4>3. CASE k < i
        <5>1. r.edge[k] = m.edge[k] /\ k \in Live(m) /\ k < j - 1
          BY <4>1, <4>3, <1>1, <1>2, <1>7, <1>8
        <5>2. QED
          BY <4>1, <5>1, <1>1 DEF Laid, Ascending
      <4>4. CASE i < k
        <5>1. r.edge[k] = m.edge[k - 1] /\ k - 1 \in Live(m) /\ k - 1 < j - 1
          BY <4>4, <3>1, <1>1, <1>2, <1>7, <1>8
        <5>2. QED
          BY <4>1, <5>1, <1>1 DEF Laid, Ascending
      <4>5. QED
        BY <4>2, <4>3, <4>4, <1>2
    <3>6. QED
      BY <3>2, <3>3, <3>4, <1>2
  <2>4. QED
    BY <2>1, <2>2, <2>3, <1>1, <1>4 DEF Laid, Header
<1>10. ASSUME NEW x \in Byte
       PROVE  FindChild(r, x) = IF x = b THEN c ELSE FindChild(m, x)
  <2>1. \A j \in 0 .. num : FindChild(r, r.edge[j]) = r.child[j]
    BY <1>1, <1>4, <1>8, <1>9, FindInSlots DEF Header
  <2>2. \A j \in Live(m) : FindChild(m, m.edge[j]) = m.child[j]
    BY <1>1, FindInSlots
  <2>3. CASE x = b
    BY <2>1, <2>3, <1>2, <1>7
  <2>4. CASE x # b /\ \E j \in Live(m) : m.edge[j] = x
    <3>1. PICK j \in Live(m) : m.edge[j] = x
      BY <2>4
    <3>2. CASE j < i
      BY <3>1, <3>2, <2>1, <2>2, <2>4, <1>1, <1>2, <1>7, <1>8
    <3>3. CASE i <= j
      <4> DEFINE k == j + 1
      <4>1. k \in 0 .. num /\ i < k /\ k - 1 = j
        BY <3>3, <1>1, <1>2, <1>8
      <4> HIDE DEF k
      <4>2. r.edge[k] = m.edge[j] /\ r.child[k] = m.child[j]
        BY <4>1, <1>7
      <4>3. QED
        BY <4>1, <4>2, <3>1, <2>1, <2>2, <2>4
    <3>4. QED
      BY <3>2, <3>3, <1>1, <1>2, <1>8
  <2>5. CASE x # b /\ ~ \E j \in Live(m) : m.edge[j] = x
    <3>1. FindChild(m, x) = nil
      BY <2>5, <1>1, FindInSlots
    <3>2. ASSUME NEW j \in 0 .. num PROVE r.edge[j] # x
      <4>1. j < i => j \in Live(m)
        BY <1>1, <1>2, <1>8
      <4>2. i < j => j - 1 \in Live(m)
        BY <1>1, <1>2, <1>8
      <4>3. j < i \/ j = i \/ i < j
        BY <1>2
      <4>4. QED
        BY <4>1, <4>2, <4>3, <2>5, <1>7
    <3>3. FindChild(r, x) = nil
      BY <3>2, <1>1, <1>4, <1>8, <1>9, FindInSlots DEF Header
    <3>4. QED
      BY <2>5, <3>1, <3>3
  <2>6. QED
    BY <2>3, <2>4, <2>5
<1>11. QED
  BY <1>4, <1>9, <1>10 DEF Extended, Found, r

\* addChild of node48: the next free slot, and an index entry to it.
LEMMA AddDenseExtends ==
  ASSUME NEW m, NEW b, NEW c, Addable(m, b, c), m.kind = "node48"
  PROVE  Extended(AddDense(m, b, c), m, b, c)
<1> DEFINE r == AddDense(m, b, c)
           num == m.num
<1>1. /\ Laid(m) /\ b \in Byte /\ c \in Slot /\ c # nil
      /\ num \in Nat /\ Live(m) \subseteq Slots("node48")
      /\ Capacity("node48") \in Nat /\ num < Capacity("node48")
  BY LiveSlots, NilAssumption DEF Addable, Laid, Slot
<1>2. Uint8(num + 1) = num + 1
  <2>1. num + 1 \in 0 .. node48Capacity
    BY <1>1, CapacityFacts
  <2>2. QED
    BY <2>1, CountersFit
<1>3. /\ m.edge \in [Slots("node48") -> Byte] /\ m.child \in [Slots("node48") -> Slot]
      /\ m.index \in [Byte -> 0 .. Capacity("node48")]
  BY <1>1 DEF Laid, Typed
<1>4. /\ Header(r, "node48", m.prefix, m.terminal) /\ r.num = num + 1
      /\ r.edge = [m.edge EXCEPT ![num] = b]
      /\ r.child = [m.child EXCEPT ![num] = c]
      /\ r.index = [m.index EXCEPT ![b] = num + 1]
  BY <1>1, <1>2 DEF Laid, Typed, Fields, Header, AddDense
<1> HIDE DEF r
<1>5. Live(r) = 0 .. num /\ Live(m) = 0 .. num - 1 /\ num \in Slots("node48")
  BY <1>1, <1>4 DEF Live, Slots
<1>6. \A i \in Live(m) : m.edge[i] # b
  BY <1>1, FindInSlots, NilAssumption DEF Addable
<1>7. /\ r.edge \in [Slots("node48") -> Byte] /\ r.child \in [Slots("node48") -> Slot]
      /\ r.index \in [Byte -> 0 .. Capacity("node48")]
  <2>1. num + 1 \in 0 .. Capacity("node48")
    BY <1>1
  <2>2. r.index \in [Byte -> 0 .. Capacity("node48")]
    BY <2>1, <1>3, <1>4
  <2>3. b \in Byte /\ c \in Slot
    BY <1>1
  <2>4. r.edge \in [Slots("node48") -> Byte]
    BY <2>3, <1>3, <1>4
  <2>5. r.child \in [Slots("node48") -> Slot]
    BY <2>3, <1>3, <1>4
  <2>6. QED
    BY <2>2, <2>4, <2>5
<1>8. /\ \A i \in Slots("node48") \ {num} : r.edge[i] = m.edge[i] /\ r.child[i] = m.child[i]
      /\ r.edge[num] = b /\ r.child[num] = c
      /\ \A x \in Byte \ {b} : r.index[x] = m.index[x]
      /\ r.index[b] = num + 1
  BY <1>1, <1>3, <1>4, <1>5
<1>9. \A i \in Live(m) : i # num /\ i \in Slots("node48")
  BY <1>1, <1>5
<1>10. Laid(r)
  <2>1. Typed(r)
    BY <1>1, <1>4, <1>7 DEF Typed, Laid, Header
  <2>2. Filled(r)
    BY <1>1, <1>4, <1>5, <1>8 DEF Filled, Laid, Slots, Header
  <2>3. Indexed(r)
    <3>1. ASSUME NEW i \in 0 .. num PROVE r.index[r.edge[i]] = i + 1
      <4>1. CASE i = num
        BY <4>1, <1>8
      <4>2. CASE i # num
        <5>1. i \in Live(m) /\ r.edge[i] = m.edge[i] /\ m.edge[i] \in Byte \ {b}
          BY <4>2, <1>1, <1>3, <1>5, <1>6, <1>8
        <5>2. QED
          BY <5>1, <1>1, <1>8, CapacityFacts DEF Laid, Indexed
      <4>3. QED
        BY <4>1, <4>2
    <3>2. ASSUME NEW x \in Byte, r.index[x] # 0
          PROVE  r.index[x] <= r.num /\ r.edge[r.index[x] - 1] = x
      <4>1. CASE x = b
        BY <4>1, <1>1, <1>4, <1>8
      <4>2. CASE x # b
        <5>1. r.index[x] = m.index[x] /\ m.index[x] \in Nat
          BY <4>2, <1>1, <1>3, <1>8
        <5>2. m.index[x] <= num /\ m.edge[m.index[x] - 1] = x
          BY <3>2, <5>1, <1>1 DEF Laid, Indexed, Addable
        <5>3. m.index[x] - 1 \in Live(m)
          BY <3>2, <5>1, <5>2, <1>1, <1>5
        <5>4. QED
          BY <5>1, <5>2, <5>3, <1>1, <1>4, <1>8, <1>9
      <4>3. QED
        BY <4>1, <4>2
    <3>3. QED
      BY <3>1, <3>2, <1>5 DEF Indexed
  <2>4. QED
    BY <2>1, <2>2, <2>3, <1>4 DEF Laid, Header, IsSorted
<1>11. ASSUME NEW x \in Byte
       PROVE  FindChild(r, x) = IF x = b THEN c ELSE FindChild(m, x)
  <2>1. FindChild(r, x) = FindDense(r, x) /\ FindChild(m, x) = FindDense(m, x)
    BY <1>4 DEF FindChild, IsSorted, Header, Addable
  <2>2. CASE x = b
    BY <2>1, <2>2, <1>1, <1>8 DEF FindDense
  <2>3. CASE x # b
    <3>1. r.index[x] = m.index[x] /\ m.index[x] \in Nat
      BY <2>3, <1>3, <1>8, CapacityFacts
    <3>2. CASE m.index[x] = 0
      BY <2>1, <2>3, <3>1, <3>2 DEF FindDense
    <3>3. CASE m.index[x] # 0
      <4>1. m.index[x] <= num
        BY <3>3, <1>1 DEF Laid, Indexed
      <4>2. m.index[x] - 1 \in Live(m)
        BY <3>1, <3>3, <4>1, <1>1, <1>5
      <4>3. QED
        BY <2>1, <2>3, <3>1, <3>3, <4>2, <1>8, <1>9 DEF FindDense
    <3>4. QED
      BY <3>2, <3>3
  <2>4. QED
    BY <2>2, <2>3
<1>12. QED
  BY <1>4, <1>10, <1>11 DEF Extended, Found, r

\* addChild of node256: the 256th child still fits its uint16 counter.
LEMMA AddDirectExtends ==
  ASSUME NEW m, NEW b, NEW c, Addable(m, b, c), m.kind = "node256"
  PROVE  Extended(AddDirect(m, b, c), m, b, c)
<1> DEFINE r == AddDirect(m, b, c)
<1>1. /\ Laid(m) /\ b \in Byte /\ c \in Slot
      /\ m.num \in Nat /\ m.num < node256Capacity
  BY LiveSlots, CapacityFacts DEF Addable, Laid, Slot
<1>2. Uint16(m.num + 1) = m.num + 1 /\ m.num + 1 \in 0 .. Capacity("node256")
  <2>1. m.num + 1 \in 0 .. node256Capacity
    BY <1>1, CapacityAssumption
  <2>2. QED
    BY <2>1, CountersFit, CapacityFacts
<1>3. m.child \in [Byte -> Slot] /\ Slots("node256") = Byte
  BY <1>1, CapacityFacts DEF Laid, Typed, Slots, Byte
<1>4. /\ Header(r, "node256", m.prefix, m.terminal) /\ r.num = m.num + 1
      /\ r.child = [m.child EXCEPT ![b] = c]
  BY <1>1, <1>2 DEF Laid, Typed, Fields, Header, AddDirect
<1> HIDE DEF r
<1>5. Laid(r)
  BY <1>1, <1>2, <1>3, <1>4 DEF Laid, Typed, Header, IsSorted
<1>6. \A x \in Byte : FindChild(r, x) = r.child[x] /\ FindChild(m, x) = m.child[x]
  BY <1>4 DEF FindChild, FindDirect, IsSorted, Header
<1>7. QED
  BY <1>1, <1>3, <1>4, <1>5, <1>6 DEF Extended, Found, r

\* addChild of the innerNode interface.
LEMMA AddChildExtends ==
  ASSUME NEW m, NEW b, NEW c, Addable(m, b, c)
  PROVE  Extended(AddChild(m, b, c), m, b, c)
<1>1. m.kind \in InnerKinds
  BY DEF Addable, Laid, Typed
<1>2. CASE IsSorted(m)
  BY <1>2, InsertSortedExtends DEF AddChild, IsSorted
<1>3. CASE m.kind = "node48"
  BY <1>3, AddDenseExtends DEF AddChild, IsSorted
<1>4. CASE m.kind = "node256"
  BY <1>4, AddDirectExtends DEF AddChild, IsSorted
<1>5. QED
  BY <1>1, <1>2, <1>3, <1>4 DEF InnerKinds, IsSorted

-----------------------------------------------------------------------------
(***************************************************************************)
(* Changing type.  Converted(r, m, kind): r is m in the layout of kind.    *)
(***************************************************************************)
Converted(r, m, kind) ==
  /\ Laid(r) /\ Header(r, kind, m.prefix, m.terminal) /\ r.num = m.num
  /\ \A x \in Byte : FindChild(r, x) = FindChild(m, x)

\* A grow or a shrink copies num: it stays exact if the children do.
LEMMA ConvertedCounts ==
  ASSUME NEW m, NEW r, NEW kind, Counted(m), Converted(r, m, kind)
  PROVE  Good(r)
<1>1. Edges(r) = Edges(m)
  BY DEF Edges, Converted
<1>2. QED
  BY <1>1 DEF Good, Counted, Converted

\* Two slot layouts that agree slot by slot find the same children.
LEMMA SameSlotsSameFound ==
  ASSUME NEW m, Laid(m), m.kind # "node256", NEW r, Laid(r), r.kind # "node256",
         r.num = m.num,
         \A i \in Live(m) : r.edge[i] = m.edge[i] /\ r.child[i] = m.child[i],
         NEW x \in Byte
  PROVE  FindChild(r, x) = FindChild(m, x)
<1>1. Live(r) = Live(m)
  BY DEF Live
<1>2. CASE \E i \in Live(m) : m.edge[i] = x
  <2>1. PICK i \in Live(m) : m.edge[i] = x
    BY <1>2
  <2>2. FindChild(m, m.edge[i]) = m.child[i]
    BY FindInSlots
  <2>3. FindChild(r, r.edge[i]) = r.child[i]
    BY <1>1, FindInSlots
  <2>4. QED
    BY <2>1, <2>2, <2>3
<1>3. CASE ~ \E i \in Live(m) : m.edge[i] = x
  <2>1. FindChild(m, x) = nil
    BY <1>3, FindInSlots
  <2>2. FindChild(r, x) = nil
    BY <1>1, <1>3, FindInSlots
  <2>3. QED
    BY <2>1, <2>2
<1>4. QED
  BY <1>2, <1>3

\* copy() into a fresh, longer or shorter, array.
LEMMA CopiedArray ==
  ASSUME NEW kind, Capacity(kind) \in Nat, NEW num \in Nat, num <= Capacity(kind),
         NEW T, NEW zero \in T, NEW a, \A i \in 0 .. num - 1 : a[i] \in T
  PROVE  /\ Copied(a, num, zero, kind) \in [Slots(kind) -> T]
         /\ \A i \in 0 .. num - 1 : Copied(a, num, zero, kind)[i] = a[i]
         /\ \A i \in Slots(kind) : i >= num => Copied(a, num, zero, kind)[i] = zero
<1>1. ASSUME NEW i \in Slots(kind) PROVE (IF i < num THEN a[i] ELSE zero) \in T
  <2>1. i < num => i \in 0 .. num - 1
    BY DEF Slots
  <2>2. QED
    BY <2>1
<1>2. \A i \in 0 .. num - 1 : i \in Slots(kind) /\ i < num
  BY DEF Slots
<1>3. \A i \in Slots(kind) : i >= num => ~ (i < num)
  BY DEF Slots
<1>4. QED
  BY <1>1, <1>2, <1>3 DEF Copied

\* growToNode16 and shrinkToNode4 copy the live slots as they are.
LEMMA CopyingConverts ==
  ASSUME NEW m, Laid(m), IsSorted(m), NEW kind \in {"node4", "node16"},
         m.num <= Capacity(kind),
         NEW r, Header(r, kind, m.prefix, m.terminal), r.num = m.num,
         r.edge = Copied(m.edge, m.num, 0, kind),
         r.child = Copied(m.child, m.num, nil, kind)
  PROVE  Converted(r, m, kind)
<1>1. /\ m.num \in Nat /\ m.kind # "node256" /\ Capacity(kind) \in Nat
      /\ m.prefix \in Prefixes /\ m.terminal \in Slot /\ 0 \in Byte /\ nil \in Slot
  BY LiveSlots, CapacityFacts, CapacityAssumption
  DEF Laid, Typed, InnerKinds, Byte, Slot
<1>2. \A i \in Live(m) : m.edge[i] \in Byte /\ m.child[i] \in Slot /\ m.child[i] # nil
  BY <1>1, FindInSlots, NilAssumption DEF Slot
<1>3. Live(m) = 0 .. m.num - 1 /\ Live(r) = Live(m)
  BY DEF Live
<1>4. /\ r.edge \in [Slots(kind) -> Byte]
      /\ \A i \in Live(m) : r.edge[i] = m.edge[i]
  BY <1>1, <1>2, <1>3, CopiedArray
<1>5. /\ r.child \in [Slots(kind) -> Slot]
      /\ \A i \in Live(m) : r.child[i] = m.child[i]
      /\ \A i \in Slots(kind) : i >= m.num => r.child[i] = nil
  BY <1>1, <1>2, <1>3, CopiedArray
<1>6. Laid(r)
  <2>1. Typed(r)
    BY <1>1, <1>4, <1>5 DEF Typed, Header, InnerKinds
  <2>2. Filled(r)
    BY <1>2, <1>3, <1>5 DEF Filled, Header
  <2>3. Ascending(r)
    BY <1>3, <1>4 DEF Ascending, Laid
  <2>4. QED
    BY <2>1, <2>2, <2>3 DEF Laid, Header
<1>7. r.kind # "node256" /\ r.kind = kind
  BY DEF Header
<1>8. QED
  BY <1>1, <1>4, <1>5, <1>6, <1>7, SameSlotsSameFound DEF Converted

\* growToNode16.
LEMMA GrowToNode16Converts ==
  ASSUME NEW m, Laid(m), m.kind = "node4"
  PROVE  Converted(GrowToNode16(m), m, "node16")
<1> DEFINE r == GrowToNode16(m)
<1>1. m.num <= Capacity("node16")
  BY CapacityFacts, CapacityAssumption DEF Laid, Typed
<1>2. /\ Header(r, "node16", m.prefix, m.terminal) /\ r.num = m.num
      /\ r.edge = Copied(m.edge, m.num, 0, "node16")
      /\ r.child = Copied(m.child, m.num, nil, "node16")
  BY DEF GrowToNode16, Fresh, Header, Fields
<1> HIDE DEF r
<1>3. Converted(r, m, "node16")
  BY <1>1, <1>2, CopyingConverts DEF IsSorted
<1>4. QED
  BY <1>3 DEF r

\* shrinkToNode4.
LEMMA ShrinkToNode4Converts ==
  ASSUME NEW m, Laid(m), m.kind = "node16", m.num = Capacity("node4")
  PROVE  Converted(ShrinkToNode4(m), m, "node4")
<1> DEFINE r == ShrinkToNode4(m)
<1>1. m.num <= Capacity("node4")
  BY CapacityFacts, CapacityAssumption
<1>2. /\ Header(r, "node4", m.prefix, m.terminal) /\ r.num = m.num
      /\ r.edge = Copied(m.edge, m.num, 0, "node4")
      /\ r.child = Copied(m.child, m.num, nil, "node4")
  BY DEF ShrinkToNode4, Fresh, Header, Fields
<1> HIDE DEF r
<1>3. Converted(r, m, "node4")
  BY <1>1, <1>2, CopyingConverts DEF IsSorted
<1>4. QED
  BY <1>3 DEF r

\* A slot of a node48 and the index entry that leads to it.
LEMMA DenseIndex ==
  ASSUME NEW m, Laid(m), m.kind = "node48", NEW b \in Byte
  PROVE  /\ m.index[b] \in Nat
         /\ m.index[b] = 0 => FindChild(m, b) = nil
         /\ m.index[b] # 0 => /\ m.index[b] - 1 \in Live(m)
                              /\ m.edge[m.index[b] - 1] = b
                              /\ FindChild(m, b) = m.child[m.index[b] - 1]
                              /\ FindChild(m, b) \in Nodes
<1>1. m.index[b] \in Nat /\ m.num \in Nat
  BY LiveSlots, CapacityFacts DEF Laid, Typed
<1>2. FindChild(m, b) = FindDense(m, b)
  BY DEF FindChild, IsSorted
<1>3. CASE m.index[b] # 0
  <2>1. m.index[b] <= m.num /\ m.edge[m.index[b] - 1] = b
    BY <1>3 DEF Laid, Indexed
  <2>2. m.index[b] - 1 \in Live(m)
    BY <2>1, <1>1, <1>3 DEF Live
  <2>3. m.child[m.index[b] - 1] \in Nodes
    BY <2>2, FindInSlots
  <2>4. QED
    BY <1>1, <1>2, <1>3, <2>1, <2>2, <2>3 DEF FindDense
<1>4. QED
  BY <1>1, <1>2, <1>3 DEF FindDense

\* growToNode48: the index is built from the sorted slots.
LEMMA GrowToNode48Converts ==
  ASSUME NEW m, Laid(m), m.kind = "node16"
  PROVE  Converted(GrowToNode48(m), m, "node48")
<1> DEFINE r == GrowToNode48(m)
           num == m.num
<1>1. /\ num \in Nat /\ num <= Capacity("node48") /\ Capacity("node48") \in Nat
      /\ IsSorted(m) /\ m.prefix \in Prefixes /\ m.terminal \in Slot
      /\ 0 \in Byte /\ nil \in Slot
  BY CapacityFacts, CapacityAssumption DEF Laid, Typed, IsSorted, Byte, Slot
<1>2. \A i \in Live(m) : m.edge[i] \in Byte /\ m.child[i] \in Slot /\ m.child[i] # nil
  BY <1>1, FindInSlots, NilAssumption DEF Slot
<1>3. Live(m) = 0 .. num - 1
  BY DEF Live
<1>4. /\ Header(r, "node48", m.prefix, m.terminal) /\ r.num = num
      /\ r.edge = Copied(m.edge, num, 0, "node48")
      /\ r.child = Copied(m.child, num, nil, "node48")
      /\ r.index = [b \in Byte |-> IF SlotsWith(m, b) = {} THEN 0
                                   ELSE Uint8(SlotOf(m, b) + 1)]
  BY DEF GrowToNode48, Fresh, Header, Fields
<1> HIDE DEF r
<1>5. /\ r.edge \in [Slots("node48") -> Byte]
      /\ \A i \in Live(m) : r.edge[i] = m.edge[i]
  BY <1>1, <1>2, <1>3, <1>4, CopiedArray
<1>6. /\ r.child \in [Slots("node48") -> Slot]
      /\ \A i \in Live(m) : r.child[i] = m.child[i]
      /\ \A i \in Slots("node48") : i >= num => r.child[i] = nil
  BY <1>1, <1>2, <1>3, <1>4, CopiedArray
<1>7. \A i \in Live(m) : r.index[m.edge[i]] = i + 1
  <2>1. SUFFICES ASSUME NEW i \in Live(m) PROVE r.index[m.edge[i]] = i + 1
    OBVIOUS
  <2>2. SlotsWith(m, m.edge[i]) = {i} /\ SlotOf(m, m.edge[i]) = i
    BY <1>1, SortedSlot
  <2>3. Uint8(i + 1) = i + 1
    <3>1. i + 1 \in 0 .. node48Capacity
      BY <1>1, <1>3, CapacityFacts
    <3>2. QED
      BY <3>1, CountersFit
  <2>4. QED
    BY <2>2, <2>3, <1>2, <1>4
<1>8. \A b \in Byte : (\A i \in Live(m) : m.edge[i] # b) => r.index[b] = 0
  BY <1>3, <1>4 DEF SlotsWith
<1>9. \A b \in Byte : r.index[b] # 0 => \E i \in Live(m) : b = m.edge[i] /\ r.index[b] = i + 1
  BY <1>7, <1>8
<1>10. Laid(r)
  <2>1. Typed(r)
    <3>1. r.index \in [Byte -> 0 .. Capacity("node48")]
      <4>1. \A b \in Byte : r.index[b] \in 0 .. Capacity("node48")
        BY <1>1, <1>3, <1>9
      <4>2. DOMAIN r.index = Byte /\ r.index = [b \in Byte |-> r.index[b]]
        BY <1>4
      <4>3. QED
        BY <4>1, <4>2
    <3>2. QED
      BY <3>1, <1>1, <1>4, <1>5, <1>6 DEF Typed, Header, InnerKinds
  <2>2. Filled(r)
    BY <1>2, <1>4, <1>6 DEF Filled, Header, Live
  <2>3. Indexed(r)
    <3>1. \A i \in Live(r) : r.index[r.edge[i]] = i + 1
      BY <1>3, <1>4, <1>5, <1>7 DEF Live
    <3>2. ASSUME NEW b \in Byte, r.index[b] # 0
          PROVE  r.index[b] <= r.num /\ r.edge[r.index[b] - 1] = b
      <4>1. PICK i \in Live(m) : b = m.edge[i] /\ r.index[b] = i + 1
        BY <1>9, <3>2
      <4>2. r.index[b] - 1 = i /\ r.index[b] <= num
        BY <4>1, <1>1, <1>3
      <4>3. r.edge[i] = b
        BY <4>1, <1>5
      <4>4. QED
        BY <4>2, <4>3, <1>4
    <3>3. QED
      BY <3>1, <3>2 DEF Indexed
  <2>4. QED
    BY <2>1, <2>2, <2>3, <1>4 DEF Laid, Header, IsSorted
<1>11. QED
  <2>1. r.kind # "node256" /\ m.kind # "node256"
    BY <1>4 DEF Header
  <2>2. \A x \in Byte : FindChild(r, x) = FindChild(m, x)
    BY <2>1, <1>4, <1>5, <1>6, <1>10, SameSlotsSameFound
  <2>3. QED
    BY <2>2, <1>4, <1>10 DEF Converted, r

\* growToNode256: every index entry is followed.
LEMMA GrowToNode256Converts ==
  ASSUME NEW m, Laid(m), m.kind = "node48"
  PROVE  Converted(GrowToNode256(m), m, "node256")
<1> DEFINE r == GrowToNode256(m)
<1>1. /\ m.num \in 0 .. node256Capacity
      /\ m.prefix \in Prefixes /\ m.terminal \in Slot
  BY CapacityFacts, CapacityAssumption DEF Laid, Typed
<1>2. Uint16(m.num) = m.num
  BY <1>1, CountersFit
<1>3. Slots("node256") = Byte
  BY CapacityFacts DEF Slots, Byte
<1>4. /\ Header(r, "node256", m.prefix, m.terminal) /\ r.num = m.num
      /\ r.child = [b \in Byte |-> IF m.index[b] = 0 THEN nil
                                   ELSE m.child[m.index[b] - 1]]
  BY <1>2 DEF GrowToNode256, Fresh, Header, Fields
<1> HIDE DEF r
<1>5. \A b \in Byte : r.child[b] = FindChild(m, b) /\ r.child[b] \in Slot
  BY <1>4, DenseIndex DEF Slot
<1>6. r.child \in [Slots("node256") -> Slot]
  BY <1>3, <1>4, <1>5
<1>7. Laid(r)
  BY <1>1, <1>4, <1>6, CapacityFacts DEF Laid, Typed, Header, IsSorted, InnerKinds
<1>8. \A b \in Byte : FindChild(r, b) = r.child[b]
  BY <1>4 DEF FindChild, FindDirect, IsSorted, Header
<1>9. QED
  BY <1>4, <1>5, <1>7, <1>8 DEF Converted, r

-----------------------------------------------------------------------------
(***************************************************************************)
(* Replacing.  Replaced(r, m, b, c): r is m with c for the child under b.  *)
(***************************************************************************)
Replaced(r, m, b, c) ==
  /\ Laid(r) /\ Header(r, m.kind, m.prefix, m.terminal) /\ r.num = m.num
  /\ Found(r, m, b, c)

\* replaceChild leaves num alone: no byte becomes or ceases to be live.
LEMMA ReplacedCounts ==
  ASSUME NEW m, NEW r, NEW b \in Byte, NEW c \in Nodes, FindChild(m, b) # nil,
         Counted(m), Replaced(r, m, b, c)
  PROVE  Good(r)
<1>1. Edges(r) = Edges(m)
  BY NilAssumption DEF Edges, Replaced, Found
<1>2. QED
  BY <1>1 DEF Good, Counted, Replaced

\* Overwriting one live slot, in node4, node16 and node48 alike.
LEMMA ReplaceInSlot ==
  ASSUME NEW m, Laid(m), m.kind # "node256", NEW s \in Live(m), NEW c \in Nodes
  PROVE  Replaced([m EXCEPT !.child[s] = c], m, m.edge[s], c)
<1> DEFINE r == [m EXCEPT !.child[s] = c]
           b == m.edge[s]
<1>1. /\ Live(m) \subseteq Slots(m.kind) /\ m.num \in Nat
      /\ m.child \in [Slots(m.kind) -> Slot] /\ c \in Slot /\ c # nil
      /\ b \in Byte
  BY LiveSlots, FindInSlots, NilAssumption DEF Laid, Typed, Slot
<1>2. /\ Header(r, m.kind, m.prefix, m.terminal) /\ r.num = m.num
      /\ r.edge = m.edge /\ r.index = m.index
      /\ r.child = [m.child EXCEPT ![s] = c]
  BY DEF Laid, Typed, Fields, Header
<1> HIDE DEF r
<1>3. Live(r) = Live(m)
  BY <1>2 DEF Live
<1>4. /\ r.child \in [Slots(m.kind) -> Slot]
      /\ r.child[s] = c
      /\ \A i \in Slots(m.kind) \ {s} : r.child[i] = m.child[i]
  BY <1>1, <1>2
<1>5. Laid(r)
  <2>1. Typed(r)
    BY <1>2, <1>4 DEF Laid, Typed, Header
  <2>2. Filled(r)
    <3>1. \A i \in Live(m) : r.child[i] # nil
      BY <1>1, <1>4 DEF Laid, Filled
    <3>2. \A i \in Slots(m.kind) : i >= m.num => i # s
      BY <1>1 DEF Live
    <3>3. \A i \in Slots(m.kind) : i >= m.num => r.child[i] = nil
      BY <3>2, <1>4 DEF Laid, Filled
    <3>4. QED
      BY <3>1, <3>3, <1>2, <1>3 DEF Filled, Header
  <2>3. (IsSorted(r) => Ascending(r)) /\ (r.kind = "node48" => Indexed(r))
    BY <1>2, <1>3 DEF Laid, Header, Ascending, Indexed, IsSorted
  <2>4. QED
    BY <2>1, <2>2, <2>3 DEF Laid
<1>6. ASSUME NEW x \in Byte
      PROVE  FindChild(r, x) = IF x = b THEN c ELSE FindChild(m, x)
  <2>1. r.kind # "node256"
    BY <1>2 DEF Header
  <2>2. \A i \in Live(m) : FindChild(r, m.edge[i]) = r.child[i]
    <3>1. \A i \in Live(r) : FindChild(r, r.edge[i]) = r.child[i]
      BY <2>1, <1>5, FindInSlots
    <3>2. QED
      BY <3>1, <1>2, <1>3
  <2>3. \A i \in Live(m) : FindChild(m, m.edge[i]) = m.child[i]
    BY FindInSlots
  <2>4. CASE x = b
    BY <2>2, <2>4, <1>4
  <2>5. CASE x # b /\ \E i \in Live(m) : m.edge[i] = x
    BY <2>2, <2>3, <2>5, <1>1, <1>4
  <2>6. CASE ~ \E i \in Live(m) : m.edge[i] = x
    <3>1. FindChild(m, x) = nil
      BY <2>6, FindInSlots
    <3>2. FindChild(r, x) = nil
      BY <2>1, <2>6, <1>2, <1>3, <1>5, FindInSlots
    <3>3. QED
      BY <2>6, <3>1, <3>2
  <2>7. QED
    BY <2>4, <2>5, <2>6
<1>7. QED
  BY <1>2, <1>5, <1>6 DEF Replaced, Found, r

\* replaceChild of the innerNode interface.
LEMMA ReplaceChildReplaces ==
  ASSUME NEW m, Laid(m), NEW b \in Byte, NEW c \in Nodes, FindChild(m, b) # nil
  PROVE  Replaced(ReplaceChild(m, b, c), m, b, c)
<1>1. CASE IsSorted(m)
  <2>1. m.kind # "node256" /\ m.kind # "node48"
    BY <1>1 DEF IsSorted
  <2>2. PICK s \in Live(m) : m.edge[s] = b
    BY <2>1, FindInSlots
  <2>3. SlotOf(m, b) = s
    BY <2>2, <1>1, SortedSlot
  <2>4. ReplaceChild(m, b, c) = [m EXCEPT !.child[s] = c]
    BY <1>1, <2>1, <2>3 DEF ReplaceChild, ReplaceSorted
  <2>5. QED
    BY <2>1, <2>2, <2>4, ReplaceInSlot
<1>2. CASE m.kind = "node48"
  <2>1. m.index[b] - 1 \in Live(m) /\ m.edge[m.index[b] - 1] = b
    BY <1>2, DenseIndex
  <2>2. ReplaceChild(m, b, c) = [m EXCEPT !.child[m.index[b] - 1] = c]
    BY <1>2 DEF ReplaceChild, ReplaceDense, IsSorted
  <2> DEFINE s == m.index[b] - 1
  <2> HIDE DEF s
  <2>3. s \in Live(m) /\ m.edge[s] = b /\ ReplaceChild(m, b, c) = [m EXCEPT !.child[s] = c]
    BY <2>1, <2>2 DEF s
  <2>4. QED
    BY <2>3, <1>2, ReplaceInSlot
<1>3. CASE m.kind = "node256"
  <2> DEFINE r == ReplaceChild(m, b, c)
  <2>1. m.child \in [Byte -> Slot] /\ c \in Slot /\ Slots("node256") = Byte
    BY <1>3, CapacityFacts DEF Laid, Typed, Slots, Byte, Slot
  <2>2. r = [m EXCEPT !.child[b] = c]
    BY <1>3 DEF ReplaceChild, ReplaceDirect, IsSorted
  <2>3. /\ Header(r, m.kind, m.prefix, m.terminal) /\ r.num = m.num
        /\ r.child = [m.child EXCEPT ![b] = c]
    BY <2>2 DEF Laid, Typed, Fields, Header
  <2> HIDE DEF r
  <2>4. Laid(r)
    BY <1>3, <2>1, <2>3 DEF Laid, Typed, Header, IsSorted
  <2>5. \A x \in Byte : FindChild(r, x) = r.child[x] /\ FindChild(m, x) = m.child[x]
    BY <1>3, <2>3 DEF FindChild, FindDirect, IsSorted, Header
  <2>6. QED
    BY <2>1, <2>3, <2>4, <2>5 DEF Replaced, Found, r
<1>4. QED
  BY <1>1, <1>2, <1>3 DEF Laid, Typed, InnerKinds, IsSorted

-----------------------------------------------------------------------------
(***************************************************************************)
(* Removing.  Reduced(r, m, b): r is m without the child under b.          *)
(***************************************************************************)
Reduced(r, m, b) ==
  /\ Laid(r) /\ Header(r, m.kind, m.prefix, m.terminal)
  /\ r.num = m.num - 1 /\ Found(r, m, b, nil)

\* removeChild's num-- keeps the count exact.
LEMMA ReducedCounts ==
  ASSUME NEW m, NEW r, NEW b \in Byte, FindChild(m, b) # nil,
         Counted(m), Reduced(r, m, b)
  PROVE  Good(r)
<1>1. Edges(r) = Edges(m) \ {b} /\ b \in Edges(m)
  BY DEF Edges, Reduced, Found
<1>2. Cardinality(Edges(r)) = Cardinality(Edges(m)) - 1
  BY <1>1, EdgesFinite, FS_RemoveElement
<1>3. QED
  BY <1>2 DEF Good, Counted, Reduced

\* r is a without slot i, and slots i + 1 .. num - 1 one place back.
ShiftedDown(r, a, cap, T, num, i, zero) ==
  /\ r \in [0 .. cap - 1 -> T]
  /\ r[num - 1] = zero
  /\ \A j \in 0 .. num - 2 : j < i => r[j] = a[j]
  /\ \A j \in 0 .. num - 2 : i <= j => r[j] = a[j + 1]
  /\ \A j \in 0 .. cap - 1 : num <= j => r[j] = a[j]

\* The shift in removeChild of node4 and node16, array by array.
LEMMA RemovedArray ==
  ASSUME NEW cap \in Nat, NEW T, NEW a \in [0 .. cap - 1 -> T], NEW num \in Nat \ {0},
         num <= cap, NEW i \in 0 .. num - 1, NEW zero \in T
  PROVE  ShiftedDown(Removed(a, i, num, zero), a, cap, T, num, i, zero)
<1> DEFINE r == Removed(a, i, num, zero)
<1>1. r = [j \in 0 .. cap - 1 |-> IF j = num - 1 THEN zero
                                  ELSE IF i <= j /\ j < num - 1 THEN a[j + 1]
                                  ELSE a[j]]
  BY DEF Removed
<1>2. \A j \in 0 .. cap - 1 : j < num - 1 => j + 1 \in 0 .. cap - 1
  OBVIOUS
<1> HIDE DEF r
<1>3. r \in [0 .. cap - 1 -> T]
  BY <1>1, <1>2
<1>4. r[num - 1] = zero
  BY <1>1
<1>5. \A j \in 0 .. num - 2 : j < i => r[j] = a[j]
  BY <1>1
<1>6. \A j \in 0 .. num - 2 : i <= j => r[j] = a[j + 1]
  BY <1>1
<1>7. \A j \in 0 .. cap - 1 : num <= j => r[j] = a[j]
  BY <1>1
<1>8. QED
  BY <1>3, <1>4, <1>5, <1>6, <1>7 DEF ShiftedDown, r

\* removeChild of node4 and node16.
LEMMA RemoveSortedReduces ==
  ASSUME NEW m, Laid(m), IsSorted(m), NEW b \in Byte, FindChild(m, b) # nil
  PROVE  Reduced(RemoveSorted(m, b), m, b)
<1> DEFINE r == RemoveSorted(m, b)
           num == m.num
           cap == Capacity(m.kind)
<1>1. /\ m.kind # "node256" /\ m.kind # "node48"
      /\ num \in Nat /\ cap \in Nat /\ num <= cap
      /\ 0 \in Byte /\ nil \in Slot
  BY LiveSlots, CapacityAssumption DEF Laid, Typed, Byte, Slot
<1>2. PICK i \in Live(m) : m.edge[i] = b
  BY <1>1, FindInSlots
<1>3. SlotOf(m, b) = i
  BY <1>2, SortedSlot
<1>4. /\ Header(r, m.kind, m.prefix, m.terminal) /\ r.num = num - 1
      /\ r.edge = Removed(m.edge, i, num, 0)
      /\ r.child = Removed(m.child, i, num, nil)
  BY <1>3 DEF Laid, Typed, Fields, Header, RemoveSorted
<1> HIDE DEF r
<1>5. i \in 0 .. num - 1 /\ num \in Nat \ {0}
  BY <1>1, <1>2 DEF Live
<1>6. m.edge \in [0 .. cap - 1 -> Byte] /\ m.child \in [0 .. cap - 1 -> Slot]
  BY <1>1 DEF Laid, Typed, Slots
<1> HIDE DEF cap
<1>7. ShiftedDown(r.edge, m.edge, cap, Byte, num, i, 0)
  BY <1>1, <1>4, <1>5, <1>6, RemovedArray
<1>8. ShiftedDown(r.child, m.child, cap, Slot, num, i, nil)
  BY <1>1, <1>4, <1>5, <1>6, RemovedArray
<1>9. Live(r) = 0 .. num - 2 /\ Live(m) = 0 .. num - 1
  BY <1>1, <1>4 DEF Live
<1>10. /\ \A j \in Live(r) : j < i => r.edge[j] = m.edge[j] /\ r.child[j] = m.child[j]
       /\ \A j \in Live(r) : i <= j => r.edge[j] = m.edge[j + 1] /\ r.child[j] = m.child[j + 1]
  BY <1>7, <1>8, <1>9 DEF ShiftedDown
<1>11. \A j \in Live(r) : /\ j \in Live(m) /\ j + 1 \in Live(m)
                          /\ j \in Int /\ (j < i \/ i <= j)
  BY <1>1, <1>5, <1>9
<1>12. Laid(r)
  <2>1. Typed(r)
    <3>1. num - 1 \in 0 .. cap
      BY <1>1, <1>5
    <3>2. r.edge \in [Slots(m.kind) -> Byte] /\ r.child \in [Slots(m.kind) -> Slot]
      BY <1>7, <1>8 DEF ShiftedDown, Slots, cap
    <3>3. QED
      BY <3>1, <3>2, <1>1, <1>4 DEF Laid, Typed, Header, cap
  <2>2. Filled(r)
    <3>1. ASSUME NEW j \in Live(r) PROVE r.child[j] # nil
      BY <1>10, <1>11, <1>1 DEF Laid, Filled
    <3>2. ASSUME NEW j \in Slots(m.kind), j >= num - 1 PROVE r.child[j] = nil
      <4>1. CASE j = num - 1
        BY <4>1, <1>8 DEF ShiftedDown
      <4>2. CASE num <= j
        <5>1. r.child[j] = m.child[j]
          BY <4>2, <1>8 DEF ShiftedDown, Slots, cap
        <5>2. QED
          BY <5>1, <4>2, <1>1 DEF Laid, Filled
      <4>3. QED
        BY <4>1, <4>2, <3>2, <1>1 DEF Slots
    <3>3. QED
      BY <3>1, <3>2, <1>4 DEF Filled, Header
  <2>3. Ascending(r)
    <3>1. SUFFICES ASSUME NEW j \in Live(r), NEW k \in Live(r), k < j
                   PROVE  r.edge[k] < r.edge[j]
      BY DEF Ascending
    <3>2. CASE j < i
      <4>1. k < i
        BY <3>1, <3>2, <1>5, <1>11
      <4>2. QED
        BY <4>1, <3>1, <3>2, <1>10, <1>11 DEF Laid, Ascending
    <3>3. CASE i <= j /\ k < i
      <4>1. k < j + 1 /\ k \in Live(m) /\ j + 1 \in Live(m)
        BY <3>1, <1>11
      <4>2. m.edge[k] < m.edge[j + 1]
        BY <4>1 DEF Laid, Ascending
      <4>3. QED
        BY <4>2, <3>3, <1>10
    <3>4. CASE i <= j /\ i <= k
      <4>1. k + 1 < j + 1 /\ k + 1 \in Live(m) /\ j + 1 \in Live(m)
        BY <3>1, <1>11
      <4>2. m.edge[k + 1] < m.edge[j + 1]
        BY <4>1 DEF Laid, Ascending
      <4>3. QED
        BY <4>2, <3>4, <1>10
    <3>5. QED
      BY <3>2, <3>3, <3>4, <1>11
  <2>4. QED
    BY <2>1, <2>2, <2>3, <1>1, <1>4 DEF Laid, Header
<1>13. ASSUME NEW x \in Byte
       PROVE  FindChild(r, x) = IF x = b THEN nil ELSE FindChild(m, x)
  <2>1. \A j \in Live(r) : FindChild(r, r.edge[j]) = r.child[j]
    BY <1>1, <1>4, <1>12, FindInSlots DEF Header
  <2>2. \A j \in Live(m) : FindChild(m, m.edge[j]) = m.child[j]
    BY <1>1, FindInSlots
  <2>3. \A j \in Live(m) : j # i => m.edge[j] # b
    <3>1. \A j \in Live(m) : SlotOf(m, m.edge[j]) = j
      BY SortedSlot
    <3>2. QED
      BY <3>1, <1>3
  <2>4. CASE x # b /\ \E j \in Live(m) : m.edge[j] = x
    <3>1. PICK j \in Live(m) : m.edge[j] = x
      BY <2>4
    <3>2. CASE j < i
      <4>1. j \in Live(r)
        BY <3>2, <1>5, <1>9
      <4>2. QED
        BY <3>1, <3>2, <4>1, <2>1, <2>2, <2>4, <1>10
    <3>3. CASE i < j
      <4> DEFINE k == j - 1
      <4>1. k \in Live(r) /\ i <= k /\ k + 1 = j
        BY <3>3, <1>5, <1>9
      <4> HIDE DEF k
      <4>2. r.edge[k] = m.edge[j] /\ r.child[k] = m.child[j]
        BY <4>1, <1>10
      <4>3. QED
        BY <3>1, <4>1, <4>2, <2>1, <2>2, <2>4
    <3>4. QED
      BY <3>1, <3>2, <3>3, <2>4, <1>2, <1>5, <1>9
  <2>5. CASE x = b \/ ~ \E j \in Live(m) : m.edge[j] = x
    <3>1. x # b => FindChild(m, x) = nil
      BY <2>5, <1>1, FindInSlots
    <3>2. ASSUME NEW j \in Live(r) PROVE r.edge[j] # x
      <4>1. CASE j < i
        BY <4>1, <2>3, <2>5, <1>10, <1>11, <1>5
      <4>2. CASE i <= j
        <5>1. r.edge[j] = m.edge[j + 1] /\ j + 1 \in Live(m) /\ j + 1 # i
          BY <4>2, <1>5, <1>10, <1>11
        <5>2. QED
          BY <5>1, <2>3, <2>5
      <4>3. QED
        BY <4>1, <4>2, <1>11
    <3>3. FindChild(r, x) = nil
      BY <3>2, <1>1, <1>4, <1>12, FindInSlots DEF Header
    <3>4. QED
      BY <3>1, <3>3
  <2>6. QED
    BY <2>4, <2>5
<1>14. QED
  BY <1>4, <1>12, <1>13 DEF Reduced, Found, r

\* removeChild of node48, also when the vacated slot is the last one.
LEMMA RemoveSwapReduces ==
  ASSUME NEW m, Laid(m), m.kind = "node48", NEW b \in Byte, FindChild(m, b) # nil
  PROVE  Reduced(RemoveSwap(m, b), m, b)
<1> DEFINE r == RemoveSwap(m, b)
           num == m.num
           slot == m.index[b]
           s == slot - 1
           l == num - 1
           e == m.edge[l]
<1>1. /\ num \in Nat /\ num <= Capacity("node48") /\ Capacity("node48") \in Nat
      /\ 0 \in Byte /\ nil \in Slot
      /\ m.edge \in [Slots("node48") -> Byte] /\ m.child \in [Slots("node48") -> Slot]
      /\ m.index \in [Byte -> 0 .. Capacity("node48")]
  BY LiveSlots, CapacityAssumption DEF Laid, Typed, Byte, Slot
<1>2. slot \in Nat /\ slot # 0 /\ s \in Live(m) /\ m.edge[s] = b
  BY DenseIndex
<1>3. Live(m) = 0 .. l /\ s \in 0 .. l /\ slot = s + 1 /\ l \in Nat /\ num = l + 1
  BY <1>1, <1>2 DEF Live
<1>4. e \in Byte
  BY <1>3, FindInSlots
<1>5. \A i \in Live(m) : i \in Slots("node48") /\ m.edge[i] \in Byte
  BY <1>1, <1>3, FindInSlots DEF Slots
<1>6. /\ \A i \in Live(m) : i # s => m.edge[i] # b
      /\ \A i \in Live(m) : i # l => m.edge[i] # e
  <2>1. \A i \in Live(m) : m.index[m.edge[i]] = i + 1
    BY DEF Laid, Indexed
  <2>2. \A i \in Live(m), j \in Live(m) : i + 1 = j + 1 => i = j
    BY <1>3
  <2>3. l \in Live(m)
    BY <1>3
  <2>4. QED
    BY <2>1, <2>2, <2>3, <1>2
<1>7. /\ Header(r, "node48", m.prefix, m.terminal) /\ r.num = l
      /\ r.child = [[m.child EXCEPT ![s] = m.child[l]] EXCEPT ![l] = nil]
      /\ r.edge = [[m.edge EXCEPT ![s] = e] EXCEPT ![l] = 0]
      /\ r.index = [[m.index EXCEPT ![e] = slot] EXCEPT ![b] = 0]
  BY DEF Laid, Typed, Fields, Header, RemoveSwap
<1> HIDE DEF r, s, slot, l, e
<1>8. m.child[l] \in Slot /\ s \in Slots("node48") /\ l \in Slots("node48")
  BY <1>1, <1>3, <1>5
<1>9. r.child \in [Slots("node48") -> Slot] /\ r.edge \in [Slots("node48") -> Byte]
  <2>1. r.child \in [Slots("node48") -> Slot]
    BY <1>1, <1>7, <1>8
  <2>2. r.edge \in [Slots("node48") -> Byte]
    BY <1>1, <1>4, <1>7, <1>8
  <2>3. QED
    BY <2>1, <2>2
<1>10. r.index \in [Byte -> 0 .. Capacity("node48")]
  <2>1. slot \in 0 .. Capacity("node48") /\ 0 \in 0 .. Capacity("node48")
    BY <1>1, <1>3
  <2>2. QED
    BY <2>1, <1>1, <1>7
<1>11. /\ r.child[l] = nil
       /\ \A i \in Slots("node48") \ {s, l} : r.child[i] = m.child[i] /\ r.edge[i] = m.edge[i]
       /\ s # l => r.child[s] = m.child[l] /\ r.edge[s] = e
       /\ r.index[b] = 0
       /\ e # b => r.index[e] = slot
       /\ \A x \in Byte \ {b, e} : r.index[x] = m.index[x]
  BY <1>1, <1>4, <1>7, <1>8
<1>12. e = b <=> s = l
  BY <1>2, <1>3, <1>6 DEF e
<1>13. Live(r) = 0 .. l - 1
  BY <1>7 DEF Live
<1>14. ASSUME NEW i \in Live(r)
       PROVE  i \in Live(m) \ {l} /\ i \in Slots("node48")
  BY <1>3, <1>5, <1>13
<1>15. Laid(r)
  <2>1. Typed(r)
    <3>1. r.num \in 0 .. Capacity("node48")
      BY <1>1, <1>3, <1>7
    <3>2. QED
      BY <3>1, <1>7, <1>9, <1>10 DEF Laid, Typed, Header
  <2>2. Filled(r)
    <3>1. ASSUME NEW i \in Live(r) PROVE r.child[i] # nil
      <4>1. m.child[i] # nil /\ m.child[l] # nil
        BY <1>3, <1>14 DEF Laid, Filled
      <4>2. QED
        BY <4>1, <1>11, <1>14
    <3>2. ASSUME NEW i \in Slots("node48"), i >= l PROVE r.child[i] = nil
      <4>1. CASE i = l
        BY <4>1, <1>11
      <4>2. CASE i # l
        <5>1. i >= num /\ i # s
          BY <3>2, <4>2, <1>1, <1>3 DEF Slots
        <5>2. m.child[i] = nil
          BY <5>1 DEF Laid, Filled
        <5>3. QED
          BY <4>2, <5>1, <5>2, <1>11
      <4>3. QED
        BY <4>1, <4>2
    <3>3. QED
      BY <3>1, <3>2, <1>7 DEF Filled, Header
  <2>3. Indexed(r)
    <3>1. ASSUME NEW i \in Live(r) PROVE r.index[r.edge[i]] = i + 1
      <4>1. CASE i = s
        BY <4>1, <1>3, <1>11, <1>12, <1>14
      <4>2. CASE i # s
        <5>1. r.edge[i] = m.edge[i] /\ m.edge[i] \in Byte \ {b, e}
          BY <4>2, <1>5, <1>6, <1>11, <1>14
        <5>2. m.index[m.edge[i]] = i + 1
          BY <1>14 DEF Laid, Indexed
        <5>3. QED
          BY <5>1, <5>2, <1>11
      <4>3. QED
        BY <4>1, <4>2
    <3>2. ASSUME NEW x \in Byte, r.index[x] # 0
          PROVE  r.index[x] <= r.num /\ r.edge[r.index[x] - 1] = x
      <4>1. x # b
        BY <3>2, <1>11
      <4>2. CASE x = e
        <5>1. s # l /\ r.index[x] = slot /\ r.edge[s] = x
          BY <4>1, <4>2, <1>11, <1>12
        <5>2. slot <= l /\ slot - 1 = s
          BY <5>1, <1>3
        <5>3. QED
          BY <5>1, <5>2, <1>7
      <4>3. CASE x # e
        <5> DEFINE i == m.index[x] - 1
        <5>1. r.index[x] = m.index[x] /\ m.index[x] # 0
          BY <3>2, <4>1, <4>3, <1>11
        <5>2. m.index[x] \in Nat /\ i \in Live(m) /\ m.edge[i] = x
          BY <5>1, DenseIndex
        <5>3. i # s /\ i # l
          BY <5>2, <4>1, <4>3, <1>2 DEF e, s
        <5>4. m.index[x] <= l
          BY <5>2, <5>3, <1>3
        <5> HIDE DEF i
        <5>5. r.edge[i] = x
          BY <5>2, <5>3, <1>5, <1>11
        <5>6. QED
          BY <5>1, <5>4, <5>5, <1>7 DEF i
      <4>4. QED
        BY <4>2, <4>3
    <3>3. QED
      BY <3>1, <3>2 DEF Indexed
  <2>4. QED
    BY <2>1, <2>2, <2>3, <1>7 DEF Laid, Header, IsSorted
<1>16. ASSUME NEW x \in Byte
       PROVE  FindChild(r, x) = IF x = b THEN nil ELSE FindChild(m, x)
  <2>1. FindChild(r, x) = FindDense(r, x) /\ FindChild(m, x) = FindDense(m, x)
    BY <1>7 DEF FindChild, IsSorted, Header
  <2>2. CASE x = b
    BY <2>1, <2>2, <1>11 DEF FindDense
  <2>3. CASE x # b /\ x = e
    <3>1. s # l /\ r.index[x] = s + 1 /\ r.child[s] = m.child[l]
      BY <2>3, <1>3, <1>11, <1>12
    <3>2. r.index[x] # 0 /\ r.index[x] - 1 = s
      BY <3>1, <1>3
    <3>3. FindChild(m, x) = m.child[l]
      BY <2>3, <1>3, FindInSlots DEF e
    <3>4. QED
      BY <2>1, <2>3, <3>1, <3>2, <3>3 DEF FindDense
  <2>4. CASE x # b /\ x # e
    <3>1. r.index[x] = m.index[x]
      BY <2>4, <1>11
    <3>2. CASE m.index[x] # 0
      <4> DEFINE i == m.index[x] - 1
      <4>1. i \in Live(m) /\ m.edge[i] = x
        BY <3>2, DenseIndex
      <4>2. i # s /\ i # l /\ i \in Slots("node48")
        BY <4>1, <2>4, <1>2, <1>5 DEF e, s
      <4>3. r.child[i] = m.child[i]
        BY <4>2, <1>11
      <4>4. QED
        BY <2>1, <2>4, <3>1, <4>3 DEF FindDense
    <3>3. QED
      BY <2>1, <2>4, <3>1, <3>2 DEF FindDense
  <2>5. QED
    BY <2>2, <2>3, <2>4
<1>17. QED
  BY <1>7, <1>15, <1>16 DEF Reduced, Found, r, l

\* removeChild of the innerNode interface.
LEMMA RemoveChildReduces ==
  ASSUME NEW m, Good(m), NEW b \in Byte, FindChild(m, b) # nil
  PROVE  Reduced(RemoveChild(m, b), m, b)
<1>1. CASE IsSorted(m)
  BY <1>1, RemoveSortedReduces DEF RemoveChild, Good, IsSorted
<1>2. CASE m.kind = "node48"
  BY <1>2, RemoveSwapReduces DEF RemoveChild, Good, IsSorted
<1>3. CASE m.kind = "node256"
  <2> DEFINE r == RemoveDirect(m, b)
  <2>1. /\ m.child \in [Byte -> Slot] /\ nil \in Slot /\ Slots("node256") = Byte
        /\ m.num \in 0 .. node256Capacity /\ Capacity("node256") = node256Capacity
    BY <1>3, CapacityFacts DEF Good, Laid, Typed, Slots, Byte, Slot
  <2>2. /\ Header(r, m.kind, m.prefix, m.terminal) /\ r.num = m.num - 1
        /\ r.child = [m.child EXCEPT ![b] = nil]
    BY DEF Good, Laid, Typed, Fields, Header, RemoveDirect
  <2>3. m.num # 0
    <3>1. Edges(m) # {}
      BY DEF Edges
    <3>2. QED
      BY <3>1, EdgesFinite, FS_EmptySet DEF Good, Counted
  <2> HIDE DEF r
  <2>4. Laid(r)
    <3>1. r.num \in 0 .. node256Capacity
      BY <2>1, <2>2, <2>3, CapacityAssumption
    <3>2. r.child \in [Byte -> Slot]
      BY <2>1, <2>2
    <3>3. QED
      BY <1>3, <2>1, <2>2, <3>1, <3>2 DEF Good, Laid, Typed, Header, IsSorted
  <2>5. \A x \in Byte : FindChild(r, x) = r.child[x] /\ FindChild(m, x) = m.child[x]
    BY <1>3, <2>2 DEF FindChild, FindDirect, IsSorted, Header
  <2>6. RemoveChild(m, b) = r
    BY <1>3 DEF RemoveChild, IsSorted, r
  <2>7. QED
    BY <2>1, <2>2, <2>4, <2>5, <2>6 DEF Reduced, Found
<1>4. QED
  BY <1>1, <1>2, <1>3 DEF Good, Laid, Typed, InnerKinds, IsSorted

-----------------------------------------------------------------------------
(***************************************************************************)
(* Shrinking a node48 or a node256: slot i receives the i-th live byte.    *)
(***************************************************************************)
Enumerated(S, k) ==
  /\ \A i \in 0 .. k - 1 : HasNth(S, i) /\ Nth(S, i) \in S /\ Rank(S, Nth(S, i)) = i
  /\ \A i \in Nat : i >= k => ~ HasNth(S, i)
  /\ \A b \in S : Rank(S, b) \in 0 .. k - 1 /\ Nth(S, Rank(S, b)) = b
  /\ \A i, j \in 0 .. k - 1 : j < i => Nth(S, j) < Nth(S, i)

\* A finite set of numbers is enumerated by Nth.
LEMMA Enumeration ==
  ASSUME NEW S, S \subseteq Nat, IsFiniteSet(S)
  PROVE  Enumerated(S, Cardinality(S))
<1> DEFINE k == Cardinality(S)
<1>1. k \in Nat
  BY FS_CardinalityType
<1>2. ASSUME NEW i \in 0 .. k - 1
      PROVE  HasNth(S, i) /\ Nth(S, i) \in S /\ Rank(S, Nth(S, i)) = i
  <2>1. i \in Nat /\ i < k
    BY <1>1
  <2>2. QED
    BY <2>1, NthElement
<1>3. ASSUME NEW i \in Nat, i >= k PROVE ~ HasNth(S, i)
  <2>1. ~ (i < k)
    BY <1>1, <1>3
  <2>2. QED
    BY <2>1, NthElement
<1>4. \A b \in S : Rank(S, b) \in 0 .. k - 1 /\ Nth(S, Rank(S, b)) = b
  BY RankRange, NthOfRank
<1>5. ASSUME NEW i \in 0 .. k - 1, NEW j \in 0 .. k - 1, j < i
      PROVE  Nth(S, j) < Nth(S, i)
  <2>1. i \in Nat /\ j \in Nat /\ i < k
    BY <1>1
  <2>2. QED
    BY <2>1, <1>5, NthIncreases
<1>6. QED
  BY <1>2, <1>3, <1>4, <1>5 DEF Enumerated

\* The bytes that the loops over all bytes stop at are the live ones.
LEMMA LiveBytesAreEdges ==
  ASSUME NEW m, Laid(m), ~ IsSorted(m)
  PROVE  LiveBytes(m) = Edges(m)
<1>1. CASE m.kind = "node48"
  <2>1. \A b \in Byte : m.index[b] # 0 <=> FindChild(m, b) # nil
    BY <1>1, DenseIndex, NilAssumption
  <2>2. QED
    BY <2>1, <1>1 DEF LiveBytes, Edges
<1>2. CASE m.kind # "node48"
  BY <1>2 DEF LiveBytes, Edges, FindChild, FindDirect
<1>3. QED
  BY <1>1, <1>2

\* Both conversions, as far as slots are concerned.
Gathered(r, m, kind) ==
  /\ Header(r, kind, m.prefix, m.terminal) /\ r.num = m.num
  /\ r.edge = [i \in Slots(kind) |->
                 IF HasNth(Edges(m), i) THEN Nth(Edges(m), i) ELSE 0]
  /\ r.child = [i \in Slots(kind) |->
                  IF HasNth(Edges(m), i) THEN FindChild(m, Nth(Edges(m), i)) ELSE nil]

\* The gathered slots are packed and ascending, whichever type reads them.
LEMMA GatheredSlots ==
  ASSUME NEW m, Good(m), NEW kind \in InnerKinds, m.num <= Capacity(kind),
         NEW r, Gathered(r, m, kind)
  PROVE  /\ Enumerated(Edges(m), m.num)
         /\ r.edge \in [Slots(kind) -> Byte] /\ r.child \in [Slots(kind) -> Slot]
         /\ Live(r) = 0 .. m.num - 1 /\ Live(r) \subseteq Slots(kind)
         /\ \A i \in Live(r) : /\ r.edge[i] = Nth(Edges(m), i)
                               /\ r.child[i] = FindChild(m, r.edge[i])
         /\ Filled(r) /\ Ascending(r)
<1> DEFINE S == Edges(m)
           num == m.num
<1>1. Enumerated(S, num)
  BY EdgesFinite, Enumeration DEF Good, Counted
<1>2. num \in Nat /\ Capacity(kind) \in Nat /\ num <= Capacity(kind)
  BY LiveSlots, CapacityFacts DEF Good, Laid
<1>3. Live(r) = 0 .. num - 1 /\ Live(r) \subseteq Slots(kind)
  BY <1>2 DEF Live, Slots, Gathered
<1>4. 0 \in Byte /\ nil \in Slot
  BY CapacityAssumption DEF Byte, Slot
<1>5. \A b \in S : b \in Byte /\ FindChild(m, b) # nil
  BY DEF Edges
<1>6. \A b \in S : FindChild(m, b) \in Slot
  <2>1. CASE m.kind = "node256"
    <3>1. m.child \in [Byte -> Slot]
      BY <2>1, CapacityFacts DEF Good, Laid, Typed, Slots, Byte
    <3>2. QED
      BY <2>1, <3>1, <1>5 DEF FindChild, FindDirect, IsSorted
  <2>2. CASE m.kind # "node256"
    BY <2>2, <1>5, FindInSlots DEF Good, Slot
  <2>3. QED
    BY <2>1, <2>2
<1> HIDE DEF S
<1>7. \A i \in Slots(kind) : HasNth(S, i) => Nth(S, i) \in S
  BY DEF HasNth, Nth
<1>8. r.edge \in [Slots(kind) -> Byte] /\ r.child \in [Slots(kind) -> Slot]
  <2>1. r.edge \in [Slots(kind) -> Byte]
    BY <1>4, <1>5, <1>7 DEF Gathered, S
  <2>2. r.child \in [Slots(kind) -> Slot]
    BY <1>4, <1>6, <1>7 DEF Gathered, S
  <2>3. QED
    BY <2>1, <2>2
<1>9. \A i \in Live(r) : /\ r.edge[i] = Nth(S, i) /\ Nth(S, i) \in S
                         /\ r.child[i] = FindChild(m, r.edge[i])
  BY <1>1, <1>3 DEF Gathered, S, Enumerated
<1>10. Filled(r)
  <2>1. \A i \in Live(r) : r.child[i] # nil
    BY <1>5, <1>9
  <2>2. ASSUME NEW i \in Slots(kind), i >= num PROVE r.child[i] = nil
    <3>1. ~ HasNth(S, i)
      BY <2>2, <1>1 DEF Enumerated, Slots
    <3>2. QED
      BY <3>1 DEF Gathered, S
  <2>3. QED
    BY <2>1, <2>2 DEF Filled, Gathered, Header
<1>11. Ascending(r)
  BY <1>1, <1>3, <1>9 DEF Ascending, Enumerated
<1>12. QED
  BY <1>1, <1>3, <1>8, <1>9, <1>10, <1>11 DEF S

\* Slots that agree with m on every byte find what m finds.
LEMMA GatheredFinds ==
  ASSUME NEW m, Good(m), NEW kind \in {"node16", "node48"}, m.num <= Capacity(kind),
         NEW r, Gathered(r, m, kind), Laid(r)
  PROVE  Converted(r, m, kind)
<1>1. r.kind = kind /\ r.kind # "node256" /\ kind \in InnerKinds
  BY DEF Gathered, Header, InnerKinds
<1>2. /\ Enumerated(Edges(m), m.num) /\ Live(r) = 0 .. m.num - 1
      /\ \A i \in Live(r) : /\ r.edge[i] = Nth(Edges(m), i)
                            /\ r.child[i] = FindChild(m, r.edge[i])
  BY <1>1, GatheredSlots
<1>3. ASSUME NEW x \in Byte PROVE FindChild(r, x) = FindChild(m, x)
  <2>1. CASE x \in Edges(m)
    <3>1. PICK i \in Live(r) : Nth(Edges(m), i) = x
      BY <2>1, <1>2 DEF Enumerated
    <3>2. FindChild(r, r.edge[i]) = r.child[i]
      BY <1>1, FindInSlots
    <3>3. QED
      BY <3>1, <3>2, <1>2
  <2>2. CASE x \notin Edges(m)
    <3>1. \A i \in Live(r) : r.edge[i] # x
      BY <2>2, <1>2 DEF Enumerated
    <3>2. FindChild(r, x) = nil
      BY <3>1, <1>1, FindInSlots
    <3>3. QED
      BY <2>2, <3>2 DEF Edges
  <2>3. QED
    BY <2>1, <2>2
<1>4. QED
  BY <1>3 DEF Converted, Gathered

\* shrinkToNode16: unsorted slots become sorted ones.
LEMMA ShrinkToNode16Converts ==
  ASSUME NEW m, Good(m), m.kind = "node48", m.num = Capacity("node16")
  PROVE  Converted(ShrinkToNode16(m), m, "node16")
<1> DEFINE r == ShrinkToNode16(m)
<1>1. LiveBytes(m) = Edges(m)
  BY LiveBytesAreEdges DEF Good, IsSorted
<1>2. \A b \in Edges(m) : FindChild(m, b) = m.child[m.index[b] - 1]
  BY DenseIndex DEF Good, Edges
<1>3. \A i : HasNth(Edges(m), i) => Nth(Edges(m), i) \in Edges(m)
  BY DEF HasNth, Nth
<1>4. Gathered(r, m, "node16")
  BY <1>1, <1>2, <1>3 DEF Gathered, Header, Fields, ShrinkToNode16, Fresh
<1> HIDE DEF r
<1>5. Capacity("node16") \in Nat /\ m.num <= Capacity("node16") /\ "node16" \in InnerKinds
  BY CapacityFacts, CapacityAssumption DEF InnerKinds
<1>6. /\ r.edge \in [Slots("node16") -> Byte] /\ r.child \in [Slots("node16") -> Slot]
      /\ Filled(r) /\ Ascending(r)
  BY <1>4, <1>5, GatheredSlots
<1>7. r.num \in 0 .. Capacity("node16")
  BY <1>4, <1>5 DEF Gathered
<1>8. Laid(r)
  BY <1>4, <1>5, <1>6, <1>7 DEF Good, Laid, Typed, Gathered, Header
<1>9. Converted(r, m, "node16")
  BY <1>4, <1>5, <1>8, GatheredFinds
<1>10. QED
  BY <1>9 DEF r

\* shrinkToNode48: the count goes back from uint16 to uint8.
LEMMA ShrinkToNode48Converts ==
  ASSUME NEW m, Good(m), m.kind = "node256", m.num = Capacity("node48")
  PROVE  Converted(ShrinkToNode48(m), m, "node48")
<1> DEFINE r == ShrinkToNode48(m)
           num == m.num
<1>1. LiveBytes(m) = Edges(m)
  BY LiveBytesAreEdges DEF Good, IsSorted
<1>2. \A b \in Byte : FindChild(m, b) = m.child[b]
  BY DEF FindChild, FindDirect, IsSorted
<1>3. \A i : HasNth(Edges(m), i) => Nth(Edges(m), i) \in Byte
  BY DEF HasNth, Nth, Edges
<1>4. num \in 0 .. node48Capacity /\ Capacity("node48") = node48Capacity /\ num \in Nat
  BY CapacityFacts, CapacityAssumption
<1>5. Uint8(num) = num
  BY <1>4, CountersFit
<1>6. /\ Gathered(r, m, "node48")
      /\ r.index = [b \in Byte |-> IF b \in Edges(m) THEN Rank(Edges(m), b) + 1 ELSE 0]
  BY <1>1, <1>2, <1>3, <1>5 DEF Gathered, Header, Fields, ShrinkToNode48, Fresh
<1> HIDE DEF r
<1>7. m.num <= Capacity("node48") /\ "node48" \in InnerKinds
  BY <1>4 DEF InnerKinds
<1>8. /\ r.edge \in [Slots("node48") -> Byte] /\ r.child \in [Slots("node48") -> Slot]
      /\ Live(r) = 0 .. num - 1 /\ \A i \in Live(r) : r.edge[i] = Nth(Edges(m), i)
      /\ Filled(r) /\ Enumerated(Edges(m), num)
  BY <1>6, <1>7, GatheredSlots
<1>9. ASSUME NEW b \in Edges(m)
      PROVE  /\ b \in Byte /\ r.index[b] \in 1 .. num /\ r.index[b] - 1 \in Live(r)
             /\ r.edge[r.index[b] - 1] = b
  <2> DEFINE i == Rank(Edges(m), b)
  <2>1. i \in 0 .. num - 1 /\ Nth(Edges(m), i) = b
    BY <1>8 DEF Enumerated
  <2>2. b \in Byte /\ r.index[b] = i + 1
    BY <1>6 DEF Edges
  <2> HIDE DEF i
  <2>3. i + 1 \in 1 .. num /\ i + 1 - 1 = i
    BY <2>1, <1>4
  <2>4. QED
    BY <2>1, <2>2, <2>3, <1>8
<1>10. \A b \in Byte : b \notin Edges(m) => r.index[b] = 0
  BY <1>6
<1>11. Laid(r)
  <2>1. Typed(r)
    <3>1. \A b \in Byte : r.index[b] \in 0 .. Capacity("node48")
      BY <1>4, <1>9, <1>10
    <3>2. r.index \in [Byte -> 0 .. Capacity("node48")]
      <4>1. r.index = [b \in Byte |-> r.index[b]]
        BY <1>6
      <4>2. QED
        BY <3>1, <4>1
    <3>3. r.num \in 0 .. Capacity("node48")
      BY <1>4, <1>6 DEF Gathered
    <3>4. QED
      BY <3>2, <3>3, <1>6, <1>7, <1>8 DEF Good, Laid, Typed, Gathered, Header
  <2>2. Indexed(r)
    <3>1. ASSUME NEW i \in Live(r) PROVE r.index[r.edge[i]] = i + 1
      <4>1. r.edge[i] \in Edges(m) /\ Rank(Edges(m), r.edge[i]) = i
        BY <1>8 DEF Enumerated
      <4>2. r.edge[i] \in Byte
        BY <4>1 DEF Edges
      <4>3. QED
        BY <4>1, <4>2, <1>6
    <3>2. ASSUME NEW b \in Byte, r.index[b] # 0
          PROVE  r.index[b] <= r.num /\ r.edge[r.index[b] - 1] = b
      BY <3>2, <1>4, <1>6, <1>9, <1>10 DEF Gathered
    <3>3. QED
      BY <3>1, <3>2 DEF Indexed
  <2>3. QED
    BY <2>1, <2>2, <1>6, <1>8 DEF Laid, Gathered, Header, IsSorted
<1>12. Converted(r, m, "node48")
  BY <1>6, <1>7, <1>11, GatheredFinds
<1>13. QED
  BY <1>12 DEF r

\* grow of the innerNode interface.
LEMMA GrowConverts ==
  ASSUME NEW m, Laid(m), m.kind # "node256"
  PROVE  Converted(Grow(m), m, Larger(m.kind))
<1>1. m.kind \in {"node4", "node16", "node48"}
  BY DEF Laid, Typed, InnerKinds
<1>2. QED
  BY <1>1, GrowToNode16Converts, GrowToNode48Converts, GrowToNode256Converts
  DEF Grow, Larger

\* shrink of the innerNode interface, at the only count it is called at.
LEMMA ShrinkConverts ==
  ASSUME NEW m, Good(m), m.kind # "node4", m.num = Capacity(Smaller(m.kind))
  PROVE  Converted(Shrink(m), m, Smaller(m.kind))
<1>1. m.kind \in {"node16", "node48", "node256"}
  BY DEF Good, Laid, Typed, InnerKinds
<1>2. CASE m.kind = "node16"
  BY <1>2, ShrinkToNode4Converts DEF Shrink, Smaller, Good
<1>3. CASE m.kind = "node48"
  BY <1>3, ShrinkToNode16Converts DEF Shrink, Smaller
<1>4. CASE m.kind = "node256"
  BY <1>4, ShrinkToNode48Converts DEF Shrink, Smaller
<1>5. QED
  BY <1>1, <1>2, <1>3, <1>4
-----------------------------------------------------------------------------

(***************************************************************************)
(* The state machine.  Sound(m) is Good(m) with the type that m's count    *)
(* allows: it is what keeps a full node256 from being asked to grow, and a *)
(* shrinking node from holding more than the smaller type can.             *)
(***************************************************************************)
Sound(m) == Good(m) /\ KindFits(m.kind, m.num)

IInv ==
  /\ heir \in Slot
  /\ n.kind = "none" => n.prefix \in Prefixes
  /\ n.kind # "none" => Sound(n)

\* A node256 without a child under b has room for one.
LEMMA Node256HasRoom ==
  ASSUME NEW m, Good(m), m.kind = "node256", NEW b \in Byte, FindChild(m, b) = nil
  PROVE  m.num < Capacity("node256")
<1>1. Edges(m) \in SUBSET Byte /\ Edges(m) # Byte
  BY DEF Edges
<1>2. Cardinality(Edges(m)) <= Cardinality(Byte) /\ Cardinality(Edges(m)) # Cardinality(Byte)
  BY <1>1, ByteFinite, FS_Subset
<1>3. m.num \in Nat /\ m.num <= node256Capacity /\ m.num # node256Capacity
  BY <1>2, ByteFinite, EdgesFinite DEF Good, Counted
<1>4. QED
  BY <1>3, CapacityFacts, CapacityAssumption

\* addOrGrow: the new child and the next type, or only the new child.
LEMMA AddOrGrowExtends ==
  ASSUME NEW m, Sound(m), NEW b \in Byte, NEW c \in Nodes, FindChild(m, b) = nil,
         NEW r, r = AddOrGrow(m, b, c)
  PROVE  /\ Sound(r) /\ Header(r, GrownKind(m.kind, m.num), m.prefix, m.terminal)
         /\ Found(r, m, b, c)
<1>1. m.kind \in InnerKinds /\ m.num \in Nat /\ m.num <= Capacity(m.kind)
  BY LiveSlots DEF Sound, Good, Laid, Typed, KindFits
<1>2. CASE m.num < Capacity(m.kind)
  <2>1. GrownKind(m.kind, m.num) = m.kind /\ r = AddChild(m, b, c)
    BY <1>2 DEF GrownKind, AddOrGrow
  <2>2. Addable(m, b, c)
    BY <1>2 DEF Addable, Sound, Good
  <2>3. Extended(r, m, b, c)
    BY <2>1, <2>2, AddChildExtends
  <2>4. Good(r)
    BY <2>3, ExtendedCounts DEF Sound, Good
  <2>5. KindFits(m.kind, m.num + 1)
    <3>1. CASE m.kind = "node4"
      BY <3>1, <1>1, <1>2, CapacityFacts DEF KindFits
    <3>2. CASE m.kind # "node4"
      <4>1. Smaller(m.kind) \in InnerKinds
        BY <1>1 DEF Smaller, InnerKinds
      <4>2. Capacity(Smaller(m.kind)) \in Nat /\ Capacity(m.kind) \in Nat
        BY <1>1, <4>1, CapacityFacts
      <4>3. QED
        BY <4>2, <3>2, <1>1, <1>2 DEF KindFits, Sound
    <3>3. QED
      BY <3>1, <3>2
  <2>6. QED
    BY <2>1, <2>3, <2>4, <2>5 DEF Sound, Extended, Header
<1>3. CASE m.num = Capacity(m.kind)
  <2> DEFINE kind == Larger(m.kind)
             g == Grow(m)
  <2>1. m.kind # "node256"
    BY <1>3, CapacityFacts, Node256HasRoom, CapacityAssumption DEF Sound
  <2>2. /\ kind \in InnerKinds /\ kind # m.kind /\ Smaller(kind) = m.kind
        /\ kind # "node4" /\ Capacity(m.kind) < Capacity(kind)
    BY <1>1, <2>1, CapacityAssumption DEF InnerKinds, Larger, Smaller, Capacity
  <2>3. GrownKind(m.kind, m.num) = kind /\ r = AddChild(g, b, c)
    <3>1. ~ (m.num < Capacity(m.kind))
      BY <1>1, <1>3
    <3>2. QED
      BY <2>2, <3>1 DEF GrownKind, AddOrGrow
  <2>4. Converted(g, m, kind)
    BY <2>1, GrowConverts DEF Sound, Good
  <2> HIDE DEF g, kind
  <2>5. Good(g)
    BY <2>4, ConvertedCounts DEF Sound, Good
  <2>6. Addable(g, b, c)
    BY <1>3, <2>2, <2>4, <2>5 DEF Addable, Good, Converted, Header
  <2>7. Extended(r, g, b, c)
    BY <2>3, <2>6, AddChildExtends
  <2>8. Good(r)
    BY <2>4, <2>5, <2>6, <2>7, ExtendedCounts DEF Good, Addable
  <2>9. KindFits(kind, m.num + 1)
    BY <1>1, <1>3, <2>2, CapacityFacts DEF KindFits
  <2>10. QED
    BY <2>3, <2>4, <2>7, <2>8, <2>9 DEF Sound, Extended, Header, Converted, Found
<1>4. QED
  BY <1>1, <1>2, <1>3, CapacityFacts

\* What deleteFrom hands to reshape: one child or the terminal gone, and the
\* type not yet reconsidered.
Reshapable(m) ==
  /\ Good(m)
  /\ m.kind # "node4" => Capacity(Smaller(m.kind)) <= m.num

\* reshape of a node that neither disappears nor collapses.
LEMMA ReshapedSound ==
  ASSUME NEW m, Reshapable(m),
         NEW r, r = IF ReshapedKind(m.kind, m.num) = m.kind THEN m ELSE Shrink(m)
  PROVE  /\ Sound(r) /\ Header(r, ReshapedKind(m.kind, m.num), m.prefix, m.terminal)
         /\ \A x \in Byte : FindChild(r, x) = FindChild(m, x)
<1>1. /\ m.kind \in InnerKinds /\ m.num \in Nat /\ m.num <= Capacity(m.kind)
      /\ DOMAIN m = Fields
  BY LiveSlots DEF Reshapable, Good, Laid, Typed
<1>2. Smaller(m.kind) \in InnerKinds /\ Capacity(Smaller(m.kind)) \in Nat
  BY <1>1, CapacityFacts DEF Smaller, InnerKinds
<1>3. CASE m.kind # "node4" /\ m.num = Capacity(Smaller(m.kind))
  <2> DEFINE kind == Smaller(m.kind)
  <2>1. kind # m.kind /\ (kind # "node4" => Capacity(Smaller(kind)) < Capacity(kind))
    BY <1>1, <1>3, CapacityAssumption DEF InnerKinds, Smaller, Capacity
  <2>2. ReshapedKind(m.kind, m.num) = kind /\ r = Shrink(m)
    BY <1>3, <2>1 DEF ReshapedKind
  <2>3. Converted(r, m, kind)
    BY <1>3, <2>2, ShrinkConverts DEF Reshapable
  <2>4. Good(r)
    BY <2>3, ConvertedCounts DEF Reshapable, Good
  <2>5. KindFits(kind, m.num)
    BY <1>2, <1>3, <2>1 DEF KindFits
  <2>6. QED
    BY <2>2, <2>3, <2>4, <2>5 DEF Sound, Converted, Header
<1>4. CASE ~ (m.kind # "node4" /\ m.num = Capacity(Smaller(m.kind)))
  <2>1. ReshapedKind(m.kind, m.num) = m.kind /\ r = m
    BY <1>4 DEF ReshapedKind
  <2>2. KindFits(m.kind, m.num)
    BY <1>1, <1>2, <1>4 DEF KindFits, Reshapable
  <2>3. QED
    BY <1>1, <2>1, <2>2 DEF Sound, Header, Reshapable
<1>5. QED
  BY <1>3, <1>4

\* reshape, alternative by alternative.
LEMMA ReshapeAlternatives ==
  ASSUME NEW m, Reshapable(m), Reshape(m)
  PROVE  \/ /\ Edges(m) = {}
            /\ n' = Gone(m.prefix) /\ heir' = m.terminal
         \/ /\ m.kind = "node4" /\ m.terminal = nil
            /\ \E b \in Byte : Edges(m) = {b} /\ heir' = FindChild(m, b)
            /\ n' = Gone(m.prefix)
         \/ /\ Edges(m) # {}
            /\ ~ (m.kind = "node4" /\ m.terminal = nil /\ \E b \in Byte : Edges(m) = {b})
            /\ n' = IF ReshapedKind(m.kind, m.num) = m.kind THEN m ELSE Shrink(m)
            /\ heir' = heir
<1>1. m.num = Cardinality(Edges(m)) /\ IsFiniteSet(Edges(m)) /\ Laid(m) /\ m.num \in Nat
  BY EdgesFinite, LiveSlots DEF Reshapable, Good, Counted, Laid
<1>2. m.num = 0 <=> Edges(m) = {}
  BY <1>1, FS_EmptySet
<1>3. (\E b : Edges(m) = {b}) => m.num = 1
  <2>1. \A b : Cardinality({b}) = 1
    BY FS_Singleton
  <2>2. QED
    BY <2>1, <1>1
<1>4. CASE m.num = 0
  BY <1>2, <1>4 DEF Reshape
<1>5. CASE m.num = 1 /\ m.kind = "node4" /\ m.terminal = nil
  <2>1. n' = Gone(m.prefix) /\ heir' = m.child[0]
    BY <1>5 DEF Reshape
  <2>2. Live(m) = {0}
    BY <1>5 DEF Live
  <2> DEFINE b == m.edge[0]
  <2>3. b \in Byte /\ FindChild(m, b) = m.child[0] /\ m.child[0] # nil
    BY <1>1, <1>5, <2>2, FindInSlots, NilAssumption
  <2>4. \A x \in Byte : FindChild(m, x) # nil => x = b
    BY <1>1, <1>5, <2>2, FindInSlots
  <2>5. Edges(m) = {b}
    BY <2>3, <2>4 DEF Edges
  <2>6. QED
    BY <1>5, <2>1, <2>3, <2>5
<1>6. CASE m.num # 0 /\ ~ (m.num = 1 /\ m.kind = "node4" /\ m.terminal = nil)
  <2>1. /\ n' = IF ReshapedKind(m.kind, m.num) = m.kind THEN m ELSE Shrink(m)
        /\ heir' = heir
    BY <1>6 DEF Reshape
  <2>2. QED
    BY <1>2, <1>3, <1>6, <2>1
<1>7. QED
  BY <1>4, <1>5, <1>6

\* findChild answers a node or nil.
LEMMA FoundInSlot ==
  ASSUME NEW m, Laid(m), NEW b \in Byte
  PROVE  FindChild(m, b) \in Slot
<1>1. CASE m.kind = "node256"
  <2>1. m.child \in [Byte -> Slot]
    BY <1>1, CapacityFacts DEF Laid, Typed, Slots, Byte
  <2>2. QED
    BY <1>1, <2>1 DEF FindChild, FindDirect, IsSorted
<1>2. CASE m.kind # "node256"
  BY <1>2, FindInSlots DEF Slot
<1>3. QED
  BY <1>1, <1>2

\* reshape leaves a node of the right type behind, or none and an heir.
LEMMA ReshapeKeepsInv ==
  ASSUME heir \in Slot, NEW m, Reshapable(m), Reshape(m)
  PROVE  IInv'
<1>1. m.prefix \in Prefixes /\ m.terminal \in Slot /\ Laid(m)
  BY DEF Reshapable, Good, Laid, Typed
<1>2. CASE n' = Gone(m.prefix) /\ heir' \in Slot
  <2>1. n'.kind = "none" /\ n'.prefix = m.prefix
    BY <1>2 DEF Gone
  <2>2. QED
    BY <1>1, <1>2, <2>1 DEF IInv
<1>3. CASE /\ n' = IF ReshapedKind(m.kind, m.num) = m.kind THEN m ELSE Shrink(m)
           /\ heir' = heir
  <2>1. Sound(n')
    BY <1>3, ReshapedSound
  <2>2. n'.kind # "none"
    BY <2>1 DEF Sound, Good, Laid, Typed, InnerKinds
  <2>3. QED
    BY <1>3, <2>1, <2>2 DEF IInv
<1>4. QED
  BY <1>1, <1>2, <1>3, ReshapeAlternatives, FoundInSlot

-----------------------------------------------------------------------------
\* What each action hands on.

\* A zero-valued node4 with a header has room and no children.
LEMMA FreshAddable ==
  ASSUME NEW p \in Prefixes, NEW t \in Slot, NEW b \in Byte, NEW c \in Nodes,
         NEW m, m = Fresh("node4", p, t)
  PROVE  /\ Addable(m, b, c) /\ Good(m) /\ Header(m, "node4", p, t) /\ m.num = 0
         /\ \A x \in Byte : FindChild(m, x) = nil
<1>1. /\ Header(m, "node4", p, t) /\ m.num = 0
      /\ m.edge = [i \in Slots("node4") |-> 0]
      /\ m.child = [i \in Slots("node4") |-> nil]
  BY DEF Fresh, Header, Fields
<1>2. 0 \in Byte /\ nil \in Slot
  BY CapacityAssumption DEF Byte, Slot
<1>3. m.kind = "node4" /\ IsSorted(m) /\ Live(m) = {} /\ 0 < Capacity("node4")
  BY <1>1, CapacityFacts, CapacityAssumption DEF Header, IsSorted, Live
<1>4. Laid(m)
  <2>1. Typed(m)
    BY <1>1, <1>2, <1>3, CapacityFacts DEF Typed, Header, InnerKinds
  <2>2. Filled(m) /\ Ascending(m)
    BY <1>1, <1>3 DEF Filled, Ascending
  <2>3. QED
    BY <2>1, <2>2, <1>3 DEF Laid
<1>5. \A x \in Byte : FindChild(m, x) = nil
  BY <1>3, <1>4, FindInSlots
<1>6. Counted(m)
  <2>1. Edges(m) = {}
    BY <1>5 DEF Edges
  <2>2. QED
    BY <2>1, <1>1, FS_EmptySet DEF Counted
<1>7. QED
  BY <1>1, <1>3, <1>4, <1>5, <1>6 DEF Addable, Good

\* newNode4With, given a terminal and one child.
LEMMA BranchSound ==
  ASSUME NEW p \in Prefixes, NEW t \in Slot, NEW b \in Byte, NEW c \in Nodes,
         NEW r, r = AddChild(Fresh("node4", p, t), b, c)
  PROVE  /\ Sound(r) /\ Header(r, "node4", p, t) /\ r.num = 1
         /\ \A x \in Byte : FindChild(r, x) = IF x = b THEN c ELSE nil
<1> DEFINE m == Fresh("node4", p, t)
<1>1. /\ Addable(m, b, c) /\ Good(m) /\ Header(m, "node4", p, t) /\ m.num = 0
      /\ \A x \in Byte : FindChild(m, x) = nil
  BY FreshAddable
<1> HIDE DEF m
<1>2. Extended(r, m, b, c)
  BY <1>1, AddChildExtends DEF m
<1>3. Good(r)
  BY <1>1, <1>2, ExtendedCounts DEF Good, Addable
<1>4. KindFits("node4", 1)
  BY CapacityFacts, CapacityAssumption DEF KindFits
<1>5. QED
  BY <1>1, <1>2, <1>3, <1>4 DEF Extended, Found, Header, Sound

\* newNode4With, given two diverging children.
LEMMA ForkSound ==
  ASSUME NEW p \in Prefixes, NEW b1 \in Byte, NEW c1 \in Nodes,
         NEW b2 \in Byte, NEW c2 \in Nodes, b1 # b2,
         NEW r, r = AddChild(AddChild(Fresh("node4", p, nil), b1, c1), b2, c2)
  PROVE  /\ Sound(r) /\ Header(r, "node4", p, nil)
         /\ \A x \in Byte : FindChild(r, x) = IF x = b2 THEN c2
                                              ELSE IF x = b1 THEN c1 ELSE nil
<1> DEFINE m == AddChild(Fresh("node4", p, nil), b1, c1)
<1>1. /\ Sound(m) /\ Header(m, "node4", p, nil) /\ m.num = 1
      /\ \A x \in Byte : FindChild(m, x) = IF x = b1 THEN c1 ELSE nil
  BY BranchSound DEF Slot
<1> HIDE DEF m
<1>2. Addable(m, b2, c2)
  <2>1. m.num < Capacity(m.kind)
    BY <1>1, CapacityFacts, CapacityAssumption DEF Header
  <2>2. QED
    BY <1>1, <2>1 DEF Addable, Sound, Good
<1>3. Extended(r, m, b2, c2)
  BY <1>2, AddChildExtends DEF m
<1>4. Good(r)
  BY <1>1, <1>2, <1>3, ExtendedCounts DEF Good, Addable, Sound
<1>5. KindFits("node4", 2)
  BY CapacityFacts, CapacityAssumption DEF KindFits
<1>6. r.num = 2
  BY <1>1, <1>3 DEF Extended
<1>7. QED
  BY <1>1, <1>3, <1>4, <1>5, <1>6 DEF Extended, Found, Header, Sound

\* The header says nothing about the children.
LEMMA HeaderEdited ==
  ASSUME NEW m, Good(m), NEW p \in Prefixes, NEW t \in Slot,
         NEW r, Header(r, m.kind, p, t), r.num = m.num, r.edge = m.edge,
         r.child = m.child, r.index = m.index
  PROVE  Good(r) /\ \A x \in Byte : FindChild(r, x) = FindChild(m, x)
<1>1. r.kind = m.kind /\ Live(r) = Live(m)
  BY DEF Header, Live
<1>2. Laid(r)
  <2>1. Typed(r)
    BY <1>1 DEF Good, Laid, Typed, Header
  <2>2. m.kind # "node256" => Filled(r)
    BY <1>1 DEF Good, Laid, Filled
  <2>3. IsSorted(m) => Ascending(r)
    BY <1>1 DEF Good, Laid, Ascending
  <2>4. m.kind = "node48" => Indexed(r)
    BY <1>1 DEF Good, Laid, Indexed
  <2>5. QED
    BY <1>1, <2>1, <2>2, <2>3, <2>4 DEF Laid, IsSorted
<1>3. ASSUME NEW x \in Byte PROVE FindChild(r, x) = FindChild(m, x)
  <2>1. CASE m.kind = "node256"
    BY <1>1, <2>1 DEF FindChild, FindDirect, IsSorted
  <2>2. CASE m.kind # "node256"
    BY <1>1, <1>2, <2>2, SameSlotsSameFound DEF Good
  <2>3. QED
    BY <2>1, <2>2
<1>4. Edges(r) = Edges(m)
  BY <1>3 DEF Edges
<1>5. QED
  BY <1>2, <1>3, <1>4 DEF Good, Counted

\* What a dropped child leaves to reshape.
LEMMA RemovedReshapable ==
  ASSUME NEW m, Sound(m), NEW b \in Byte, FindChild(m, b) # nil,
         NEW r, r = RemoveChild(m, b)
  PROVE  Reshapable(r) /\ Reduced(r, m, b)
<1>1. Reduced(r, m, b)
  BY RemoveChildReduces DEF Sound
<1>2. Good(r)
  BY <1>1, ReducedCounts DEF Sound, Good
<1>3. r.kind = m.kind /\ r.num = m.num - 1
  BY <1>1 DEF Reduced, Header
<1>4. ASSUME m.kind # "node4" PROVE Capacity(Smaller(m.kind)) <= m.num - 1
  <2>1. Smaller(m.kind) \in InnerKinds
    BY DEF Smaller, InnerKinds
  <2>2. Capacity(Smaller(m.kind)) \in Nat /\ m.num \in Nat
    BY <2>1, CapacityFacts, LiveSlots DEF Sound, Good, Laid
  <2>3. QED
    BY <2>2, <1>4 DEF Sound, KindFits
<1>5. QED
  BY <1>1, <1>2, <1>3, <1>4 DEF Reshapable

\* What a cleared terminal leaves to reshape.
LEMMA ClearedReshapable ==
  ASSUME NEW m, Sound(m), NEW r, r = [m EXCEPT !.terminal = nil]
  PROVE  /\ Reshapable(r) /\ Header(r, m.kind, m.prefix, nil)
         /\ \A x \in Byte : FindChild(r, x) = FindChild(m, x)
<1>1. /\ Header(r, m.kind, m.prefix, nil) /\ r.num = m.num /\ r.edge = m.edge
      /\ r.child = m.child /\ r.index = m.index
  BY DEF Sound, Good, Laid, Typed, Header, Fields
<1>2. m.prefix \in Prefixes /\ nil \in Slot
  BY DEF Sound, Good, Laid, Typed, Slot
<1>3. Good(r) /\ \A x \in Byte : FindChild(r, x) = FindChild(m, x)
  BY <1>1, <1>2, HeaderEdited DEF Sound
<1>4. ASSUME m.kind # "node4" PROVE Capacity(Smaller(m.kind)) <= m.num
  <2>1. Smaller(m.kind) \in InnerKinds
    BY DEF Smaller, InnerKinds
  <2>2. Capacity(Smaller(m.kind)) \in Nat /\ m.num \in Nat
    BY <2>1, CapacityFacts, LiveSlots DEF Sound, Good, Laid
  <2>3. QED
    BY <2>2, <1>4 DEF Sound, KindFits
<1>5. QED
  BY <1>1, <1>3, <1>4 DEF Reshapable, Header

-----------------------------------------------------------------------------
\* The invariant is inductive.

\* A slot without a node has nothing to violate.
LEMMA InitInv == Init => IInv
<1>1. SUFFICES ASSUME Init PROVE IInv
  OBVIOUS
<1>2. PICK p \in Prefixes : n = Gone(p)
  BY <1>1 DEF Init
<1>3. n.kind = "none" /\ n.prefix = p
  BY <1>2 DEF Gone
<1>4. QED
  BY <1>1, <1>3 DEF Init, IInv, Slot

\* A sound node is a node.
LEMMA SoundIsNode ==
  ASSUME NEW m, Sound(m)
  PROVE  m.kind \in InnerKinds /\ m.kind # "none"
  BY DEF Sound, Good, Laid, Typed, InnerKinds

\* An action that leaves a sound node behind preserves the invariant.
LEMMA SoundKeepsInv ==
  ASSUME heir' \in Slot, Sound(n')
  PROVE  IInv'
  BY SoundIsNode DEF IInv

\* Every action preserves the invariant.
LEMMA NextInv ==
  ASSUME IInv, [Next]_inVars
  PROVE  IInv'
<1> USE DEF Slot
<1>1. ASSUME NEW p \in Prefixes, NEW t \in Nodes, NEW c \in Nodes, NEW b \in Byte,
             NewBranch(p, t, b, c)
      PROVE  IInv'
  BY <1>1, BranchSound, SoundKeepsInv DEF NewBranch
<1>2. ASSUME NEW p \in Prefixes, NEW c1 \in Nodes, NEW c2 \in Nodes,
             NEW b1 \in Byte, NEW b2 \in Byte, NewFork(p, b1, c1, b2, c2)
      PROVE  IInv'
  BY <1>2, ForkSound, SoundKeepsInv DEF NewFork
<1>3. ASSUME NEW p \in Prefixes, SetPrefix(p)
      PROVE  IInv'
  <2>1. Sound(n) /\ heir' = heir /\ n' = [n EXCEPT !.prefix = p]
    BY <1>3 DEF SetPrefix, IInv
  <2>2. /\ Header(n', n.kind, p, n.terminal) /\ n'.num = n.num /\ n'.edge = n.edge
        /\ n'.child = n.child /\ n'.index = n.index /\ n.terminal \in Slot
    BY <2>1 DEF Sound, Good, Laid, Typed, Header, Fields
  <2>3. Good(n')
    BY <2>1, <2>2, HeaderEdited DEF Sound
  <2>4. QED
    BY <2>1, <2>2, <2>3, SoundKeepsInv DEF Sound, Header, IInv
<1>4. ASSUME NEW t \in Nodes, SetTerminal(t)
      PROVE  IInv'
  <2>1. Sound(n) /\ heir' = heir /\ n' = [n EXCEPT !.terminal = t]
    BY <1>4 DEF SetTerminal, IInv
  <2>2. /\ Header(n', n.kind, n.prefix, t) /\ n'.num = n.num /\ n'.edge = n.edge
        /\ n'.child = n.child /\ n'.index = n.index /\ n.prefix \in Prefixes
    BY <2>1 DEF Sound, Good, Laid, Typed, Header, Fields
  <2>3. Good(n')
    BY <2>1, <2>2, HeaderEdited DEF Sound
  <2>4. QED
    BY <2>1, <2>2, <2>3, SoundKeepsInv DEF Sound, Header, IInv
<1>5. ASSUME NEW b \in Byte, NEW c \in Nodes, DoAddOrGrow(b, c)
      PROVE  IInv'
  BY <1>5, AddOrGrowExtends, SoundKeepsInv DEF DoAddOrGrow, IInv
<1>6. ASSUME NEW b \in Byte, NEW c \in Nodes, DoReplaceChild(b, c)
      PROVE  IInv'
  <2>1. Sound(n) /\ heir' = heir /\ n' = ReplaceChild(n, b, c) /\ FindChild(n, b) # nil
    BY <1>6 DEF DoReplaceChild, IInv
  <2>2. Replaced(n', n, b, c)
    BY <2>1, ReplaceChildReplaces DEF Sound, Good
  <2>3. Good(n')
    BY <2>1, <2>2, ReplacedCounts DEF Sound, Good
  <2>4. QED
    BY <2>1, <2>2, <2>3, SoundKeepsInv DEF Sound, Replaced, Header, IInv
<1>7. ASSUME NEW b \in Byte, DoRemoveChild(b)
      PROVE  IInv'
  BY <1>7, RemovedReshapable, ReshapeKeepsInv DEF DoRemoveChild, IInv
<1>8. ASSUME DoClearTerminal
      PROVE  IInv'
  BY <1>8, ClearedReshapable, ReshapeKeepsInv DEF DoClearTerminal, IInv
<1>9. CASE UNCHANGED inVars
  BY <1>9 DEF IInv, inVars
<1>10. QED
  BY <1>1, <1>2, <1>3, <1>4, <1>5, <1>6, <1>7, <1>8, <1>9 DEF Next

\* Between two calls a node of every type is laid out as its type requires and
\* counts its children (types.go), whatever the capacities are.
THEOREM InnerNodeInv == Spec => []IInv
<1>1. Init => IInv
  BY InitInv
<1>2. IInv /\ [Next]_inVars => IInv'
  BY NextInv
<1>3. QED
  BY <1>1, <1>2, PTL DEF Spec

\* The properties of InnerNode follow from the invariant.
LEMMA InvImplies ==
  ASSUME IInv
  PROVE  TypeOK /\ SortedLayout /\ DenseLayout /\ DirectCount /\ CapacityBand
<1>1. CASE n.kind = "none"
  BY <1>1 DEF IInv, Slot, TypeOK, SortedLayout, DenseLayout, DirectCount,
              CapacityBand, IsSorted
<1>2. CASE n.kind # "none"
  <2>1. Sound(n) /\ Good(n) /\ Laid(n) /\ Typed(n)
    BY <1>2 DEF IInv, Sound, Good, Laid
  <2>2. TypeOK
    BY <2>1 DEF IInv, Typed, Slot, TypeOK
  <2>3. SortedLayout
    <3>1. SUFFICES ASSUME IsSorted(n) PROVE SortedLayout
      BY DEF SortedLayout
    <3>2. Filled(n) /\ Ascending(n)
      BY <2>1, <3>1, LiveSlots DEF Laid
    <3>3. ASSUME NEW i \in 0 .. n.num - 1, NEW j \in 0 .. i - 1
          PROVE  n.edge[j] < n.edge[i]
      <4>1. j \in Live(n) /\ i \in Live(n) /\ j < i
        BY <2>1, LiveSlots DEF Live
      <4>2. QED
        BY <3>2, <4>1 DEF Ascending
    <3>4. QED
      BY <3>2, <3>3 DEF SortedLayout, Filled, Live
  <2>4. DenseLayout
    BY <2>1 DEF DenseLayout, Laid, Filled, Indexed, Live
  <2>5. DirectCount
    <3>1. SUFFICES ASSUME n.kind = "node256" PROVE DirectCount
      BY DEF DirectCount
    <3>2. Edges(n) = {b \in Byte : n.child[b] # nil}
      BY <3>1 DEF Edges, FindChild, FindDirect, IsSorted
    <3>3. QED
      BY <2>1, <3>2 DEF DirectCount, Good, Counted
  <2>6. CapacityBand
    BY <2>1 DEF CapacityBand, Sound
  <2>7. QED
    BY <2>2, <2>3, <2>4, <2>5, <2>6
<1>3. QED
  BY <1>1, <1>2

\* Every field of a node keeps the Go type and the range of its struct: in
\* particular no uint8 or uint16 counter or index ever wraps around.
THEOREM InnerNodeTypeOK == Spec => []TypeOK
  BY InnerNodeInv, InvImplies, PTL

\* node4 and node16 stay sorted and packed through every insertion, removal,
\* grow and shrink.
THEOREM InnerNodeSortedLayout == Spec => []SortedLayout
  BY InnerNodeInv, InvImplies, PTL

\* node48's index and childEdge arrays stay inverse and its slots dense: the
\* swap-removal repairs the index entry of the child it moves.
THEOREM InnerNodeDenseLayout == Spec => []DenseLayout
  BY InnerNodeInv, InvImplies, PTL

\* node256's counter is the number of its children, 256 included.
THEOREM InnerNodeDirectCount == Spec => []DirectCount
  BY InnerNodeInv, InvImplies, PTL

\* A node has, between two calls, the only type its count allows: the tests
\* for equality with a capacity in reshape are never jumped over.
THEOREM InnerNodeCapacityBand == Spec => []CapacityBand
  BY InnerNodeInv, InvImplies, PTL

-----------------------------------------------------------------------------
\* The walks.  e lists S upwards: every element once, in ascending order.
Lists(e, S, k) ==
  /\ \A i \in 0 .. k - 1 : e[i] \in S
  /\ \A b \in S : \E i \in 0 .. k - 1 : e[i] = b
  /\ \A i, j \in 0 .. k - 1 : j < i => e[j] < e[i]

Pairs(m) == {<<b, FindChild(m, b)>> : b \in Edges(m)}

Visits(w, m) == {w[i] : i \in DOMAIN w} = Pairs(m)
Upwards(w)   == \A i, j \in DOMAIN w : i < j => w[i][1] < w[j][1]
Downwards(w) == \A i, j \in DOMAIN w : i < j => w[i][1] > w[j][1]

\* A walk along such a list visits every child once, upwards ...
LEMMA WalkUp ==
  ASSUME NEW m, NEW k \in Nat, NEW e, Lists(e, Edges(m), k),
         NEW w, w = [i \in 1 .. k |-> <<e[i - 1], FindChild(m, e[i - 1])>>]
  PROVE  Visits(w, m) /\ Upwards(w)
<1>1. ASSUME NEW i \in 1 .. k PROVE i - 1 \in 0 .. k - 1 /\ w[i] \in Pairs(m)
  <2>1. i - 1 \in 0 .. k - 1
    OBVIOUS
  <2>2. QED
    BY <2>1 DEF Lists, Pairs
<1>2. ASSUME NEW b \in Edges(m) PROVE \E i \in 1 .. k : w[i] = <<b, FindChild(m, b)>>
  <2>1. PICK j \in 0 .. k - 1 : e[j] = b
    BY DEF Lists
  <2> DEFINE i == j + 1
  <2>2. i \in 1 .. k /\ i - 1 = j
    OBVIOUS
  <2> HIDE DEF i
  <2>3. QED
    BY <2>1, <2>2
<1>3. DOMAIN w = 1 .. k
  OBVIOUS
<1>4. Visits(w, m)
  <2>1. \A i \in DOMAIN w : w[i] \in Pairs(m)
    BY <1>1, <1>3
  <2>2. ASSUME NEW x \in Pairs(m) PROVE \E i \in DOMAIN w : x = w[i]
    <3>1. PICK b \in Edges(m) : x = <<b, FindChild(m, b)>>
      BY DEF Pairs
    <3>2. PICK i \in 1 .. k : w[i] = <<b, FindChild(m, b)>>
      BY <1>2
    <3>3. QED
      BY <3>1, <3>2, <1>3
  <2>3. QED
    BY <2>1, <2>2 DEF Visits
<1>5. ASSUME NEW i \in 1 .. k, NEW j \in 1 .. k, i < j
      PROVE  w[i][1] < w[j][1]
  <2>1. i - 1 \in 0 .. k - 1 /\ j - 1 \in 0 .. k - 1 /\ i - 1 < j - 1
    BY <1>5
  <2>2. e[i - 1] < e[j - 1]
    BY <2>1 DEF Lists
  <2>3. w[i][1] = e[i - 1] /\ w[j][1] = e[j - 1]
    OBVIOUS
  <2>4. QED
    BY <2>2, <2>3
<1>6. QED
  BY <1>3, <1>4, <1>5 DEF Upwards

\* ... and from its end, every child once, downwards.
LEMMA WalkDown ==
  ASSUME NEW m, NEW k \in Nat, NEW e, Lists(e, Edges(m), k),
         NEW w, w = [i \in 1 .. k |-> <<e[k - i], FindChild(m, e[k - i])>>]
  PROVE  Visits(w, m) /\ Downwards(w)
<1>1. ASSUME NEW i \in 1 .. k PROVE k - i \in 0 .. k - 1 /\ w[i] \in Pairs(m)
  <2>1. k - i \in 0 .. k - 1
    OBVIOUS
  <2>2. QED
    BY <2>1 DEF Lists, Pairs
<1>2. ASSUME NEW b \in Edges(m) PROVE \E i \in 1 .. k : w[i] = <<b, FindChild(m, b)>>
  <2>1. PICK j \in 0 .. k - 1 : e[j] = b
    BY DEF Lists
  <2> DEFINE i == k - j
  <2>2. i \in 1 .. k /\ k - i = j
    OBVIOUS
  <2> HIDE DEF i
  <2>3. QED
    BY <2>1, <2>2
<1>3. DOMAIN w = 1 .. k
  OBVIOUS
<1>4. Visits(w, m)
  <2>1. \A i \in DOMAIN w : w[i] \in Pairs(m)
    BY <1>1, <1>3
  <2>2. ASSUME NEW x \in Pairs(m) PROVE \E i \in DOMAIN w : x = w[i]
    <3>1. PICK b \in Edges(m) : x = <<b, FindChild(m, b)>>
      BY DEF Pairs
    <3>2. PICK i \in 1 .. k : w[i] = <<b, FindChild(m, b)>>
      BY <1>2
    <3>3. QED
      BY <3>1, <3>2, <1>3
  <2>3. QED
    BY <2>1, <2>2 DEF Visits
<1>5. ASSUME NEW i \in 1 .. k, NEW j \in 1 .. k, i < j
      PROVE  w[i][1] > w[j][1]
  <2>1. k - i \in 0 .. k - 1 /\ k - j \in 0 .. k - 1 /\ k - j < k - i
    BY <1>5
  <2>2. e[k - j] < e[k - i] /\ e[k - j] \in Byte /\ e[k - i] \in Byte
    BY <2>1 DEF Lists, Edges
  <2>3. w[i][1] = e[k - i] /\ w[j][1] = e[k - j]
    OBVIOUS
  <2>4. \A x \in Byte : x \in Int
    BY ByteFinite
  <2>5. QED
    BY <2>2, <2>3, <2>4
<1>6. QED
  BY <1>3, <1>4, <1>5 DEF Downwards

\* The slots of node4 and node16 are such a list.
LEMMA SlotsListed ==
  ASSUME NEW m, Good(m), IsSorted(m)
  PROVE  /\ Lists(m.edge, Edges(m), m.num)
         /\ \A i \in Live(m) : m.child[i] = FindChild(m, m.edge[i])
<1>1. m.kind # "node256" /\ Laid(m)
  BY DEF IsSorted, Good
<1>2. \A i \in Live(m) : /\ m.edge[i] \in Edges(m)
                         /\ m.child[i] = FindChild(m, m.edge[i])
  BY <1>1, FindInSlots, NilAssumption DEF Edges
<1>3. \A b \in Edges(m) : \E i \in Live(m) : m.edge[i] = b
  BY <1>1, FindInSlots DEF Edges
<1>4. QED
  BY <1>1, <1>2, <1>3 DEF Lists, Live, Laid, Ascending

\* So are the live bytes that node48 and node256 come across.
LEMMA BytesListed ==
  ASSUME NEW m, Good(m), ~ IsSorted(m),
         NEW e, e = [i \in 0 .. m.num - 1 |-> Nth(Edges(m), i)]
  PROVE  /\ LiveBytes(m) = Edges(m) /\ Cardinality(LiveBytes(m)) = m.num
         /\ Lists(e, Edges(m), m.num)
<1>1. LiveBytes(m) = Edges(m) /\ Cardinality(Edges(m)) = m.num
  BY LiveBytesAreEdges DEF Good, Counted
<1>2. Enumerated(Edges(m), m.num)
  BY <1>1, EdgesFinite, Enumeration
<1>3. QED
  BY <1>1, <1>2 DEF Enumerated, Lists

\* eachAscending, whichever the type.
LEMMA AscendingWalk ==
  ASSUME NEW m, Good(m), NEW w, w = EachAscending(m)
  PROVE  Visits(w, m) /\ Upwards(w)
<1>1. m.num \in Nat
  BY LiveSlots DEF Good, Laid
<1>2. CASE IsSorted(m)
  <2>1. \A i \in 1 .. m.num : i - 1 \in Live(m)
    BY <1>1 DEF Live
  <2>2. w = [i \in 1 .. m.num |-> <<m.edge[i - 1], FindChild(m, m.edge[i - 1])>>]
    BY <1>2, <2>1, SlotsListed DEF EachAscending, AscendingSlots
  <2>3. QED
    BY <1>1, <1>2, <2>2, SlotsListed, WalkUp
<1>3. CASE ~ IsSorted(m)
  <2> DEFINE e == [i \in 0 .. m.num - 1 |-> Nth(Edges(m), i)]
  <2>1. \A i \in 1 .. m.num : i - 1 \in 0 .. m.num - 1
    BY <1>1
  <2>2. /\ LiveBytes(m) = Edges(m) /\ Cardinality(LiveBytes(m)) = m.num
        /\ Lists(e, Edges(m), m.num)
    BY <1>3, BytesListed
  <2>3. w = [i \in 1 .. m.num |-> <<e[i - 1], FindChild(m, e[i - 1])>>]
    BY <1>3, <2>1, <2>2 DEF EachAscending, AscendingBytes
  <2> HIDE DEF e
  <2>4. QED
    BY <1>1, <2>2, <2>3, WalkUp
<1>4. QED
  BY <1>2, <1>3

\* eachDescending, whichever the type.
LEMMA DescendingWalk ==
  ASSUME NEW m, Good(m), NEW w, w = EachDescending(m)
  PROVE  Visits(w, m) /\ Downwards(w)
<1>1. m.num \in Nat
  BY LiveSlots DEF Good, Laid
<1>2. CASE IsSorted(m)
  <2>1. \A i \in 1 .. m.num : m.num - i \in Live(m)
    BY <1>1 DEF Live
  <2>2. w = [i \in 1 .. m.num |->
               <<m.edge[m.num - i], FindChild(m, m.edge[m.num - i])>>]
    BY <1>2, <2>1, SlotsListed DEF EachDescending, DescendingSlots
  <2>3. QED
    BY <1>1, <1>2, <2>2, SlotsListed, WalkDown
<1>3. CASE ~ IsSorted(m)
  <2> DEFINE e == [i \in 0 .. m.num - 1 |-> Nth(Edges(m), i)]
  <2>1. \A i \in 1 .. m.num : m.num - i \in 0 .. m.num - 1
    BY <1>1
  <2>2. /\ LiveBytes(m) = Edges(m) /\ Cardinality(LiveBytes(m)) = m.num
        /\ Lists(e, Edges(m), m.num)
    BY <1>3, BytesListed
  <2>3. w = [i \in 1 .. m.num |-> <<e[m.num - i], FindChild(m, e[m.num - i])>>]
    BY <1>3, <2>1, <2>2 DEF EachDescending, DescendingBytes
  <2> HIDE DEF e
  <2>4. QED
    BY <1>1, <2>2, <2>3, WalkDown
<1>4. QED
  BY <1>2, <1>3

\* Both walks of the node under study.
LEMMA InvImpliesWalks ==
  ASSUME IInv
  PROVE  WalksAreOrdered
<1>1. SUFFICES ASSUME n.kind # "none" PROVE WalksAreOrdered
  BY DEF WalksAreOrdered
<1>2. Good(n)
  BY <1>1 DEF IInv, Sound
<1> DEFINE up == EachAscending(n)
           down == EachDescending(n)
<1>3. Visits(up, n) /\ Upwards(up)
  BY <1>2, AscendingWalk
<1>4. Visits(down, n) /\ Downwards(down)
  BY <1>2, DescendingWalk
<1> HIDE DEF up, down
<1>5. WalkOf(up, LAMBDA x, y : x < y)
  BY <1>3 DEF WalkOf, Pairs, Visits, Upwards
<1>6. WalkOf(down, LAMBDA x, y : x > y)
  BY <1>4 DEF WalkOf, Pairs, Visits, Downwards
<1>7. QED
  BY <1>5, <1>6 DEF WalksAreOrdered, up, down

\* eachAscending and eachDescending visit every child of every node type once,
\* in strict order of the edge bytes: what ordered iteration is made of.
THEOREM InnerNodeWalksAreOrdered == Spec => []WalksAreOrdered
  BY InnerNodeInv, InvImpliesWalks, PTL

-----------------------------------------------------------------------------
(***************************************************************************)
(* Refinement: whatever arrays a node uses, the callers of the innerNode   *)
(* interface see a finite map from edge bytes to children.  The mapping is *)
(* CM of InnerNode; every step maps to the step of the same name.          *)
(***************************************************************************)
ChildrenOf(m) == [b \in Edges(m) |-> FindChild(m, b)]

\* CM's copies of the operators of NodeKinds are those operators.
LEMMA SameKinds ==
  /\ CM!Byte = Byte /\ CM!Empty = Empty
  /\ \A kind, count : CM!GrownKind(kind, count) = GrownKind(kind, count)
  /\ \A kind, count : CM!ReshapedKind(kind, count) = ReshapedKind(kind, count)
  BY DEF CM!Byte, Byte, CM!Empty, Empty, CM!GrownKind, GrownKind,
         CM!ReshapedKind, ReshapedKind, CM!Larger, Larger, CM!Smaller, Smaller,
         CM!Capacity, Capacity

\* ChildMap's count is the node's num.
LEMMA ChildrenCounted ==
  ASSUME NEW m, Good(m)
  PROVE  CM!Count(ChildrenOf(m)) = m.num
<1>1. DOMAIN ChildrenOf(m) = Edges(m)
  BY DEF ChildrenOf
<1>2. CM!Count(ChildrenOf(m)) = Cardinality(DOMAIN ChildrenOf(m))
  BY DEF CM!Count, CM!Cardinality, Cardinality
<1>3. QED
  BY <1>1, <1>2 DEF Good, Counted

\* No node, no children.
LEMMA InitRefines == Init => CM!CMInit
<1>1. SUFFICES ASSUME Init PROVE CM!CMInit
  OBVIOUS
<1>2. PICK p \in Prefixes : n = Gone(p)
  BY <1>1 DEF Init
<1>3. n.kind = "none" /\ n.prefix = p
  BY <1>2 DEF Gone
<1>4. QED
  BY <1>1, <1>3, SameKinds DEF Init, CM!CMInit

\* What reshape(m) does to the node is what CMReshape does to
\* its map.
LEMMA ReshapeRefines ==
  ASSUME NEW m, Reshapable(m), Reshape(m), m.kind = n.kind, m.prefix = n.prefix,
         m.kind # "none"
  PROVE  CM!CMReshape(m.terminal, ChildrenOf(m))
<1> DEFINE f == ChildrenOf(m)
<1>1. DOMAIN f = Edges(m) /\ (\A b \in Edges(m) : f[b] = FindChild(m, b)) /\ CM!Byte = Byte
  BY SameKinds DEF ChildrenOf
<1>2. ASSUME n' = Gone(m.prefix)
      PROVE  n'.kind = "none" /\ n'.prefix = n.prefix
  BY <1>2 DEF Gone
<1>3. CASE Edges(m) = {} /\ n' = Gone(m.prefix) /\ heir' = m.terminal
  BY <1>1, <1>2, <1>3, SameKinds DEF CM!CMReshape
<1>4. CASE /\ m.kind = "node4" /\ m.terminal = nil
           /\ \E b \in Byte : Edges(m) = {b} /\ heir' = FindChild(m, b)
           /\ n' = Gone(m.prefix)
  <2>1. \E b \in Byte : DOMAIN f = {b} /\ heir' = f[b]
    BY <1>1, <1>4
  <2>2. QED
    BY <1>1, <1>2, <1>4, <2>1, SameKinds DEF CM!CMReshape
<1>5. CASE /\ Edges(m) # {}
           /\ ~ (m.kind = "node4" /\ m.terminal = nil /\ \E b \in Byte : Edges(m) = {b})
           /\ n' = IF ReshapedKind(m.kind, m.num) = m.kind THEN m ELSE Shrink(m)
           /\ heir' = heir
  <2>1. /\ Sound(n') /\ Header(n', ReshapedKind(m.kind, m.num), m.prefix, m.terminal)
        /\ \A x \in Byte : FindChild(n', x) = FindChild(m, x)
    BY <1>5, ReshapedSound
  <2>2. n'.kind # "none"
    BY <2>1, SoundIsNode
  <2>3. Edges(n') = Edges(m)
    BY <2>1 DEF Edges
  <2>4. \A b \in Edges(m) : b \in Byte
    BY DEF Edges
  <2>5. [b \in Edges(n') |-> FindChild(n', b)] = f
    BY <2>1, <2>3, <2>4 DEF ChildrenOf
  <2>6. CM!Count(f) = m.num
    BY ChildrenCounted DEF Reshapable
  <2> HIDE DEF f
  <2>7. CM!CMReshape(m.terminal, f)
    BY <1>1, <1>5, <2>1, <2>2, <2>5, <2>6, SameKinds DEF CM!CMReshape, Header
  <2>8. QED
    BY <2>7 DEF f
<1>6. QED
  BY <1>3, <1>4, <1>5, ReshapeAlternatives

\* The children variable of CM, before and after a step.
LEMMA ChildrenAfter ==
  ASSUME NEW m, NEW r, NEW b \in Byte, NEW c \in Nodes, Found(r, m, b, c)
  PROVE  ChildrenOf(r) = CM!With(ChildrenOf(m), b, c)
<1>1. Edges(r) = Edges(m) \cup {b}
  BY NilAssumption DEF Edges, Found
<1>2. \A x \in Edges(r) : FindChild(r, x) = IF x = b THEN c ELSE FindChild(m, x)
  BY DEF Edges, Found
<1>3. DOMAIN ChildrenOf(m) = Edges(m)
  BY DEF ChildrenOf
<1>4. QED
  BY <1>1, <1>2, <1>3 DEF ChildrenOf, CM!With

\* A removal takes its byte out of the map.
LEMMA ChildrenWithout ==
  ASSUME NEW m, NEW r, NEW b \in Byte, Found(r, m, b, nil)
  PROVE  ChildrenOf(r) = CM!Without(ChildrenOf(m), b)
<1>1. Edges(r) = Edges(m) \ {b}
  BY DEF Edges, Found
<1>2. \A x \in Edges(r) : FindChild(r, x) = FindChild(m, x)
  BY <1>1 DEF Edges, Found
<1>3. DOMAIN ChildrenOf(m) = Edges(m)
  BY DEF ChildrenOf
<1>4. QED
  BY <1>1, <1>2, <1>3 DEF ChildrenOf, CM!Without

\* The map depends on nothing but what findChild answers.
LEMMA SameChildren ==
  ASSUME NEW m, NEW r, \A x \in Byte : FindChild(r, x) = FindChild(m, x)
  PROVE  ChildrenOf(r) = ChildrenOf(m)
<1>1. Edges(r) = Edges(m)
  BY DEF Edges
<1>2. \A x \in Edges(m) : x \in Byte
  BY DEF Edges
<1>3. QED
  BY <1>1, <1>2 DEF ChildrenOf

\* Every action is ChildMap's action of the same name.
LEMMA StepRefines ==
  ASSUME IInv, Next
  PROVE  CM!CMNext
<1> USE DEF Slot
<1>1. ASSUME NEW p \in Prefixes, NEW t \in Nodes, NEW c \in Nodes, NEW b \in Byte,
             NewBranch(p, t, b, c)
      PROVE  CM!CMNewBranch(p, t, b, c)
  <2>1. /\ n.kind = "none" /\ heir' = nil
        /\ Sound(n') /\ Header(n', "node4", p, t)
        /\ \A x \in Byte : FindChild(n', x) = IF x = b THEN c ELSE nil
    BY <1>1, BranchSound DEF NewBranch
  <2>2. ChildrenOf(n') = [x \in {b} |-> c]
    <3>1. Edges(n') = {b}
      BY <2>1, NilAssumption DEF Edges
    <3>2. QED
      BY <2>1, <3>1 DEF ChildrenOf
  <2>3. QED
    BY <2>1, <2>2 DEF CM!CMNewBranch, Header, ChildrenOf
<1>2. ASSUME NEW p \in Prefixes, NEW c1 \in Nodes, NEW c2 \in Nodes,
             NEW b1 \in Byte, NEW b2 \in Byte, NewFork(p, b1, c1, b2, c2)
      PROVE  CM!CMNewFork(p, b1, c1, b2, c2)
  <2>1. /\ n.kind = "none" /\ heir' = nil /\ b1 # b2
        /\ Sound(n') /\ Header(n', "node4", p, nil)
        /\ \A x \in Byte : FindChild(n', x) = IF x = b2 THEN c2
                                              ELSE IF x = b1 THEN c1 ELSE nil
    BY <1>2, ForkSound DEF NewFork
  <2>2. ChildrenOf(n') = [x \in {b1, b2} |-> IF x = b1 THEN c1 ELSE c2]
    <3>1. Edges(n') = {b1, b2}
      BY <2>1, NilAssumption DEF Edges
    <3>2. QED
      BY <2>1, <3>1 DEF ChildrenOf
  <2>3. QED
    BY <2>1, <2>2 DEF CM!CMNewFork, Header, ChildrenOf
<1>3. ASSUME NEW p \in Prefixes, SetPrefix(p)
      PROVE  CM!CMSetPrefix(p)
  <2>1. Sound(n) /\ n.kind # "none" /\ heir' = heir /\ n' = [n EXCEPT !.prefix = p]
    BY <1>3 DEF SetPrefix, IInv
  <2>2. /\ Header(n', n.kind, p, n.terminal) /\ n'.num = n.num /\ n'.edge = n.edge
        /\ n'.child = n.child /\ n'.index = n.index /\ n.terminal \in Slot
    BY <2>1 DEF Sound, Good, Laid, Typed, Header, Fields
  <2>3. ChildrenOf(n') = ChildrenOf(n)
    <3>1. \A x \in Byte : FindChild(n', x) = FindChild(n, x)
      BY <2>1, <2>2, HeaderEdited DEF Sound
    <3>2. QED
      BY <3>1, SameChildren
  <2>4. QED
    BY <2>1, <2>2, <2>3 DEF CM!CMSetPrefix, Header, ChildrenOf
<1>4. ASSUME NEW t \in Nodes, SetTerminal(t)
      PROVE  CM!CMSetTerminal(t)
  <2>1. /\ Sound(n) /\ n.kind # "none" /\ n.terminal = nil
        /\ heir' = heir /\ n' = [n EXCEPT !.terminal = t]
    BY <1>4 DEF SetTerminal, IInv
  <2>2. /\ Header(n', n.kind, n.prefix, t) /\ n'.num = n.num /\ n'.edge = n.edge
        /\ n'.child = n.child /\ n'.index = n.index /\ n.prefix \in Prefixes
    BY <2>1 DEF Sound, Good, Laid, Typed, Header, Fields
  <2>3. ChildrenOf(n') = ChildrenOf(n)
    <3>1. Good(n) /\ t \in Slot
      BY <2>1 DEF Sound
    <3>2. \A x \in Byte : FindChild(n', x) = FindChild(n, x)
      BY <3>1, <2>2, HeaderEdited
    <3>3. QED
      BY <3>2, SameChildren
  <2>4. QED
    BY <2>1, <2>2, <2>3 DEF CM!CMSetTerminal, Header, ChildrenOf
<1>5. ASSUME NEW b \in Byte, NEW c \in Nodes, DoAddOrGrow(b, c)
      PROVE  CM!CMAddOrGrow(b, c)
  <2>1. /\ Sound(n) /\ n.kind # "none" /\ FindChild(n, b) = nil
        /\ heir' = heir /\ n' = AddOrGrow(n, b, c)
    BY <1>5 DEF DoAddOrGrow, IInv
  <2>2. /\ Sound(n') /\ Header(n', GrownKind(n.kind, n.num), n.prefix, n.terminal)
        /\ Found(n', n, b, c)
    BY <2>1, AddOrGrowExtends
  <2>3. n'.kind # "none"
    BY <2>2, SoundIsNode
  <2>4. ChildrenOf(n') = CM!With(ChildrenOf(n), b, c) /\ CM!Count(ChildrenOf(n)) = n.num
    BY <2>1, <2>2, ChildrenAfter, ChildrenCounted DEF Sound
  <2>5. b \notin DOMAIN ChildrenOf(n)
    BY <2>1 DEF ChildrenOf, Edges
  <2>6. QED
    BY <2>1, <2>2, <2>3, <2>4, <2>5, SameKinds
    DEF CM!CMAddOrGrow, Header, ChildrenOf
<1>6. ASSUME NEW b \in Byte, NEW c \in Nodes, DoReplaceChild(b, c)
      PROVE  CM!CMReplaceChild(b, c)
  <2>1. /\ Sound(n) /\ n.kind # "none" /\ FindChild(n, b) # nil
        /\ heir' = heir /\ n' = ReplaceChild(n, b, c)
    BY <1>6 DEF DoReplaceChild, IInv
  <2>2. Replaced(n', n, b, c)
    BY <2>1, ReplaceChildReplaces DEF Sound, Good
  <2>3. ChildrenOf(n') = CM!With(ChildrenOf(n), b, c)
    BY <2>2, ChildrenAfter DEF Replaced
  <2>4. b \in DOMAIN ChildrenOf(n)
    BY <2>1 DEF ChildrenOf, Edges
  <2>5. QED
    BY <2>1, <2>2, <2>3, <2>4 DEF CM!CMReplaceChild, Replaced, Header, ChildrenOf
<1>7. ASSUME NEW b \in Byte, DoRemoveChild(b)
      PROVE  CM!CMRemoveChild(b)
  <2> DEFINE m == RemoveChild(n, b)
  <2>1. Sound(n) /\ n.kind # "none" /\ FindChild(n, b) # nil /\ Reshape(m)
    BY <1>7 DEF DoRemoveChild, IInv
  <2>2. Reshapable(m) /\ Reduced(m, n, b)
    BY <2>1, RemovedReshapable
  <2> HIDE DEF m
  <2>3. m.kind = n.kind /\ m.prefix = n.prefix /\ m.terminal = n.terminal
    BY <2>2 DEF Reduced, Header
  <2>4. CM!CMReshape(n.terminal, CM!Without(ChildrenOf(n), b))
    BY <2>1, <2>2, <2>3, ReshapeRefines, ChildrenWithout DEF Reduced
  <2>5. b \in DOMAIN ChildrenOf(n)
    BY <2>1 DEF ChildrenOf, Edges
  <2>6. QED
    BY <2>1, <2>4, <2>5 DEF CM!CMRemoveChild, ChildrenOf
<1>8. ASSUME DoClearTerminal
      PROVE  CM!CMClearTerminal
  <2> DEFINE m == [n EXCEPT !.terminal = nil]
  <2>1. Sound(n) /\ n.kind # "none" /\ n.terminal # nil /\ Reshape(m)
    BY <1>8 DEF DoClearTerminal, IInv
  <2>2. /\ Reshapable(m) /\ Header(m, n.kind, n.prefix, nil)
        /\ \A x \in Byte : FindChild(m, x) = FindChild(n, x)
    BY <2>1, ClearedReshapable
  <2> HIDE DEF m
  <2>3. m.kind = n.kind /\ m.prefix = n.prefix /\ m.terminal = nil
    BY <2>2 DEF Header
  <2>4. CM!CMReshape(nil, ChildrenOf(n))
    BY <2>1, <2>2, <2>3, ReshapeRefines, SameChildren
  <2>5. QED
    BY <2>1, <2>4 DEF CM!CMClearTerminal, ChildrenOf
<1>9. QED
  BY <1>1, <1>2, <1>3, <1>4, <1>5, <1>6, <1>7, <1>8, SameKinds DEF Next, CM!CMNext

\* The innerNode interface keeps its promise whichever type answers: every
\* behaviour of the four layouts is one of ChildMap.
THEOREM InnerNodeImplementsChildMap == Spec => ImplementsChildMap
<1>1. Init => CM!CMInit
  BY InitRefines
<1>2. IInv /\ [Next]_inVars => [CM!CMNext]_(CM!cmVars)
  <2>1. UNCHANGED inVars => UNCHANGED CM!cmVars
    BY DEF inVars, CM!cmVars
  <2>2. QED
    BY <2>1, StepRefines
<1>3. QED
  BY <1>1, <1>2, InnerNodeInv, PTL DEF Spec, ImplementsChildMap, CM!CMSpec
=============================================================================
