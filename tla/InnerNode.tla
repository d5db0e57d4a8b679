------------------------------ MODULE InnerNode ------------------------------
(***************************************************************************)
(* The four array layouts behind the innerNode interface (types.go).       *)
(*                                                                         *)
(*   node4, node16   edge and child are parallel arrays, sorted by edge    *)
(*                   byte in their first num slots (edge is keys in Go);   *)
(*   node48          index maps a byte to a 1-based slot, 0 meaning absent;*)
(*                   edge (childEdge in Go) maps a slot back to its byte;  *)
(*   node256         child is indexed by the edge byte itself.             *)
(*                                                                         *)
(* Arrays are functions on 0 .. capacity-1 as in Go.  Counters have the    *)
(* width they have in Go: uint8 in node4/16/48, uint16 in node256; a byte  *)
(* takes node256Capacity values, so uint8 counts modulo node256Capacity.   *)
(***************************************************************************)
EXTENDS NodeKinds

CONSTANTS Nodes, Prefixes, nil

ASSUME NilAssumption == nil \notin Nodes

VARIABLES
  n,      \* the node object, [kind |-> "none", ...] while the slot has none
  heir    \* what reshape returned in place of the last node

inVars == <<n, heir>>

Slots(kind) == 0 .. Capacity(kind) - 1

Uint8(x)  == x % node256Capacity
Uint16(x) == x % (node256Capacity * node256Capacity)

Gone(prefix) ==
  [kind |-> "none", num |-> 0, prefix |-> prefix, terminal |-> nil,
   edge |-> Empty, child |-> Empty, index |-> Empty]

\* A zero-valued node of a type: no children, every array zeroed.
Fresh(kind, prefix, terminal) ==
  [kind |-> kind, num |-> 0, prefix |-> prefix, terminal |-> terminal,
   edge  |-> [i \in (IF kind = "node256" THEN {} ELSE Slots(kind)) |-> 0],
   child |-> [i \in Slots(kind) |-> nil],
   index |-> [b \in (IF kind = "node48" THEN Byte ELSE {}) |-> 0]]

IsSorted(m) == m.kind \in {"node4", "node16"}

\* The slot that holds edge byte b in a node4 or node16, as the linear scan
\* of findChild, replaceChild and removeChild meets it.
SlotsWith(m, b) == {i \in 0 .. m.num - 1 : m.edge[i] = b}
SlotOf(m, b) ==
  CHOOSE i \in SlotsWith(m, b) : \A j \in SlotsWith(m, b) : i <= j

FindSorted(m, b) == IF SlotsWith(m, b) = {} THEN nil ELSE m.child[SlotOf(m, b)]
FindDense(m, b)  == IF m.index[b] = 0 THEN nil ELSE m.child[m.index[b] - 1]
FindDirect(m, b) == m.child[b]

FindChild(m, b) ==
  CASE IsSorted(m)       -> FindSorted(m, b)
    [] m.kind = "node48" -> FindDense(m, b)
    [] OTHER             -> FindDirect(m, b)

Edges(m) == {b \in Byte : FindChild(m, b) # nil}
-----------------------------------------------------------------------------
(***************************************************************************)
(* Adding a child to a node that has room for it.                          *)
(***************************************************************************)

\* The first slot whose byte is not below b: where the scan stops.
InsertionSlotAppends(m, b) == m.num

InsertionSlot(m, b) ==
  CHOOSE i \in 0 .. m.num :
    /\ \A j \in 0 .. i - 1 : m.edge[j] < b
    /\ i = m.num \/ m.edge[i] >= b

Inserted(a, i, num, x) ==
  [j \in DOMAIN a |-> IF j = i THEN x
                      ELSE IF i < j /\ j <= num THEN a[j - 1]
                      ELSE a[j]]

InsertSorted(m, b, c) ==
  LET i == InsertionSlot(m, b)
  IN  [m EXCEPT !.edge  = Inserted(m.edge, i, m.num, b),
                !.child = Inserted(m.child, i, m.num, c),
                !.num   = Uint8(m.num + 1)]

AddDense(m, b, c) ==
  [m EXCEPT !.child[m.num] = c,
            !.edge[m.num]  = b,
            !.index[b]     = Uint8(m.num + 1),
            !.num          = Uint8(m.num + 1)]

AddDirectUint8(m, b, c) ==
  [m EXCEPT !.child[b] = c, !.num = Uint8(m.num + 1)]

AddDirect(m, b, c) ==
  [m EXCEPT !.child[b] = c, !.num = Uint16(m.num + 1)]

AddChild(m, b, c) ==
  CASE IsSorted(m)        -> InsertSorted(m, b, c)
    [] m.kind = "node48"  -> AddDense(m, b, c)
    [] OTHER              -> AddDirect(m, b, c)
-----------------------------------------------------------------------------
(***************************************************************************)
(* Growing: the next larger layout with the same header and children.      *)
(***************************************************************************)
Copied(a, num, zero, kind) ==
  [i \in Slots(kind) |-> IF i < num THEN a[i] ELSE zero]

GrowToNode16(m) ==
  [Fresh("node16", m.prefix, m.terminal) EXCEPT
     !.num = m.num,
     !.edge = Copied(m.edge, m.num, 0, "node16"),
     !.child = Copied(m.child, m.num, nil, "node16")]

GrowToNode48(m) ==
  [Fresh("node48", m.prefix, m.terminal) EXCEPT
     !.num = m.num,
     !.edge = Copied(m.edge, m.num, 0, "node48"),
     !.child = Copied(m.child, m.num, nil, "node48"),
     !.index = [b \in Byte |-> IF SlotsWith(m, b) = {} THEN 0
                               ELSE Uint8(SlotOf(m, b) + 1)]]

GrowToNode256(m) ==
  [Fresh("node256", m.prefix, m.terminal) EXCEPT
     !.num = Uint16(m.num),
     !.child = [b \in Byte |-> IF m.index[b] = 0 THEN nil
                               ELSE m.child[m.index[b] - 1]]]

Grow(m) ==
  CASE m.kind = "node4"  -> GrowToNode16(m)
    [] m.kind = "node16" -> GrowToNode48(m)
    [] OTHER             -> GrowToNode256(m)

AddOrGrow(m, b, c) ==
  IF GrownKind(m.kind, m.num) = m.kind THEN AddChild(m, b, c)
                                       ELSE AddChild(Grow(m), b, c)
-----------------------------------------------------------------------------
(***************************************************************************)
(* Replacing and removing a child.  Both are no-ops on an absent byte.     *)
(***************************************************************************)
ReplaceSorted(m, b, c) == [m EXCEPT !.child[SlotOf(m, b)] = c]
ReplaceDense(m, b, c)  == [m EXCEPT !.child[m.index[b] - 1] = c]
ReplaceDirect(m, b, c) == [m EXCEPT !.child[b] = c]

ReplaceChild(m, b, c) ==
  IF FindChild(m, b) = nil THEN m
  ELSE CASE IsSorted(m)       -> ReplaceSorted(m, b, c)
         [] m.kind = "node48" -> ReplaceDense(m, b, c)
         [] OTHER             -> ReplaceDirect(m, b, c)

\* a with the entries after i moved one slot left and the last one zeroed.
Removed(a, i, num, zero) ==
  [j \in DOMAIN a |-> IF j = num - 1 THEN zero
                      ELSE IF i <= j /\ j < num - 1 THEN a[j + 1]
                      ELSE a[j]]

RemoveSorted(m, b) ==
  LET i == SlotOf(m, b)
  IN  [m EXCEPT !.edge  = Removed(m.edge, i, m.num, 0),
                !.child = Removed(m.child, i, m.num, nil),
                !.num   = m.num - 1]

(***************************************************************************)
(* node48 keeps its first num slots dense by moving the last live child    *)
(* into the vacated slot and pointing that child's index entry at it.      *)
(***************************************************************************)
RemoveSwapStaleIndex(m, b) ==
  LET slot == m.index[b]
      last == m.num
  IN  [m EXCEPT !.child = [@ EXCEPT ![slot - 1] = m.child[last - 1],
                                    ![last - 1] = nil],
                !.edge  = [@ EXCEPT ![slot - 1] = m.edge[last - 1],
                                    ![last - 1] = 0],
                !.index = [@ EXCEPT ![b] = 0],
                !.num   = last - 1]

RemoveSwap(m, b) ==
  LET slot == m.index[b]
      last == m.num
  IN  [m EXCEPT !.child = [@ EXCEPT ![slot - 1] = m.child[last - 1],
                                    ![last - 1] = nil],
                !.edge  = [@ EXCEPT ![slot - 1] = m.edge[last - 1],
                                    ![last - 1] = 0],
                !.index = [@ EXCEPT ![m.edge[last - 1]] = slot, ![b] = 0],
                !.num   = last - 1]

RemoveDirect(m, b) == [m EXCEPT !.child[b] = nil, !.num = m.num - 1]

RemoveChild(m, b) ==
  IF FindChild(m, b) = nil THEN m
  ELSE CASE IsSorted(m)       -> RemoveSorted(m, b)
         [] m.kind = "node48" -> RemoveSwap(m, b)
         [] OTHER             -> RemoveDirect(m, b)
-----------------------------------------------------------------------------
(***************************************************************************)
(* Shrinking: the next smaller layout.  The loops over all bytes of        *)
(* shrinkToNode16 and shrinkToNode48 fill slot i with the i-th live byte.  *)
(***************************************************************************)
LiveBytes(m) ==
  IF m.kind = "node48" THEN {b \in Byte : m.index[b] # 0}
                       ELSE {b \in Byte : m.child[b] # nil}

ShrinkToNode4(m) ==
  [Fresh("node4", m.prefix, m.terminal) EXCEPT
     !.num = m.num,
     !.edge = Copied(m.edge, m.num, 0, "node4"),
     !.child = Copied(m.child, m.num, nil, "node4")]

\* A plausible slip: copying node48's slots in slot order, unsorted.
ShrinkToNode16BySlot(m) ==
  [Fresh("node16", m.prefix, m.terminal) EXCEPT
     !.num = m.num,
     !.edge = Copied(m.edge, m.num, 0, "node16"),
     !.child = Copied(m.child, m.num, nil, "node16")]

ShrinkToNode16(m) ==
  LET live == LiveBytes(m)
  IN  [Fresh("node16", m.prefix, m.terminal) EXCEPT
         !.num = m.num,
         !.edge = [i \in Slots("node16") |->
                     IF HasNth(live, i) THEN Nth(live, i) ELSE 0],
         !.child = [i \in Slots("node16") |->
                      IF HasNth(live, i) THEN m.child[m.index[Nth(live, i)] - 1]
                                         ELSE nil]]

\* A slip in the header: the terminal is not carried over.
ShrinkToNode48DropsTerminal(m) ==
  LET live == LiveBytes(m)
  IN  [Fresh("node48", m.prefix, nil) EXCEPT
         !.num = Uint8(m.num),
         !.edge = [i \in Slots("node48") |->
                     IF HasNth(live, i) THEN Nth(live, i) ELSE 0],
         !.child = [i \in Slots("node48") |->
                      IF HasNth(live, i) THEN m.child[Nth(live, i)] ELSE nil],
         !.index = [b \in Byte |-> IF b \in live THEN Rank(live, b) + 1 ELSE 0]]

ShrinkToNode48(m) ==
  LET live == LiveBytes(m)
  IN  [Fresh("node48", m.prefix, m.terminal) EXCEPT
         !.num = Uint8(m.num),
         !.edge = [i \in Slots("node48") |->
                     IF HasNth(live, i) THEN Nth(live, i) ELSE 0],
         !.child = [i \in Slots("node48") |->
                      IF HasNth(live, i) THEN m.child[Nth(live, i)] ELSE nil],
         !.index = [b \in Byte |-> IF b \in live THEN Rank(live, b) + 1 ELSE 0]]

Shrink(m) ==
  CASE m.kind = "node16" -> ShrinkToNode4(m)
    [] m.kind = "node48" -> ShrinkToNode16(m)
    [] OTHER             -> ShrinkToNode48(m)

(***************************************************************************)
(* reshape, after a removal or the clearing of the terminal: what it       *)
(* returns takes the node's place in the parent's slot.                    *)
(***************************************************************************)
Reshape(m) ==
  CASE m.num = 0 ->
         /\ n' = Gone(m.prefix)
         /\ heir' = m.terminal
    [] m.num = 1 /\ m.kind = "node4" /\ m.terminal = nil ->
         /\ n' = Gone(m.prefix)
         /\ heir' = m.child[0]
    [] OTHER ->
         /\ n' = IF ReshapedKind(m.kind, m.num) = m.kind THEN m ELSE Shrink(m)
         /\ UNCHANGED heir
-----------------------------------------------------------------------------
(***************************************************************************)
(* The children in the order eachAscending and eachDescending visit them:  *)
(* slot order in node4 and node16, a scan of all bytes in the other two.   *)
(***************************************************************************)
AscendingSlots(m) == [i \in 1 .. m.num |-> <<m.edge[i - 1], m.child[i - 1]>>]
DescendingSlots(m) ==
  [i \in 1 .. m.num |-> <<m.edge[m.num - i], m.child[m.num - i]>>]

AscendingBytes(m) ==
  [i \in 1 .. Cardinality(LiveBytes(m)) |->
    LET b == Nth(LiveBytes(m), i - 1) IN <<b, FindChild(m, b)>>]
DescendingBytes(m) ==
  LET num == Cardinality(LiveBytes(m))
  IN  [i \in 1 .. num |->
        LET b == Nth(LiveBytes(m), num - i) IN <<b, FindChild(m, b)>>]

EachAscending(m)  == IF IsSorted(m) THEN AscendingSlots(m) ELSE AscendingBytes(m)
EachDescending(m) == IF IsSorted(m) THEN DescendingSlots(m) ELSE DescendingBytes(m)
-----------------------------------------------------------------------------
Init ==
  /\ \E p \in Prefixes : n = Gone(p)
  /\ heir = nil

\* newNode4With and splitPrefixedInner, with one key ending at the new node ...
NewBranch(p, t, b, c) ==
  /\ n.kind = "none"
  /\ n' = AddChild(Fresh("node4", p, t), b, c)
  /\ heir' = nil

\* ... and with two diverging ones.
NewFork(p, b1, c1, b2, c2) ==
  /\ n.kind = "none" /\ b1 # b2
  /\ n' = AddChild(AddChild(Fresh("node4", p, nil), b1, c1), b2, c2)
  /\ heir' = nil

\* A split of the prefix, or the merge of a parent's prefix into it.
SetPrefix(p) ==
  /\ n.kind # "none"
  /\ n' = [n EXCEPT !.prefix = p]
  /\ UNCHANGED heir

\* A key that ends at this node; an existing terminal is overwritten in place.
SetTerminal(t) ==
  /\ n.kind # "none" /\ n.terminal = nil
  /\ n' = [n EXCEPT !.terminal = t]
  /\ UNCHANGED heir

\* putIntoInner calls addOrGrow only when findChild returned nil ...
DoAddOrGrow(b, c) ==
  /\ n.kind # "none" /\ FindChild(n, b) = nil
  /\ n' = AddOrGrow(n, b, c)
  /\ UNCHANGED heir

\* ... and replaceChild when it did not.
DoReplaceChild(b, c) ==
  /\ n.kind # "none" /\ FindChild(n, b) # nil
  /\ n' = ReplaceChild(n, b, c)
  /\ UNCHANGED heir

\* deleteFrom drops the child under b, then reshapes.
DoRemoveChild(b) ==
  /\ n.kind # "none" /\ FindChild(n, b) # nil
  /\ Reshape(RemoveChild(n, b))

\* deleteFrom clears the terminal, then reshapes.
DoClearTerminal ==
  /\ n.kind # "none" /\ n.terminal # nil
  /\ Reshape([n EXCEPT !.terminal = nil])

Next ==
  \/ \E p \in Prefixes :
       \/ \E t, c \in Nodes, b \in Byte : NewBranch(p, t, b, c)
       \/ \E c1, c2 \in Nodes, b1, b2 \in Byte : NewFork(p, b1, c1, b2, c2)
       \/ SetPrefix(p)
  \/ \E t \in Nodes : SetTerminal(t)
  \/ \E b \in Byte, c \in Nodes : DoAddOrGrow(b, c) \/ DoReplaceChild(b, c)
  \/ \E b \in Byte : DoRemoveChild(b)
  \/ DoClearTerminal

Spec == Init /\ [][Next]_inVars
-----------------------------------------------------------------------------
(***************************************************************************)
(* Properties.                                                             *)
(***************************************************************************)

\* Every field has the Go type of its node's struct, and num stays within the
\* node's arrays.
TypeOK ==
  /\ heir \in Nodes \cup {nil}
  /\ n.kind \in InnerKinds \cup {"none"}
  /\ n.prefix \in Prefixes
  /\ n.kind # "none" =>
       /\ n.terminal \in Nodes \cup {nil}
       /\ n.num \in 0 .. Capacity(n.kind)
       /\ n.child \in [Slots(n.kind) -> Nodes \cup {nil}]
       /\ n.kind # "node256" => n.edge \in [Slots(n.kind) -> Byte]
       /\ n.kind = "node48" => n.index \in [Byte -> 0 .. Capacity("node48")]

\* node4 and node16 hold their children in the first num slots, in strictly
\* ascending edge order, and nothing after them, whatever was added, removed,
\* grown from a smaller node or shrunk from a node48.
SortedLayout ==
  IsSorted(n) =>
    /\ \A i \in 0 .. n.num - 1 : n.child[i] # nil
    /\ \A i \in 0 .. n.num - 1 : \A j \in 0 .. i - 1 : n.edge[j] < n.edge[i]
    /\ \A i \in Slots(n.kind) : i >= n.num => n.child[i] = nil

\* node48's index and edge arrays stay inverse to each other and its first num
\* slots stay dense, through swap-removals, grows and shrinks.
DenseLayout ==
  n.kind = "node48" =>
    /\ \A i \in 0 .. n.num - 1 : n.child[i] # nil /\ n.index[n.edge[i]] = i + 1
    /\ \A b \in Byte : n.index[b] # 0 => /\ n.index[b] <= n.num
                                        /\ n.edge[n.index[b] - 1] = b
    /\ \A i \in Slots(n.kind) : i >= n.num => n.child[i] = nil

\* node256 has no structure to count its children by: its counter, which alone
\* decides when it shrinks, is exact, and full does not read as empty.
DirectCount ==
  n.kind = "node256" => n.num = Cardinality({b \in Byte : n.child[b] # nil})

\* Between two calls a node has the only type its count allows: addOrGrow and
\* reshape, which test for a boundary and not for a range, never skip one.
CapacityBand == n.kind # "none" => KindFits(n.kind, n.num)

\* A walk in either direction visits every child once, in strict edge order.
WalkOf(w, Before(_, _)) ==
  /\ {w[i] : i \in DOMAIN w} = {<<b, FindChild(n, b)>> : b \in Edges(n)}
  /\ \A i, j \in DOMAIN w : i < j => Before(w[i][1], w[j][1])

WalksAreOrdered ==
  n.kind # "none" =>
    /\ WalkOf(EachAscending(n), LAMBDA x, y : x < y)
    /\ WalkOf(EachDescending(n), LAMBDA x, y : x > y)

\* The four layouts implement one map from edge bytes to children: findChild
\* is the same function before and after any grow, shrink or shift.
CM == INSTANCE ChildMap WITH
        kind <- n.kind, prefix <- n.prefix,
        terminal <- IF n.kind = "none" THEN nil ELSE n.terminal,
        children <- IF n.kind = "none" THEN Empty
                    ELSE [b \in Edges(n) |-> FindChild(n, b)]

ImplementsChildMap == CM!CMSpec
=============================================================================
