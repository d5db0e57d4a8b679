----------------------------- MODULE LadderNodes -----------------------------
(***************************************************************************)
(* The inner nodes of tutorial chapters 5 to 9, down to their arrays.  A   *)
(* chapter has some of the four types: Ladder lists them, smallest first.  *)
(* node4 and node16 keep their first numChildren keys sorted; node48 packs *)
(* its children densely and finds them through childIndex (0 is absent);   *)
(* node256 has a slot for each byte.  Slots are numbered from 1 here.      *)
(***************************************************************************)
EXTENDS ChapterBase

CONSTANT Ladder

Rung(kind) == CHOOSE i \in DOMAIN Ladder : Ladder[i] = kind
Wider(kind)    == Ladder[Rung(kind) + 1]
Narrower(kind) == Ladder[Rung(kind) - 1]

Sorted(n) == n.kind \in {"node4", "node16"}
Slots(kind) == 1 .. Capacity(kind)
Filled(n) == 1 .. n.numChildren

NewSorted(kind, prefix) ==
  [kind |-> kind, prefix |-> prefix, terminal |-> NoNode, numChildren |-> 0,
   keys |-> [i \in Slots(kind) |-> 0], children |-> [i \in Slots(kind) |-> NoNode]]

NewDense(prefix) ==
  [kind |-> "node48", prefix |-> prefix, terminal |-> NoNode, numChildren |-> 0,
   childIndex |-> [b \in Byte |-> 0], childEdge |-> [i \in Slots("node48") |-> 0],
   children |-> [i \in Slots("node48") |-> NoNode]]

NewDirect(prefix) ==
  [kind |-> "node256", prefix |-> prefix, terminal |-> NoNode, numChildren |-> 0,
   children |-> [b \in Byte |-> NoNode]]
-----------------------------------------------------------------------------
(* node4 and node16 *)

\* The first filled slot with key b, or 0.
SlotSorted(n, b) ==
  LET slots == {i \in Filled(n) : n.keys[i] = b}
  IN  IF slots = {} THEN 0 ELSE CHOOSE i \in slots : \A j \in slots : i <= j

\* The slots from the first key not below b move up by one.
AddSorted(n, b, child) ==
  LET at == CHOOSE i \in 1 .. n.numChildren + 1 :
              /\ \A j \in 1 .. i - 1 : n.keys[j] < b
              /\ i \in Filled(n) => n.keys[i] >= b
      Opened(a, x) == [i \in DOMAIN a |->
        IF i = at THEN x
        ELSE IF at < i /\ i <= n.numChildren + 1 THEN a[i - 1] ELSE a[i]]
  IN  [n EXCEPT !.keys = Opened(@, b), !.children = Opened(@, child), !.numChildren = @ + 1]

ReplaceSorted(n, b, child) ==
  LET at == SlotSorted(n, b)
  IN  IF at = 0 THEN n ELSE [n EXCEPT !.children[at] = child]

RemoveSorted(n, b) ==
  LET at == SlotSorted(n, b)
      Closed(a, zero) == [i \in DOMAIN a |->
        IF i = n.numChildren THEN zero
        ELSE IF at <= i /\ i < n.numChildren THEN a[i + 1] ELSE a[i]]
  IN  IF at = 0 THEN n
      ELSE [n EXCEPT !.keys = Closed(@, 0), !.children = Closed(@, NoNode), !.numChildren = @ - 1]

AscendingSorted(n) == [i \in Filled(n) |-> <<n.keys[i], n.children[i]>>]
-----------------------------------------------------------------------------
(* node48 *)

FindDense(n, b) ==
  IF n.childIndex[b] = 0 THEN NoNode ELSE n.children[n.childIndex[b]]

AddDense(n, b, child) ==
  LET slot == n.numChildren + 1
  IN  [n EXCEPT !.children[slot] = child, !.childEdge[slot] = b, !.childIndex[b] = slot,
                !.numChildren = slot]

ReplaceDense(n, b, child) ==
  IF n.childIndex[b] = 0 THEN n ELSE [n EXCEPT !.children[n.childIndex[b]] = child]

\* The last child moves into the freed slot, and its index follows it.
RemoveDenseLeavesIndex(n, b) ==
  LET slot == n.childIndex[b]
      last == n.numChildren
      edge == n.childEdge[last]
      moved == IF slot = last THEN n
               ELSE [n EXCEPT !.children[slot] = n.children[last], !.childEdge[slot] = edge]
  IN  IF slot = 0 THEN n
      ELSE [moved EXCEPT !.children[last] = NoNode, !.childEdge[last] = 0,
                         !.childIndex[b] = 0, !.numChildren = last - 1]

RemoveDense(n, b) ==
  LET slot == n.childIndex[b]
      last == n.numChildren
      edge == n.childEdge[last]
      moved == IF slot = last THEN n
               ELSE [n EXCEPT !.children[slot] = n.children[last], !.childEdge[slot] = edge,
                              !.childIndex[edge] = slot]
  IN  IF slot = 0 THEN n
      ELSE [moved EXCEPT !.children[last] = NoNode, !.childEdge[last] = 0,
                         !.childIndex[b] = 0, !.numChildren = last - 1]

AscendingDense(n) ==
  LET live == SelectSeq(Bytes, LAMBDA b : n.childIndex[b] # 0)
  IN  [i \in DOMAIN live |-> <<live[i], n.children[n.childIndex[live[i]]]>>]
-----------------------------------------------------------------------------
(* node256 *)

AddDirect(n, b, child) == [n EXCEPT !.children[b] = child, !.numChildren = @ + 1]

RemoveDirect(n, b) ==
  IF n.children[b] = NoNode THEN n
  ELSE [n EXCEPT !.children[b] = NoNode, !.numChildren = @ - 1]

AscendingDirect(n) ==
  LET live == Live(n.children) IN [i \in DOMAIN live |-> <<live[i], n.children[live[i]]>>]
-----------------------------------------------------------------------------
(* The innerNode interface *)

FindChild(n, b) ==
  CASE Sorted(n) -> (IF SlotSorted(n, b) = 0 THEN NoNode ELSE n.children[SlotSorted(n, b)])
    [] n.kind = "node48"  -> FindDense(n, b)
    [] n.kind = "node256" -> n.children[b]

ReplaceChild(n, b, child) ==
  CASE Sorted(n) -> ReplaceSorted(n, b, child)
    [] n.kind = "node48"  -> ReplaceDense(n, b, child)
    [] n.kind = "node256" -> [n EXCEPT !.children[b] = child]

RemoveChild(n, b) ==
  CASE Sorted(n) -> RemoveSorted(n, b)
    [] n.kind = "node48"  -> RemoveDense(n, b)
    [] n.kind = "node256" -> RemoveDirect(n, b)

EachAscending(n) ==
  CASE Sorted(n) -> AscendingSorted(n)
    [] n.kind = "node48"  -> AscendingDense(n)
    [] n.kind = "node256" -> AscendingDirect(n)

AddChild(n, b, child) ==
  CASE Sorted(n) -> AddSorted(n, b, child)
    [] n.kind = "node48"  -> AddDense(n, b, child)
    [] n.kind = "node256" -> AddDirect(n, b, child)
-----------------------------------------------------------------------------
(***************************************************************************)
(* Growing and shrinking: a fresh node of the neighbouring type, with the  *)
(* header and the count of the old one, is filled from the old one's       *)
(* entries <<byte, child>>.  Growing reads them slot by slot, shrinking in *)
(* ascending order.                                                        *)
(***************************************************************************)
BySlot(n) ==
  IF n.kind = "node48" THEN [i \in Filled(n) |-> <<n.childEdge[i], n.children[i]>>]
  ELSE AscendingSorted(n)

WithHeader(fresh, n) ==
  [fresh EXCEPT !.prefix = n.prefix, !.terminal = n.terminal, !.numChildren = n.numChildren]

ToSorted(kind, n, entries) ==
  LET fresh == WithHeader(NewSorted(kind, <<>>), n)
  IN  [fresh EXCEPT
         !.keys = [i \in Slots(kind) |-> IF i <= Len(entries) THEN entries[i][1] ELSE 0],
         !.children = [i \in Slots(kind) |-> IF i <= Len(entries) THEN entries[i][2] ELSE NoNode]]

IndexOf(entries, b) ==
  LET slots == {i \in DOMAIN entries : entries[i][1] = b}
  IN  IF slots = {} THEN 0 ELSE CHOOSE i \in slots : TRUE

ToDense(n, entries) ==
  LET fresh == WithHeader(NewDense(<<>>), n)
  IN  [fresh EXCEPT
         !.childIndex = [b \in Byte |-> IndexOf(entries, b)],
         !.childEdge = [i \in DOMAIN @ |-> IF i <= Len(entries) THEN entries[i][1] ELSE 0],
         !.children = [i \in DOMAIN @ |-> IF i <= Len(entries) THEN entries[i][2] ELSE NoNode]]

ToDirect(n, entries) ==
  LET fresh == WithHeader(NewDirect(<<>>), n)
  IN  [fresh EXCEPT
         !.children = [b \in Byte |-> IF IndexOf(entries, b) = 0 THEN NoNode
                                      ELSE entries[IndexOf(entries, b)][2]]]

Rebuilt(kind, n, entries) ==
  CASE kind \in {"node4", "node16"} -> ToSorted(kind, n, entries)
    [] kind = "node48"  -> ToDense(n, entries)
    [] kind = "node256" -> ToDirect(n, entries)

Grow(n)   == Rebuilt(Wider(n.kind), n, BySlot(n))
Shrink(n) == Rebuilt(Narrower(n.kind), n, EachAscending(n))

AddOrGrowChild(n, b, child) ==
  IF n.kind = "node256" \/ n.numChildren < Capacity(n.kind) THEN AddChild(n, b, child)
  ELSE AddChild(Grow(n), b, child)

MergePrefixIntoChild(prefix, b, child) == [child EXCEPT !.prefix = prefix \o <<b>> \o @]

\* What takes the node's place after a delete below it.
Reshape(n) ==
  LET items == EachAscending(n) IN
  CASE n.numChildren = 0 -> n.terminal
    [] n.numChildren = 1 /\ n.terminal = NoNode ->
         IF IsLeaf(items[1][2]) THEN items[1][2]
         ELSE MergePrefixIntoChild(n.prefix, items[1][1], items[1][2])
    [] OTHER ->
         IF n.kind # Ladder[1] /\ n.numChildren <= Capacity(Narrower(n.kind))
         THEN Shrink(n) ELSE n
-----------------------------------------------------------------------------
\* The unfilled part of a node is zero, and childEdge inverts childIndex.
WellLaidOut(n) ==
  /\ n.numChildren = Len(EachAscending(n))
  /\ n.kind # "node256" =>
       \A i \in Slots(n.kind) : (i <= n.numChildren) <=> (n.children[i] # NoNode)
  /\ Sorted(n) =>
       /\ \A i, j \in Filled(n) : i < j => n.keys[i] < n.keys[j]
       /\ \A i \in Slots(n.kind) \ Filled(n) : n.keys[i] = 0
  /\ n.kind = "node48" =>
       /\ \A i \in Filled(n) : n.childIndex[n.childEdge[i]] = i
       /\ \A i \in Slots(n.kind) \ Filled(n) : n.childEdge[i] = 0
       /\ \A b \in Byte : n.childIndex[b] # 0 => n.childEdge[n.childIndex[b]] = b
=============================================================================
