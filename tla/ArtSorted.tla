------------------------------ MODULE ArtSorted ------------------------------
(***************************************************************************)
(* Min, Max, Ceiling and Floor (sorted.go): recursive descents that pick   *)
(* a leaf by comparing compressed prefixes with the target and fall back   *)
(* to the nearest sibling subtree when the child on the target's path has  *)
(* no answer.                                                              *)
(*                                                                         *)
(* They read, keep no state between nodes but their arguments, and by the  *)
(* usage contract of Tree no writer overlaps them, so a query is one step. *)
(* The tree is any tree that point operations leave behind.                *)
(***************************************************************************)
EXTENDS TreeShape

CONSTANTS Keys, Targets

ASSUME KeysAssumption == Keys \subseteq Seq(Byte)
ASSUME TargetsAssumption == Targets \subseteq Seq(Byte)

VARIABLES
  stored,        \* the keys in the tree
  root, nodes,
  query          \* the last query: [op, target, leaf]

qTree == <<stored, root, nodes>>
qVars == <<stored, root, nodes, query>>

Refs == DOMAIN nodes \cup {Leaf(k) : k \in stored} \cup {nil}
-----------------------------------------------------------------------------
Edges(r) == DOMAIN nodes[r].children

\* The child of r with the least, or the greatest, edge byte in S.
LowestChild(r, S) ==
  IF S = {} THEN nil
  ELSE nodes[r].children[CHOOSE b \in S : \A c \in S : b <= c]
HighestChild(r, S) ==
  IF S = {} THEN nil
  ELSE nodes[r].children[CHOOSE b \in S : \A c \in S : c <= b]

FindChild(r, b) == IF b \in Edges(r) THEN nodes[r].children[b] ELSE nil

FirstChildGTE(r, b) == LowestChild(r, {c \in Edges(r) : c >= b})
FirstChildGT(r, b)  == LowestChild(r, {c \in Edges(r) : c > b})
LastChildLTLowest(r, b) == LowestChild(r, {c \in Edges(r) : c < b})
LastChildLT(r, b)   == HighestChild(r, {c \in Edges(r) : c < b})

\* A terminal is below every child of its node.
minLeafOf[r \in Refs] ==
  IF ~ IsInner(r) THEN r
  ELSE IF nodes[r].terminal # nil THEN nodes[r].terminal
  ELSE minLeafOf[LowestChild(r, Edges(r))]

maxLeafOf[r \in Refs] ==
  IF ~ IsInner(r) THEN r
  ELSE IF Edges(r) = {} THEN nodes[r].terminal
  ELSE maxLeafOf[HighestChild(r, Edges(r))]

\* walkPrefixToward: the first byte that differs decides, if there is one.
WalkPrefixToward(prefix, target, depth) ==
  LET rest == From(target, depth)
      i == SharedLen(prefix, rest)
  IN  CASE i = Len(prefix) -> "matched"
        [] i < Len(prefix) /\ i = Len(rest) -> "targetEndsHere"
        [] OTHER -> IF prefix[i + 1] < rest[i + 1] THEN "divergedBelow"
                                                   ELSE "divergedAbove"

Consumed(r, depth) == depth + Len(nodes[r].prefix)

(***************************************************************************)
(* One call of ceilingLeafOf on the node r with depth bytes of the target  *)
(* consumed.  deeper[<<child, consumed>>] is the answer of the call on a   *)
(* child; it is asked for only where the prefix matches.                   *)
(***************************************************************************)
CeilingFrom(target, deeper, r, depth) ==
  IF ~ IsInner(r) THEN IF r # nil /\ Less(r.at, target) THEN nil ELSE r
  ELSE LET outcome == WalkPrefixToward(nodes[r].prefix, target, depth)
           b == target[Consumed(r, depth) + 1]
           found == deeper[<<FindChild(r, b), Consumed(r, depth) + 1>>]
       IN  CASE outcome = "divergedBelow" -> nil
             [] outcome \in {"divergedAbove", "targetEndsHere"} -> minLeafOf[r]
             [] outcome = "matched" ->
                  IF Consumed(r, depth) = Len(target) THEN minLeafOf[r]
                  ELSE IF found # nil THEN found
                  ELSE minLeafOf[FirstChildGT(r, b)]

\* What is left when no child answers is the node's own terminal.
FloorFrom(target, deeper, r, depth) ==
  IF ~ IsInner(r) THEN IF r # nil /\ Less(target, r.at) THEN nil ELSE r
  ELSE LET outcome == WalkPrefixToward(nodes[r].prefix, target, depth)
           b == target[Consumed(r, depth) + 1]
           found == deeper[<<FindChild(r, b), Consumed(r, depth) + 1>>]
       IN  CASE outcome \in {"divergedAbove", "targetEndsHere"} -> nil
             [] outcome = "divergedBelow" -> maxLeafOf[r]
             [] outcome = "matched" ->
                  IF Consumed(r, depth) = Len(target) THEN nodes[r].terminal
                  ELSE IF found # nil THEN found
                  ELSE IF LastChildLT(r, b) # nil THEN maxLeafOf[LastChildLT(r, b)]
                  ELSE nodes[r].terminal

Calls(target) == Refs \X (0 .. Len(target))

ceilingLeafOf(target) ==
  LET ceiling[call \in Calls(target)] ==
        CeilingFrom(target, ceiling, call[1], call[2])
  IN  ceiling[<<root, 0>>]

floorLeafOf(target) ==
  LET floor[call \in Calls(target)] ==
        FloorFrom(target, floor, call[1], call[2])
  IN  floor[<<root, 0>>]
-----------------------------------------------------------------------------
NoQuery == [op |-> "none", target |-> <<>>, leaf |-> nil]

Init ==
  /\ stored \in SUBSET Keys /\ IsFiniteSet(stored)
  /\ root = Top(stored, <<>>) /\ nodes = ShapeOf(stored)
  /\ query = NoQuery

Asks(op, target, leaf) ==
  /\ query' = [op |-> op, target |-> target, leaf |-> leaf]
  /\ UNCHANGED qTree

AskMin == Asks("Min", <<>>, minLeafOf[root])
AskMax == Asks("Max", <<>>, maxLeafOf[root])
AskCeiling(target) == Asks("Ceiling", target, ceilingLeafOf(target))
AskFloor(target)   == Asks("Floor", target, floorLeafOf(target))

Next ==
  \/ AskMin
  \/ AskMax
  \/ \E target \in Targets : AskCeiling(target) \/ AskFloor(target)

Spec == Init /\ [][Next]_qVars
-----------------------------------------------------------------------------
(***************************************************************************)
(* Properties.  Each compares the leaf a descent ends at with the set of   *)
(* keys in the tree.                                                       *)
(***************************************************************************)
LeastOf(K, leaf) ==
  IF K = {} THEN leaf = nil
  ELSE \E k \in K : leaf = Leaf(k) /\ \A j \in K \ {k} : Less(k, j)

GreatestOf(K, leaf) ==
  IF K = {} THEN leaf = nil
  ELSE \E k \in K : leaf = Leaf(k) /\ \A j \in K \ {k} : Less(j, k)

\* Min and Ceiling find the least stored key, at or above the target if there
\* is one: also when the target ends or diverges inside a compressed prefix,
\* and when the child on its path holds only smaller keys.
CeilingIsLeast ==
  /\ query.op = "Min" => LeastOf(stored, query.leaf)
  /\ query.op = "Ceiling" =>
       LeastOf({k \in stored : ~ Less(k, query.target)}, query.leaf)

\* Max and Floor find the greatest stored key, at or below the target if there
\* is one: a terminal is the answer of its node only when no child is.
FloorIsGreatest ==
  /\ query.op = "Max" => GreatestOf(stored, query.leaf)
  /\ query.op = "Floor" =>
       GreatestOf({k \in stored : ~ Less(query.target, k)}, query.leaf)
=============================================================================
