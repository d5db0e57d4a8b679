------------------------------ MODULE NodeKinds ------------------------------
(***************************************************************************)
(* The ladder of inner-node types of types.go: node4, node16, node48 and   *)
(* node256, the number of children each can hold, and the two decisions    *)
(* that move a node along the ladder: addOrGrow promotes a full node,      *)
(* reshape demotes a node whose count has fallen to the capacity of the    *)
(* next smaller type.                                                      *)
(*                                                                         *)
(* The capacities are parameters, so that TLC can visit every type with a  *)
(* handful of bytes and the theorems hold for 4/16/48/256 in particular.   *)
(***************************************************************************)
EXTENDS Integers, FiniteMaps

CONSTANTS node4Capacity, node16Capacity, node48Capacity, node256Capacity

ASSUME CapacityAssumption ==
  /\ node4Capacity \in Nat /\ node16Capacity \in Nat
  /\ node48Capacity \in Nat /\ node256Capacity \in Nat
  /\ 2 <= node4Capacity
  /\ node4Capacity < node16Capacity
  /\ node16Capacity < node48Capacity
  /\ node48Capacity < node256Capacity

\* An edge byte: node256 has exactly one child slot for each of them.
Byte == 0 .. node256Capacity - 1

InnerKinds == {"node4", "node16", "node48", "node256"}

Capacity(kind) ==
  CASE kind = "node4"   -> node4Capacity
    [] kind = "node16"  -> node16Capacity
    [] kind = "node48"  -> node48Capacity
    [] kind = "node256" -> node256Capacity

Larger(kind) ==
  CASE kind = "node4"  -> "node16"
    [] kind = "node16" -> "node48"
    [] OTHER           -> "node256"

Smaller(kind) ==
  CASE kind = "node16"  -> "node4"
    [] kind = "node48"  -> "node16"
    [] kind = "node256" -> "node48"
    [] OTHER            -> "node4"

(***************************************************************************)
(* The type of the node that holds count + 1 children after addOrGrow has  *)
(* added one to a node of type kind holding count.                         *)
(***************************************************************************)
GrownKindOffByOne(kind, count) ==
  IF count <= Capacity(kind) THEN kind ELSE Larger(kind)

GrownKind(kind, count) ==
  IF count < Capacity(kind) THEN kind ELSE Larger(kind)

(***************************************************************************)
(* The type of the node after reshape, when it neither disappears nor      *)
(* collapses.  The code tests for equality with the smaller capacity, not  *)
(* for <=: it relies on the count falling by one at a time.                *)
(***************************************************************************)
ReshapedKindTooLate(kind, count) ==
  IF kind # "node4" /\ count < Capacity(Smaller(kind))
  THEN Smaller(kind) ELSE kind

ReshapedKind(kind, count) ==
  IF kind # "node4" /\ count = Capacity(Smaller(kind))
  THEN Smaller(kind) ELSE kind

\* The only type that a node with count children may have between two calls.
KindFits(kind, count) ==
  /\ count <= Capacity(kind)
  /\ kind # "node4" => Capacity(Smaller(kind)) < count
-----------------------------------------------------------------------------
\* The ascending enumeration of a set of bytes.
Rank(S, b) == Cardinality({c \in S : c < b})
HasNth(S, i) == \E b \in S : Rank(S, b) = i
Nth(S, i) == CHOOSE b \in S : Rank(S, b) = i
=============================================================================
