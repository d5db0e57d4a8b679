---------------------------- MODULE MCInnerNode ----------------------------
(* InnerNode with capacities 2/3/5/6 in place of 4/16/48/256: every type is *)
(* reached, and node48 keeps more than one count of its own.                *)
EXTENDS InnerNode, TLC

NodeSymmetry == Permutations(Nodes)
=============================================================================
