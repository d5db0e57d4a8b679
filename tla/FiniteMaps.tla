----------------------------- MODULE FiniteMaps -----------------------------
(***************************************************************************)
(* Finite maps, for the children of a node, the objects of a heap and the  *)
(* contents of a sorted map.                                               *)
(***************************************************************************)
EXTENDS Naturals, FiniteSets

Empty == [x \in {} |-> 0]
Count(m) == Cardinality(DOMAIN m)
With(m, k, x) == [j \in DOMAIN m \cup {k} |-> IF j = k THEN x ELSE m[j]]
Without(m, k) == [j \in DOMAIN m \ {k} |-> m[j]]
=============================================================================
