----------------------------- MODULE MCArtTree -----------------------------
(* ArtTree with capacities 2/3/4/5.  TreeKeys makes every node type occur at *)
(* the root, with and without a terminal, and prefixes of length 0 to 2 that *)
(* are split and merged at each of their bytes.                              *)
EXTENDS ArtTreeProofs

TreeKeys == {<<>>, <<0>>, <<1>>, <<2>>, <<3>>, <<4>>,
             <<0, 1>>, <<0, 1, 0, 0>>, <<0, 1, 0, 1>>, <<0, 0>>}
SomeKeys == {<<>>, <<0, 0>>, <<0, 1>>}
=============================================================================
