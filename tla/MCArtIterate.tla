---------------------------- MODULE MCArtIterate -----------------------------
(* ArtIterate over every tree on seven keys: the empty key, a terminal under *)
(* the root, a compressed prefix with and without a terminal.  The bounds    *)
(* fall before, on, inside and behind each of these, and between edges.      *)
EXTENDS ArtIterateProofs

WalkKeys == {<<>>, <<0>>, <<0, 1>>, <<1, 0>>, <<1, 0, 0>>, <<1, 0, 2>>, <<2>>}
WalkBounds == {nil, <<>>, <<0>>, <<0, 1>>, <<1>>, <<1, 0>>, <<1, 0, 1>>,
               <<1, 1>>, <<2, 0>>}
=============================================================================
