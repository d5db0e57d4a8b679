----------------------------- MODULE MCArtSorted -----------------------------
(* ArtSorted over every tree on nine keys; the targets fall before, on,      *)
(* inside and behind each key, each prefix and each edge.                    *)
EXTENDS ArtSorted

QueryKeys == {<<>>, <<0>>, <<0, 1>>, <<0, 1, 3>>, <<1, 1>>, <<1, 1, 0>>,
              <<1, 1, 2>>, <<2>>, <<3, 0>>}
QueryTargets == QueryKeys \cup
  {<<0, 0>>, <<0, 1, 0>>, <<0, 2>>, <<1>>, <<1, 0>>, <<1, 1, 1>>, <<1, 1, 0, 0>>,
   <<1, 1, 3>>, <<1, 2>>, <<3>>, <<3, 1>>, <<4>>}
=============================================================================
