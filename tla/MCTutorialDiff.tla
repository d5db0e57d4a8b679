--------------------------- MODULE MCTutorialDiff ---------------------------
(* The chapters with capacities 2/3/4/5.  The one-byte keys take the root     *)
(* through every node type; the long keys make prefixes, chains, splits and  *)
(* merges; the empty key and <<0>> are terminals.                            *)
EXTENDS TutorialDiff

TraceKeys == {<<>>, <<0>>, <<0, 0, 0>>, <<0, 0, 1>>, <<0, 1>>, <<1>>, <<2>>, <<3>>, <<4>>}
TracePuts == {<<k, 1>> : k \in TraceKeys} \cup {<<<<0>>, 2>>}

\* No bound, bounds that are keys, end inside a prefix, or lie beyond a key.
TraceBounds == {nil, <<>>, <<0>>, <<0, 0>>, <<0, 0, 0, 1>>, <<0, 0, 1>>, <<2>>}
=============================================================================
