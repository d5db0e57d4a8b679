---------------------------- MODULE MCLockedTree ----------------------------
(* LockedTree with one or two keys, the second inside the first one's leaf,  *)
(* and enough goroutines for a reader to queue behind a writer that waits    *)
(* for another reader.                                                       *)
EXTENDS LockedTree

OneKey  == {<<0>>}
TwoKeys == {<<0>>, <<0, 1>>}
=============================================================================
