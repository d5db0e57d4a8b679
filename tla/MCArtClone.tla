----------------------------- MODULE MCArtClone -----------------------------
(* Two trees.  The keys of four bytes make a fork of forks with a prefix of  *)
(* two bytes, which deletes merge on either side; the others split it at     *)
(* each byte.                                                                *)
EXTENDS ArtClone

CloneKeys ==
  {<<0>>, <<0, 0, 0, 0>>, <<0, 0, 0, 1>>, <<0, 0, 1, 0>>, <<0, 0, 1, 1>>, <<0, 1>>}
=============================================================================
