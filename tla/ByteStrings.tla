---------------------------- MODULE ByteStrings ----------------------------
(***************************************************************************)
(* Keys, compressed prefixes and paths are byte strings.  Depths count     *)
(* consumed bytes as in Go, so the byte at depth d is key[d + 1] here.     *)
(***************************************************************************)
EXTENDS Naturals, Sequences

From(key, depth) == SubSeq(key, depth + 1, Len(key))
Upto(key, depth) == SubSeq(key, 1, depth)

Starts(p, key) == Len(p) <= Len(key) /\ SubSeq(key, 1, Len(p)) = p

\* len(longestCommonPrefix(a, b))
SharedLen(a, b) ==
  CHOOSE i \in 0 .. Len(a) :
    /\ i <= Len(b) /\ Upto(a, i) = Upto(b, i)
    /\ i < Len(a) /\ i < Len(b) => a[i + 1] # b[i + 1]

\* bytes.Compare(a, b) < 0
Less(a, b) ==
  LET i == SharedLen(a, b)
  IN  i < Len(b) /\ (i < Len(a) => a[i + 1] < b[i + 1])

\* consumePrefix(prefix, key, depth) succeeds, at depth + Len(prefix).
Consumes(prefix, key, depth) == Starts(prefix, From(key, depth))
=============================================================================
