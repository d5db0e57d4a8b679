------------------------------- MODULE Polish -------------------------------
(***************************************************************************)
(* tutorial/09-polish/art.go: chapter 8 with a Range that leaves out the   *)
(* subtrees whose keys all lie outside the bounds.  One buffer, the path,  *)
(* is shared by the whole walk: each node cuts it back to its own length.  *)
(* The code's nodePath is the buffer up to nodeLen.                        *)
(***************************************************************************)
EXTENDS LadderTree

KeyInRange(key, start, end) ==
  ~ (start # nil /\ Less(key, start)) /\ ~ (end # nil /\ ~ Less(key, end))

\* Every key that begins with nodePath and then extra is below bound.
SubtreeBeforeWithByte(nodePath, extra, bound) ==
  bound # nil
  /\ IF Len(bound) <= Len(nodePath) THEN Less(Upto(nodePath, Len(bound)), bound)
     ELSE LET shared == Upto(bound, Len(nodePath))
          IN  \/ Less(nodePath, shared)
              \/ nodePath = shared /\ extra < bound[Len(nodePath) + 1]

\* Every key that begins with nodePath and then extra is at or above bound.
SubtreeAtOrAfterExtended(nodePath, extra, bound) ==
  bound # nil
  /\ IF Len(bound) <= Len(nodePath) THEN ~ Less(Upto(nodePath, Len(bound)), bound)
     ELSE LET shared == Upto(bound, Len(nodePath))
          IN  \/ Less(shared, nodePath)
              \/ nodePath = shared /\ extra >= bound[Len(nodePath) + 1]

SubtreeAtOrAfterWithByte(nodePath, extra, bound) ==
  bound # nil
  /\ IF Len(bound) <= Len(nodePath) THEN ~ Less(Upto(nodePath, Len(bound)), bound)
     ELSE LET shared == Upto(bound, Len(nodePath))
              bb == bound[Len(nodePath) + 1]
          IN  \/ Less(shared, nodePath)
              \/ nodePath = shared /\ extra > bb
              \/ nodePath = shared /\ extra = bb /\ Len(bound) <= Len(nodePath) + 1

RECURSIVE IterateRange(_, _, _, _)
IterateRange(n, start, end, loop) ==
  LET before  == Len(loop.path)
      nodeLen == before + Len(n.prefix)
      entered == [loop EXCEPT !.path = @ \o n.prefix]
      Visit(l, item) ==
        LET nodePath == Upto(l.path, nodeLen) IN
        IF SubtreeBeforeWithByte(nodePath, item[1], start) THEN l
        ELSE IF SubtreeAtOrAfterWithByte(nodePath, item[1], end) THEN [l EXCEPT !.more = FALSE]
        ELSE IterateRange(item[2], start, end, [l EXCEPT !.path = Append(nodePath, item[1])])
      left == Walked(IF n.terminal = NoNode \/ ~ KeyInRange(entered.path, start, end) THEN entered
                     ELSE Yield(entered, n.terminal.key, n.terminal.val),
                     EachAscending(n), Visit)
  IN  IF ~ IsLeaf(n) THEN [left EXCEPT !.path = Upto(@, before)]
      ELSE IF KeyInRange(n.key, start, end) THEN Yield(loop, n.key, n.val) ELSE loop

PrunedRange(tree, start, end, take) ==
  IF tree.root = NoNode THEN LoopTaking(take)
  ELSE IterateRange(tree.root, start, end, LoopTaking(take))
=============================================================================
