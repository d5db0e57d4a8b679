---------------------------- MODULE LazyExpansion ----------------------------
(***************************************************************************)
(* tutorial/03-lazy-expansion/art.go: leaves carry their keys, so a chain  *)
(* of nodes is built only as far as two keys agree.                        *)
(***************************************************************************)
EXTENDS ChapterBase

NewNode == [kind |-> "node256", terminal |-> NoNode, children |-> [b \in Byte |-> NoNode]]

RECURSIVE GetFrom(_, _, _)
GetFrom(n, key, depth) ==
  CASE n = NoNode -> Missing
    [] IsLeaf(n)  -> LeafAnswer(n, key)
    [] n.kind = "node256" ->
         IF depth = Len(key) THEN TerminalAnswer(n)
         ELSE GetFrom(n.children[key[depth + 1]], key, depth + 1)

Get(tree, key) == GetFrom(tree.root, key, 0)

RECURSIVE Chain(_, _, _)
Chain(fork, key, length) ==
  IF length = 0 THEN fork
  ELSE Chain(Attached(NewNode, key[length], fork), key, length - 1)

\* The chain above the fork spells the shared bytes from depth on.
SplitTwoLeaves(existing, new, depth) ==
  LET a    == From(existing.key, depth)
      long == SharedLen(a, From(new.key, depth))
  IN  Chain(Forked(NewNode, existing, new, depth + long, Attached), a, long)

RECURSIVE PutInto(_, _, _, _)
PutInto(n, key, val, depth) ==
  CASE n = NoNode -> Added(Leaf(key, val))
    [] IsLeaf(n) ->
         IF n.key = key THEN Kept([n EXCEPT !.val = val])
         ELSE Added(SplitTwoLeaves(n, Leaf(key, val), depth))
    [] n.kind = "node256" ->
         IF depth = Len(key) THEN TerminalPut(n, key, val)
         ELSE LET put == PutInto(n.children[key[depth + 1]], key, val, depth + 1)
              IN  [put EXCEPT !.node = Attached(n, key[depth + 1], put.node)]

Put(tree, key, val) == PutTree(tree, PutInto(tree.root, key, val, 0))

\* An empty node leaves its terminal; a single leaf is hoisted; chains stay.
Reshape(n) ==
  LET live == Live(n.children) IN
  IF live = <<>> THEN n.terminal
  ELSE IF Len(live) = 1 /\ n.terminal = NoNode /\ IsLeaf(n.children[live[1]])
       THEN n.children[live[1]]
       ELSE n

RECURSIVE DeleteFrom(_, _, _)
DeleteFrom(n, key, depth) ==
  CASE n = NoNode -> Missed(n)
    [] IsLeaf(n)  -> LeafDeleted(n, key)
    [] n.kind = "node256" ->
         IF depth = Len(key) THEN TerminalDeleted(n, key, Reshape)
         ELSE LET b   == key[depth + 1]
                  del == DeleteFrom(n.children[b], key, depth + 1)
              IN  IF ~ del.deleted THEN Missed(n)
                  ELSE Deleted(Reshape(Attached(n, b, del.node)))

Delete(tree, key) == DeletedTree(tree, DeleteFrom(tree.root, key, 0))

RECURSIVE Iterate(_, _, _, _)
Iterate(n, from, to, loop) ==
  IF IsLeaf(n) THEN YieldWithin(loop, n.key, n.val, from, to)
  ELSE Walked(IF n.terminal = NoNode THEN loop
              ELSE YieldWithin(loop, n.terminal.key, n.terminal.val, from, to),
              Live(n.children),
              LAMBDA l, b : Iterate(n.children[b], from, to, l))

Range(tree, from, to, take) ==
  IF tree.root = NoNode THEN LoopTaking(take)
  ELSE Iterate(tree.root, from, to, LoopTaking(take))

RECURSIVE CountInner(_)
CountInner(n) ==
  IF n = NoNode \/ IsLeaf(n) THEN 0
  ELSE 1 + Summed(n.children, CountInner)

RECURSIVE CountLeaves(_)
CountLeaves(n) ==
  CASE n = NoNode -> 0
    [] IsLeaf(n)  -> 1
    [] OTHER -> (IF n.terminal = NoNode THEN 0 ELSE 1)
                + Summed(n.children, CountLeaves)
=============================================================================
