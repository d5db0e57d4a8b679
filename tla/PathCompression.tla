--------------------------- MODULE PathCompression ---------------------------
(***************************************************************************)
(* tutorial/04-path-compression/art.go: a chain of single-child nodes      *)
(* becomes one node with a prefix.                                         *)
(***************************************************************************)
EXTENDS ChapterBase

NewNode(prefix) ==
  [kind |-> "node256", prefix |-> prefix, terminal |-> NoNode,
   children |-> [b \in Byte |-> NoNode]]

RECURSIVE GetFrom(_, _, _)
GetFrom(n, key, depth) ==
  CASE n = NoNode -> Missing
    [] IsLeaf(n)  -> LeafAnswer(n, key)
    [] n.kind = "node256" ->
         LET at == depth + Len(n.prefix) IN
         IF ~ Consumes(n.prefix, key, depth) THEN Missing
         ELSE IF at = Len(key) THEN TerminalAnswer(n)
         ELSE GetFrom(n.children[key[at + 1]], key, at + 1)

Get(tree, key) == GetFrom(tree.root, key, 0)

SplitTwoLeaves(existing, new, depth) ==
  LET a == From(existing.key, depth)
      diverge == SharedLen(a, From(new.key, depth))
  IN  Forked(NewNode(Upto(a, diverge)), existing, new, depth + diverge, Attached)

\* n keeps what its prefix holds beyond the byte under which it now hangs.
SplitPrefixedNodeKeepsBranch(n, new, depth, common) ==
  LET parent == Attached(NewNode(Upto(n.prefix, common)), n.prefix[common + 1],
                         [n EXCEPT !.prefix = From(@, common)])
      cut == depth + common
  IN  IF cut = Len(new.key) THEN [parent EXCEPT !.terminal = new]
      ELSE Attached(parent, new.key[cut + 1], new)

SplitPrefixedNode(n, new, depth, common) ==
  LET parent == Attached(NewNode(Upto(n.prefix, common)), n.prefix[common + 1],
                         [n EXCEPT !.prefix = From(@, common + 1)])
      cut == depth + common
  IN  IF cut = Len(new.key) THEN [parent EXCEPT !.terminal = new]
      ELSE Attached(parent, new.key[cut + 1], new)

RECURSIVE PutInto(_, _, _, _)
PutInto(n, key, val, depth) ==
  CASE n = NoNode -> Added(Leaf(key, val))
    [] IsLeaf(n) ->
         IF n.key = key THEN Kept([n EXCEPT !.val = val])
         ELSE Added(SplitTwoLeaves(n, Leaf(key, val), depth))
    [] n.kind = "node256" ->
         LET common == SharedLen(n.prefix, From(key, depth))
             at == depth + common
         IN  IF common < Len(n.prefix)
             THEN Added(SplitPrefixedNode(n, Leaf(key, val), depth, common))
             ELSE IF at = Len(key) THEN TerminalPut(n, key, val)
             ELSE LET put == PutInto(n.children[key[at + 1]], key, val, at + 1)
                  IN  [put EXCEPT !.node = Attached(n, key[at + 1], put.node)]

Put(tree, key, val) == PutTree(tree, PutInto(tree.root, key, val, 0))

\* An only inner child takes over the bytes its parent consumed.
ReshapeDropsBranch(n) ==
  LET live == Live(n.children)
      only == n.children[live[1]]
  IN  IF live = <<>> THEN n.terminal
      ELSE IF Len(live) > 1 \/ n.terminal # NoNode THEN n
      ELSE IF IsLeaf(only) THEN only
      ELSE [only EXCEPT !.prefix = n.prefix \o @]

Reshape(n) ==
  LET live == Live(n.children)
      only == n.children[live[1]]
  IN  IF live = <<>> THEN n.terminal
      ELSE IF Len(live) > 1 \/ n.terminal # NoNode THEN n
      ELSE IF IsLeaf(only) THEN only
      ELSE [only EXCEPT !.prefix = n.prefix \o <<live[1]>> \o @]

RECURSIVE DeleteFrom(_, _, _)
DeleteFrom(n, key, depth) ==
  CASE n = NoNode -> Missed(n)
    [] IsLeaf(n)  -> LeafDeleted(n, key)
    [] n.kind = "node256" ->
         LET at == depth + Len(n.prefix) IN
         IF ~ Consumes(n.prefix, key, depth) THEN Missed(n)
         ELSE IF at = Len(key) THEN TerminalDeleted(n, key, Reshape)
         ELSE LET b   == key[at + 1]
                  del == DeleteFrom(n.children[b], key, at + 1)
              IN  IF ~ del.deleted THEN Missed(n)
                  ELSE Deleted(Reshape(Attached(n, b, del.node)))

Delete(tree, key) == DeletedTree(tree, DeleteFrom(tree.root, key, 0))

RECURSIVE Iterate(_, _, _, _)
Iterate(n, from, to, loop) ==
  IF IsLeaf(n) THEN YieldWithin(loop, n.key, n.val, from, to)
  ELSE Walked(IF n.terminal = NoNode THEN loop
              ELSE YieldWithin(loop, n.terminal.key, n.terminal.val, from, to),
              Live(n.children),
              LAMBDA l, b : Iterate(n.children[b], from, to, l))

Range(tree, from, to, take) ==
  IF tree.root = NoNode THEN LoopTaking(take)
  ELSE Iterate(tree.root, from, to, LoopTaking(take))

IsInner(n) == n # NoNode /\ ~ IsLeaf(n)

RECURSIVE CountInner(_)
CountInner(n) == IF IsInner(n) THEN 1 + Summed(n.children, CountInner) ELSE 0

RECURSIVE CountLeaves(_)
CountLeaves(n) ==
  IF IsInner(n) THEN (IF n.terminal = NoNode THEN 0 ELSE 1) + Summed(n.children, CountLeaves)
  ELSE IF n = NoNode THEN 0 ELSE 1

RECURSIVE PrefixBytes(_)
PrefixBytes(n) ==
  IF IsInner(n) THEN Len(n.prefix) + Summed(n.children, PrefixBytes) ELSE 0
=============================================================================
