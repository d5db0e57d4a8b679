----------------------------- MODULE Node256Only -----------------------------
(***************************************************************************)
(* tutorial/02-node256-only/art.go: a node for every byte of every key.    *)
(* A node has no key; a terminal is a value.                               *)
(***************************************************************************)
EXTENDS ChapterBase

NewNode == [kind |-> "node", terminal |-> nil, children |-> [b \in Byte |-> NoNode]]

RECURSIVE Descend(_, _, _)
Descend(n, key, depth) ==
  IF n = NoNode \/ depth = Len(key) THEN n
  ELSE Descend(n.children[key[depth + 1]], key, depth + 1)

Get(tree, key) ==
  LET n == Descend(tree.root, key, 0)
  IN  IF n = NoNode \/ n.terminal = nil THEN Missing ELSE Answer(TRUE, n.terminal)

OrNew(n) == IF n = NoNode THEN NewNode ELSE n

RECURSIVE PutAt(_, _, _, _)
PutAt(n, key, val, depth) ==
  IF depth = Len(key)
  THEN [node |-> [n EXCEPT !.terminal = val], added |-> IF n.terminal = nil THEN 1 ELSE 0]
  ELSE LET b   == key[depth + 1]
           put == PutAt(OrNew(n.children[b]), key, val, depth + 1)
       IN  [put EXCEPT !.node = Attached(n, b, put.node)]

Put(tree, key, val) == PutTree(tree, PutAt(OrNew(tree.root), key, val, 0))

IsEmpty(n) == n.terminal = nil /\ \A b \in Byte : n.children[b] = NoNode

\* A node that has become empty is dropped by its parent.
OrDropped(n) == IF IsEmpty(n) THEN NoNode ELSE n

RECURSIVE DeleteFrom(_, _, _)
DeleteFrom(n, key, depth) ==
  IF depth = Len(key)
  THEN IF n.terminal = nil THEN Missed(n) ELSE Deleted(OrDropped([n EXCEPT !.terminal = nil]))
  ELSE LET b   == key[depth + 1]
           del == DeleteFrom(n.children[b], key, depth + 1)
       IN  IF n.children[b] = NoNode \/ ~ del.deleted THEN Missed(n)
           ELSE Deleted(OrDropped(Attached(n, b, del.node)))

Delete(tree, key) ==
  DeletedTree(tree, IF tree.root = NoNode THEN Missed(NoNode)
                    ELSE DeleteFrom(tree.root, key, 0))

\* Keys are the paths walked.
RECURSIVE Walk(_, _, _, _, _)
Walk(n, path, from, to, loop) ==
  Walked(IF n.terminal = nil THEN loop ELSE YieldWithin(loop, path, n.terminal, from, to),
         Live(n.children),
         LAMBDA l, b : Walk(n.children[b], Append(path, b), from, to, l))

Range(tree, from, to, take) ==
  IF tree.root = NoNode THEN LoopTaking(take)
  ELSE Walk(tree.root, <<>>, from, to, LoopTaking(take))

RECURSIVE CountNodes(_)
CountNodes(n) ==
  IF n = NoNode THEN 0 ELSE 1 + Summed(n.children, CountNodes)
=============================================================================
