----------------------------- MODULE LadderTree -----------------------------
(***************************************************************************)
(* The tree of tutorial chapters 5 to 9, whose code for Put, Get, Delete   *)
(* and the counts is the same in all of them; only the ladder of node      *)
(* types differs.  newChild != child compares nodes in the code: whether   *)
(* or not the child is written back, the parent holds the changed child.   *)
(***************************************************************************)
EXTENDS LadderNodes

RECURSIVE GetFrom(_, _, _)
GetFrom(n, key, depth) ==
  CASE n = NoNode -> Missing
    [] IsLeaf(n)  -> LeafAnswer(n, key)
    [] n.kind \in InnerKinds ->
         LET at == depth + Len(n.prefix) IN
         IF ~ Consumes(n.prefix, key, depth) THEN Missing
         ELSE IF at = Len(key) THEN TerminalAnswer(n)
         ELSE GetFrom(FindChild(n, key[at + 1]), key, at + 1)

Get(tree, key) == GetFrom(tree.root, key, 0)

SplitTwoLeaves(existing, new, depth) ==
  LET a == From(existing.key, depth)
      diverge == SharedLen(a, From(new.key, depth))
  IN  Forked(NewSorted("node4", Upto(a, diverge)), existing, new, depth + diverge, AddSorted)

SplitPrefixedNode(n, new, depth, common) ==
  LET parent == AddSorted(NewSorted("node4", Upto(n.prefix, common)), n.prefix[common + 1],
                          [n EXCEPT !.prefix = From(@, common + 1)])
      cut == depth + common
  IN  IF cut = Len(new.key) THEN [parent EXCEPT !.terminal = new]
      ELSE AddSorted(parent, new.key[cut + 1], new)

RECURSIVE PutInto(_, _, _, _)
PutInto(n, key, val, depth) ==
  CASE n = NoNode -> Added(Leaf(key, val))
    [] IsLeaf(n) ->
         IF n.key = key THEN Kept([n EXCEPT !.val = val])
         ELSE Added(SplitTwoLeaves(n, Leaf(key, val), depth))
    [] n.kind \in InnerKinds ->
         LET common == SharedLen(n.prefix, From(key, depth))
             at == depth + common
         IN  IF common < Len(n.prefix)
             THEN Added(SplitPrefixedNode(n, Leaf(key, val), depth, common))
             ELSE IF at = Len(key) THEN TerminalPut(n, key, val)
             ELSE LET b == key[at + 1]
                      put == PutInto(FindChild(n, b), key, val, at + 1)
                  IN  IF FindChild(n, b) = NoNode
                      THEN Added(AddOrGrowChild(n, b, Leaf(key, val)))
                      ELSE [put EXCEPT !.node = ReplaceChild(n, b, put.node)]

Put(tree, key, val) == PutTree(tree, PutInto(tree.root, key, val, 0))

RECURSIVE DeleteFrom(_, _, _)
DeleteFrom(n, key, depth) ==
  CASE n = NoNode -> Missed(n)
    [] IsLeaf(n)  -> LeafDeleted(n, key)
    [] n.kind \in InnerKinds ->
         LET at == depth + Len(n.prefix) IN
         IF ~ Consumes(n.prefix, key, depth) THEN Missed(n)
         ELSE IF at = Len(key) THEN TerminalDeleted(n, key, Reshape)
         ELSE LET b   == key[at + 1]
                  del == DeleteFrom(FindChild(n, b), key, at + 1)
              IN  IF ~ del.deleted THEN Missed(n)
                  ELSE Deleted(Reshape(IF del.node = NoNode THEN RemoveChild(n, b)
                                       ELSE ReplaceChild(n, b, del.node)))

Delete(tree, key) == DeletedTree(tree, DeleteFrom(tree.root, key, 0))

RECURSIVE Iterate(_, _, _, _)
Iterate(n, from, to, loop) ==
  IF IsLeaf(n) THEN YieldWithin(loop, n.key, n.val, from, to)
  ELSE Walked(IF n.terminal = NoNode THEN loop
              ELSE YieldWithin(loop, n.terminal.key, n.terminal.val, from, to),
              EachAscending(n),
              LAMBDA l, item : Iterate(item[2], from, to, l))

Range(tree, from, to, take) ==
  IF tree.root = NoNode THEN LoopTaking(take)
  ELSE Iterate(tree.root, from, to, LoopTaking(take))
-----------------------------------------------------------------------------
IsInner(n) == n.kind \in InnerKinds

\* The children that the walks visit.
Kids(n) == [i \in DOMAIN EachAscending(n) |-> EachAscending(n)[i][2]]

RECURSIVE CountByKind(_, _)
CountByKind(n, kind) ==
  IF IsInner(n)
  THEN (IF n.kind = kind THEN 1 ELSE 0) + Summed(Kids(n), LAMBDA c : CountByKind(c, kind))
  ELSE 0

RECURSIVE CountLeaves(_)
CountLeaves(n) ==
  IF IsInner(n) THEN (IF n.terminal = NoNode THEN 0 ELSE 1) + Summed(Kids(n), CountLeaves)
  ELSE IF n = NoNode THEN 0 ELSE 1

RECURSIVE PrefixBytes(_)
PrefixBytes(n) ==
  IF IsInner(n) THEN Len(n.prefix) + Summed(Kids(n), PrefixBytes) ELSE 0

RECURSIVE InnerNodes(_)
InnerNodes(n) ==
  IF IsInner(n) THEN {n} \cup UNION {InnerNodes(Kids(n)[i]) : i \in DOMAIN Kids(n)} ELSE {}
=============================================================================
