----------------------------- MODULE ChapterBase -----------------------------
(***************************************************************************)
(* What the trees of the tutorial chapters have in common.  A tree is a    *)
(* value: its root and its size.  A nil node is NoNode; a chapter's code   *)
(* changes nodes in place, and no two nodes share a child, so a changed    *)
(* node is a changed value.                                                *)
(***************************************************************************)
EXTENDS NodeKinds, ByteStrings

CONSTANT nil   \* no bound, and no value

LOCAL Seqs == INSTANCE SequencesExt
LOCAL Fns == INSTANCE Functions

NoNode == [kind |-> "nil"]
Leaf(key, val) == [kind |-> "leaf", key |-> key, val |-> val]
IsLeaf(n) == n.kind = "leaf"

NewTree == [root |-> NoNode, size |-> 0]
Answer(present, val) == [ok |-> present, val |-> val]
Missing == Answer(FALSE, nil)

\* The result of inserting below a node, and of deleting below it.
Added(n) == [node |-> n, added |-> 1]
Kept(n) == [node |-> n, added |-> 0]
Deleted(n) == [node |-> n, deleted |-> TRUE]
Missed(n) == [node |-> n, deleted |-> FALSE]

PutTree(tree, put) == [root |-> put.node, size |-> tree.size + put.added]

DeletedTree(tree, del) ==
  [tree |-> IF del.deleted THEN [root |-> del.node, size |-> tree.size - 1] ELSE tree,
   deleted |-> del.deleted]

\* Get at a leaf compares the whole key; a terminal is trusted.
LeafAnswer(l, key) == IF l.key = key THEN Answer(TRUE, l.val) ELSE Missing
TerminalAnswer(n) ==
  IF n.terminal = NoNode THEN Missing ELSE Answer(TRUE, n.terminal.val)

\* Put at the node where the key ends: a new terminal, or a new value in it.
TerminalPut(n, key, val) ==
  IF n.terminal = NoNode THEN Added([n EXCEPT !.terminal = Leaf(key, val)])
  ELSE Kept([n EXCEPT !.terminal.val = val])

\* Delete there.
TerminalDeleted(n, key, Reshaped(_)) ==
  IF n.terminal = NoNode \/ n.terminal.key # key THEN Missed(n)
  ELSE Deleted(Reshaped([n EXCEPT !.terminal = NoNode]))

LeafDeleted(l, key) == IF l.key = key THEN Deleted(NoNode) ELSE Missed(l)

\* n.children[b] = child
Attached(n, b, child) == [n EXCEPT !.children[b] = child]

\* The new parent of two leaves that agree up to cut; one may be its terminal.
Forked(parent, existing, new, cut, AddChild(_, _, _)) ==
  CASE cut = Len(existing.key) ->
         AddChild([parent EXCEPT !.terminal = existing], new.key[cut + 1], new)
    [] cut = Len(new.key) ->
         AddChild([parent EXCEPT !.terminal = new], existing.key[cut + 1], existing)
    [] OTHER ->
         AddChild(AddChild(parent, existing.key[cut + 1], existing), new.key[cut + 1], new)
-----------------------------------------------------------------------------
(***************************************************************************)
(* A range loop: the pairs its body was given, whether the body wants more *)
(* (it breaks at the take-th pair), and whether it was called after it had *)
(* broken out, which makes the Go runtime panic.  Chapter 9's walk keeps   *)
(* the bytes from the root to where it stands in path.                     *)
(***************************************************************************)
LoopTaking(take) == [out |-> <<>>, take |-> take, more |-> TRUE, late |-> FALSE,
                     path |-> <<>>]

Yield(loop, key, val) ==
  IF ~ loop.more THEN [loop EXCEPT !.late = TRUE]
  ELSE [loop EXCEPT !.out = Append(@, <<key, val>>),
                    !.more = Len(loop.out) + 1 < loop.take]

\* The closure that chapters 2 to 8 hand to their walk: it filters, never stops.
YieldWithin(loop, key, val, from, to) ==
  IF (from # nil /\ Less(key, from)) \/ (to # nil /\ ~ Less(key, to))
  THEN loop ELSE Yield(loop, key, val)

\* for b := 0; b < 256; b++, and a walk over pairs <<byte, child>>.
Bytes == [i \in 1 .. node256Capacity |-> i - 1]
Walked(loop, items, Visit(_, _)) ==
  Seqs!FoldLeft(LAMBDA l, x : IF l.more THEN Visit(l, x) ELSE l, loop, items)

\* The sum over the children, for the counting functions.
Summed(children, CountOf(_)) ==
  Fns!FoldFunction(LAMBDA c, sum : sum + CountOf(c), 0, children)

Live(children) ==
  Seqs!FoldLeft(LAMBDA s, b : IF children[b] = NoNode THEN s ELSE Append(s, b), <<>>, Bytes)
=============================================================================
