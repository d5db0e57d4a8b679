------------------------------- MODULE ArtTree -------------------------------
(***************************************************************************)
(* Tree[V] (types.go, put.go, get.go, delete.go, helpers.go, sorted.go):   *)
(* the operations of one tree, one action per node that a call visits, so  *)
(* that the calls of several goroutines interleave between nodes.          *)
(*                                                                         *)
(* The children of a node are a map from edge bytes: InnerNode shows that  *)
(* the four array layouts implement it.                                    *)
(***************************************************************************)
EXTENDS TreeShape

CONSTANTS
  Procs,    \* the goroutines
  Keys, Values,
  none      \* no key, no value, no result

ASSUME KeysAssumption == Keys \subseteq Seq(Byte)

VARIABLES
  root, size,   \* the fields of Tree
  leaves,       \* key |-> value of the leaf allocated for it
  nodes,        \* inner reference |-> [prefix, terminal, children]
  call          \* the call each goroutine is in

tree == <<root, size, leaves, nodes>>
vars == <<root, size, leaves, nodes, call>>

\* The state of a goroutine's call as its caller sees it.
TreeClient ==
  [p \in Procs |->
    [phase  |-> CASE call[p].phase = "enter" -> "pending"
                  [] call[p].phase \in {"return", "done"} -> "applied"
                  [] OTHER -> call[p].phase,
     req    |-> call[p].req,
     result |-> CASE call[p].phase = "return" ->
                       IF call[p].req.op = "Put" THEN "ok"
                       ELSE call[p].before # size
                  [] call[p].phase = "done" /\ call[p].req.op = "Clone" ->
                       call[p].result.leaves
                  [] OTHER -> call[p].result]]

SM == INSTANCE SortedMap WITH dict <- leaves, client <- TreeClient

Child(r, b) == IF b \in DOMAIN nodes[r].children THEN nodes[r].children[b] ELSE nil
-----------------------------------------------------------------------------
(***************************************************************************)
(* Building nodes.                                                         *)
(***************************************************************************)

\* newNode4With: the node4 above an existing leaf and a leaf for key.
ForkAt(existing, key, depth) ==
  depth + SharedLen(From(existing, depth), From(key, depth))

ForkRef(existing, key, depth) ==
  [kind |-> "node4", at |-> Upto(key, ForkAt(existing, key, depth))]

ForkNode(existing, key, depth) ==
  LET diverge == ForkAt(existing, key, depth)
      branching == {k \in {existing, key} : diverge < Len(k)}
  IN  [prefix   |-> SubSeq(key, depth + 1, diverge),
       terminal |-> IF diverge = Len(existing) THEN Leaf(existing)
                    ELSE IF diverge = Len(key) THEN Leaf(key) ELSE nil,
       children |-> [b \in {k[diverge + 1] : k \in branching} |->
                       Leaf(CHOOSE k \in branching : k[diverge + 1] = b)]]

\* newNode4With panics on keys that are equal from depth on, and slicing
\* existing.key[depth:] panics when the key is shorter than that.
ForkPanics(existing, key, depth) ==
  \/ depth > Len(existing)
  \/ From(existing, depth) = From(key, depth)

\* splitPrefixedInner: the node4 that adopts r, whose prefix is cut at split.
SplitNode(r, key, depth, split) ==
  LET prefix == nodes[r].prefix
      end == depth + split
      adopted == [b \in {prefix[split + 1]} |-> r]
  IN  [prefix   |-> Upto(prefix, split),
       terminal |-> IF end = Len(key) THEN Leaf(key) ELSE nil,
       children |-> IF end = Len(key) THEN adopted
                    ELSE With(adopted, key[end + 1], Leaf(key))]

\* addOrGrow in the heap ns: a grown node replaces the old one.
Grown(ns, r, b, c) ==
  LET m == ns[r]
      g == [r EXCEPT !.kind = GrownKind(r.kind, Count(m.children))]
  IN  [ref |-> g,
       nodes |-> With(Without(ns, r), g, [m EXCEPT !.children = With(@, b, c)])]

(***************************************************************************)
(* reshape in the heap ns: a node without children gives way to its        *)
(* terminal, a node4 with a single child and no terminal to that child,    *)
(* which absorbs the prefix and the branch byte (mergePrefixIntoChild).    *)
(***************************************************************************)
MergedWithoutBranch(ns, r, b, c) ==
  IF IsLeaf(c) THEN Without(ns, r)
  ELSE [Without(ns, r) EXCEPT ![c].prefix = ns[r].prefix \o @]

Merged(ns, r, b, c) ==
  IF IsLeaf(c) THEN Without(ns, r)
  ELSE [Without(ns, r) EXCEPT ![c].prefix = ns[r].prefix \o <<b>> \o @]

ReshapedIgnoresTerminal(ns, r) ==
  LET m == ns[r]
      live == DOMAIN m.children
      b == CHOOSE x \in live : TRUE
      s == [r EXCEPT !.kind = ReshapedKind(r.kind, Cardinality(live))]
  IN  IF live = {} THEN [ref |-> m.terminal, nodes |-> Without(ns, r)]
      ELSE IF r.kind = "node4" /\ Cardinality(live) = 1
      THEN [ref |-> m.children[b], nodes |-> Merged(ns, r, b, m.children[b])]
      ELSE [ref |-> s, nodes |-> With(Without(ns, r), s, m)]

Reshaped(ns, r) ==
  LET m == ns[r]
      live == DOMAIN m.children
  IN  IF live = {} THEN [ref |-> m.terminal, nodes |-> Without(ns, r)]
      ELSE IF r.kind = "node4" /\ m.terminal = nil /\ Cardinality(live) = 1
      THEN LET b == CHOOSE x \in live : TRUE
           IN  [ref |-> m.children[b], nodes |-> Merged(ns, r, b, m.children[b])]
      ELSE LET s == [r EXCEPT !.kind = ReshapedKind(r.kind, Cardinality(live))]
           IN  [ref |-> s, nodes |-> With(Without(ns, r), s, m)]
-----------------------------------------------------------------------------
(***************************************************************************)
(* The frames of a call.  cur and depth are the arguments of the active    *)
(* one, stack holds the (node, branch byte) pairs of the suspended ones,   *)
(* and ret is what the frame that just ended returned.  before is Delete's *)
(* local, copy is what Clone has built so far.                             *)
(***************************************************************************)
NoCopy == [leaves |-> Empty, nodes |-> Empty]

Idle == [phase |-> "idle", req |-> none, cur |-> nil, depth |-> 0,
         stack |-> <<>>, ret |-> nil, before |-> 0, copy |-> NoCopy,
         result |-> none]

Begin(p, req) ==
  /\ call[p].phase = "idle"
  /\ call' = [call EXCEPT ![p] = [Idle EXCEPT !.phase = "enter", !.req = req,
                                              !.cur = root, !.before = size]]
  /\ UNCHANGED tree

Entered(p, op) == call[p].phase = "enter" /\ call[p].req.op = op
Ended(p, op)   == call[p].phase = "return" /\ call[p].req.op = op

Recurse(p, b, c, depth) ==
  call' = [call EXCEPT
             ![p].stack = <<[node |-> call[p].cur, branch |-> b]>> \o @,
             ![p].cur = c, ![p].depth = depth]

ReturnNode(p, r) == call' = [call EXCEPT ![p].phase = "return", ![p].ret = r]

Unwind(p, r) ==
  call' = [call EXCEPT ![p].stack = Tail(@), ![p].ret = r]

Done(p, result) ==
  call' = [call EXCEPT ![p] = [Idle EXCEPT !.phase = "done", !.req = call[p].req,
                                           !.result = result]]

Return(p) ==
  /\ call[p].phase = "done"
  /\ call' = [call EXCEPT ![p] = Idle]
  /\ UNCHANGED tree

Panic(p) == call' = [call EXCEPT ![p].phase = "panicked"]
-----------------------------------------------------------------------------
(***************************************************************************)
(* Put.  insertLeaf allocates the leaf and is the only place that counts a *)
(* new key; overwriting changes the value of a leaf in place.              *)
(***************************************************************************)
InsertLeafUncounted(p) ==
  /\ leaves' = With(leaves, call[p].req.key, call[p].req.val)
  /\ UNCHANGED size

InsertLeaf(p) ==
  /\ leaves' = With(leaves, call[p].req.key, call[p].req.val)
  /\ size' = size + 1

OverwriteKeepsValue(p, r) == UNCHANGED <<leaves, size>>

Overwrite(p, r) ==
  /\ leaves' = With(leaves, r.at, call[p].req.val)
  /\ UNCHANGED size

PutNil(p) ==
  /\ Entered(p, "Put") /\ call[p].cur = nil
  /\ InsertLeaf(p)
  /\ ReturnNode(p, Leaf(call[p].req.key))
  /\ UNCHANGED <<root, nodes>>

PutLeaf(p) ==
  LET c == call[p]
      key == c.req.key
  IN  /\ Entered(p, "Put") /\ IsLeaf(c.cur)
      /\ \/ /\ c.cur.at = key
            /\ Overwrite(p, c.cur) /\ ReturnNode(p, c.cur)
            /\ UNCHANGED <<root, nodes>>
         \/ /\ c.cur.at # key
            /\ ~ ForkPanics(c.cur.at, key, c.depth)
            /\ InsertLeaf(p)
            /\ LET f == ForkRef(c.cur.at, key, c.depth)
               IN  /\ nodes' = With(nodes, f, ForkNode(c.cur.at, key, c.depth))
                   /\ ReturnNode(p, f)
            /\ UNCHANGED root
         \/ /\ c.cur.at # key
            /\ ForkPanics(c.cur.at, key, c.depth)
            /\ Panic(p) /\ UNCHANGED tree

SplitPoint(c) == SharedLen(From(c.req.key, c.depth), nodes[c.cur].prefix)

\* The key leaves the node's prefix part-way: the prefix is split.
PutSplit(p) ==
  LET c == call[p]
      split == SplitPoint(c)
      s == [kind |-> "node4", at |-> Upto(c.req.key, c.depth + split)]
      cut == [nodes EXCEPT ![c.cur].prefix = From(@, split + 1)]
  IN  /\ Entered(p, "Put") /\ IsInner(c.cur)
      /\ split < Len(nodes[c.cur].prefix)
      /\ InsertLeaf(p)
      /\ nodes' = With(cut, s, SplitNode(c.cur, c.req.key, c.depth, split))
      /\ ReturnNode(p, s)
      /\ UNCHANGED root

\* putIntoInner, at the depth past the node's prefix.
InPutInner(p) ==
  /\ Entered(p, "Put") /\ IsInner(call[p].cur)
  /\ SplitPoint(call[p]) = Len(nodes[call[p].cur].prefix)

Past(c) == c.depth + Len(nodes[c.cur].prefix)
Branch(c) == c.req.key[Past(c) + 1]

PutTerminal(p) ==
  LET c == call[p]
      t == nodes[c.cur].terminal
  IN  /\ InPutInner(p) /\ Past(c) = Len(c.req.key)
      /\ \/ /\ t # nil
            /\ Overwrite(p, t) /\ UNCHANGED nodes
         \/ /\ t = nil
            /\ InsertLeaf(p)
            /\ nodes' = [nodes EXCEPT ![c.cur].terminal = Leaf(c.req.key)]
      /\ ReturnNode(p, c.cur)
      /\ UNCHANGED root

PutAbsent(p) ==
  LET c == call[p]
      g == Grown(nodes, c.cur, Branch(c), Leaf(c.req.key))
  IN  /\ InPutInner(p) /\ Past(c) # Len(c.req.key)
      /\ Child(c.cur, Branch(c)) = nil
      /\ InsertLeaf(p)
      /\ nodes' = g.nodes /\ ReturnNode(p, g.ref)
      /\ UNCHANGED root

PutBesideLeafUnchecked(p) ==
  LET c == call[p]
      key == c.req.key
      l == Child(c.cur, Branch(c))
      depth == Past(c) + 1
      f == ForkRef(l.at, key, depth)
  IN  /\ InPutInner(p) /\ Past(c) # Len(key)
      /\ IsLeaf(l)
      /\ IF ForkPanics(l.at, key, depth) THEN Panic(p) /\ UNCHANGED tree
         ELSE /\ InsertLeaf(p)
              /\ nodes' = With([nodes EXCEPT ![c.cur].children[Branch(c)] = f],
                               f, ForkNode(l.at, key, depth))
              /\ ReturnNode(p, c.cur)
              /\ UNCHANGED root

PutBesideLeaf(p) ==
  LET c == call[p]
      key == c.req.key
      l == Child(c.cur, Branch(c))
      depth == Past(c) + 1
  IN  /\ InPutInner(p) /\ Past(c) # Len(key)
      /\ IsLeaf(l)
      /\ \/ /\ l.at = key
            /\ Overwrite(p, l) /\ ReturnNode(p, c.cur)
            /\ UNCHANGED <<root, nodes>>
         \/ /\ l.at # key /\ ~ ForkPanics(l.at, key, depth)
            /\ InsertLeaf(p)
            /\ LET f == ForkRef(l.at, key, depth)
               IN  nodes' = With([nodes EXCEPT ![c.cur].children[Branch(c)] = f],
                                 f, ForkNode(l.at, key, depth))
            /\ ReturnNode(p, c.cur)
            /\ UNCHANGED root
         \/ /\ l.at # key /\ ForkPanics(l.at, key, depth)
            /\ Panic(p) /\ UNCHANGED tree

PutRecurse(p) ==
  LET c == call[p] IN
  /\ InPutInner(p) /\ Past(c) # Len(c.req.key)
  /\ IsInner(Child(c.cur, Branch(c)))
  /\ Recurse(p, Branch(c), Child(c.cur, Branch(c)), Past(c) + 1)
  /\ UNCHANGED tree

\* The suspended frame stores what the call below it returned.
PutResume(p) ==
  LET c == call[p]
      f == Head(c.stack)
  IN  /\ Ended(p, "Put") /\ c.stack # <<>>
      /\ nodes' = [nodes EXCEPT ![f.node].children[f.branch] = c.ret]
      /\ Unwind(p, f.node)
      /\ UNCHANGED <<root, size, leaves>>

PutFinish(p) ==
  /\ Ended(p, "Put") /\ call[p].stack = <<>>
  /\ root' = call[p].ret
  /\ Done(p, "ok")
  /\ UNCHANGED <<size, leaves, nodes>>
-----------------------------------------------------------------------------
(***************************************************************************)
(* Get: a loop, no frames.                                                 *)
(***************************************************************************)
ValueOf(r, key) == IF IsLeaf(r) /\ r.at = key THEN leaves[key] ELSE none

Matches(c) == Consumes(nodes[c.cur].prefix, c.req.key, c.depth)

GetEnd(p) ==
  LET c == call[p] IN
  /\ Entered(p, "Get")
  /\ \/ ~ IsInner(c.cur) /\ Done(p, ValueOf(c.cur, c.req.key))
     \/ IsInner(c.cur) /\ ~ Matches(c) /\ Done(p, none)
     \/ /\ IsInner(c.cur) /\ Matches(c) /\ Past(c) = Len(c.req.key)
        /\ Done(p, ValueOf(nodes[c.cur].terminal, c.req.key))
  /\ UNCHANGED tree

\* A slip in the loop: depth moves past the prefix, the current node does not.
GetStepSameNode(p) ==
  LET c == call[p] IN
  /\ Entered(p, "Get") /\ IsInner(c.cur)
  /\ Matches(c) /\ Past(c) # Len(c.req.key)
  /\ call' = [call EXCEPT ![p].depth = Past(c)]
  /\ UNCHANGED tree

GetStep(p) ==
  LET c == call[p] IN
  /\ Entered(p, "Get") /\ IsInner(c.cur)
  /\ Matches(c) /\ Past(c) # Len(c.req.key)
  /\ call' = [call EXCEPT ![p].cur = Child(c.cur, Branch(c)), ![p].depth = Past(c) + 1]
  /\ UNCHANGED tree
-----------------------------------------------------------------------------
(***************************************************************************)
(* Delete.  A frame that finds nothing returns the node it was given; the  *)
(* suspended frames tell "nothing changed" from that pointer.              *)
(***************************************************************************)
DropLeaf(key) ==
  /\ leaves' = Without(leaves, key)
  /\ size' = size - 1

DeleteLeaf(p) ==
  LET c == call[p] IN
  /\ Entered(p, "Delete") /\ IsLeaf(c.cur) /\ c.cur.at = c.req.key
  /\ DropLeaf(c.req.key)
  /\ ReturnNode(p, nil)
  /\ UNCHANGED <<root, nodes>>

\* An exhausted key whose leaf is the terminal: clearTerminalIfMatches, reshape.
DeleteTerminal(p) ==
  LET c == call[p]
      t == nodes[c.cur].terminal
      s == Reshaped([nodes EXCEPT ![c.cur].terminal = nil], c.cur)
  IN  /\ Entered(p, "Delete") /\ IsInner(c.cur) /\ Matches(c)
      /\ Past(c) = Len(c.req.key)
      /\ IsLeaf(t) /\ t.at = c.req.key
      /\ DropLeaf(c.req.key)
      /\ nodes' = s.nodes /\ ReturnNode(p, s.ref)
      /\ UNCHANGED root

DeleteMiss(p) ==
  LET c == call[p] IN
  /\ Entered(p, "Delete")
  /\ \/ c.cur = nil
     \/ IsLeaf(c.cur) /\ c.cur.at # c.req.key
     \/ IsInner(c.cur) /\ ~ Matches(c)
     \/ /\ IsInner(c.cur) /\ Matches(c) /\ Past(c) = Len(c.req.key)
        /\ nodes[c.cur].terminal # Leaf(c.req.key)
     \/ /\ IsInner(c.cur) /\ Matches(c) /\ Past(c) # Len(c.req.key)
        /\ Child(c.cur, Branch(c)) = nil
  /\ ReturnNode(p, c.cur)
  /\ UNCHANGED tree

DeleteRecurse(p) ==
  LET c == call[p] IN
  /\ Entered(p, "Delete") /\ IsInner(c.cur) /\ Matches(c)
  /\ Past(c) # Len(c.req.key)
  /\ Child(c.cur, Branch(c)) # nil
  /\ Recurse(p, Branch(c), Child(c.cur, Branch(c)), Past(c) + 1)
  /\ UNCHANGED tree

DeleteResume(p) ==
  LET c == call[p]
      f == Head(c.stack)
      cut == IF c.ret = nil
             THEN [nodes EXCEPT ![f.node].children = Without(@, f.branch)]
             ELSE [nodes EXCEPT ![f.node].children[f.branch] = c.ret]
      s == Reshaped(cut, f.node)
  IN  /\ Ended(p, "Delete") /\ c.stack # <<>>
      /\ \/ /\ c.ret = Child(f.node, f.branch)
            /\ Unwind(p, f.node) /\ UNCHANGED nodes
         \/ /\ c.ret # Child(f.node, f.branch)
            /\ nodes' = s.nodes /\ Unwind(p, s.ref)
      /\ UNCHANGED <<root, size, leaves>>

DeleteFinish(p) ==
  /\ Ended(p, "Delete") /\ call[p].stack = <<>>
  /\ root' = call[p].ret
  /\ Done(p, size # call[p].before)
  /\ UNCHANGED <<size, leaves, nodes>>
-----------------------------------------------------------------------------
LenStep(p) ==
  /\ Entered(p, "Len")
  /\ Done(p, size)
  /\ UNCHANGED tree

ClearStepKeepsSize(p) ==
  /\ Entered(p, "Clear")
  /\ root' = nil /\ UNCHANGED size
  /\ leaves' = Empty /\ nodes' = Empty
  /\ Done(p, "ok")

ClearStep(p) ==
  /\ Entered(p, "Clear")
  /\ root' = nil /\ size' = 0
  /\ leaves' = Empty /\ nodes' = Empty
  /\ Done(p, "ok")

(***************************************************************************)
(* Clone: a depth-first copy.  cur is the node being copied and stack the  *)
(* nodes still to be copied; a copy stands at the same place in its own    *)
(* heap, so its references need no renaming.                               *)
(***************************************************************************)
Kids(r) ==
  IF IsLeaf(r) THEN <<>>
  ELSE LET m == nodes[r].children
       IN  [i \in 1 .. Count(m) |-> m[Nth(DOMAIN m, i - 1)]]

ClonedSharesTerminal(copy, r) ==
  IF IsLeaf(r)
  THEN [copy EXCEPT !.leaves = With(@, r.at, leaves[r.at])]
  ELSE [copy EXCEPT !.nodes = With(@, r, nodes[r])]

Cloned(copy, r) ==
  IF IsLeaf(r)
  THEN [copy EXCEPT !.leaves = With(@, r.at, leaves[r.at])]
  ELSE LET t == nodes[r].terminal
       IN  [leaves |-> IF t = nil THEN copy.leaves
                       ELSE With(copy.leaves, t.at, leaves[t.at]),
            nodes  |-> With(copy.nodes, r, nodes[r])]

CloneStep(p) ==
  LET c == call[p]
      todo == Kids(c.cur) \o c.stack
  IN  /\ Entered(p, "Clone") /\ c.cur # nil
      /\ call' = [call EXCEPT
                    ![p].copy = Cloned(@, c.cur),
                    ![p].cur = IF todo = <<>> THEN nil ELSE Head(todo),
                    ![p].stack = IF todo = <<>> THEN <<>> ELSE Tail(todo)]
      /\ UNCHANGED tree

CloneFinish(p) ==
  LET c == call[p] IN
  /\ Entered(p, "Clone") /\ c.cur = nil
  /\ Done(p, [root |-> root, size |-> size,
              leaves |-> c.copy.leaves, nodes |-> c.copy.nodes])
  /\ UNCHANGED tree
-----------------------------------------------------------------------------
Step(p) ==
  \/ PutNil(p) \/ PutLeaf(p) \/ PutSplit(p) \/ PutTerminal(p) \/ PutAbsent(p)
  \/ PutBesideLeaf(p) \/ PutRecurse(p) \/ PutResume(p) \/ PutFinish(p)
  \/ GetEnd(p) \/ GetStep(p)
  \/ DeleteLeaf(p) \/ DeleteTerminal(p) \/ DeleteMiss(p)
  \/ DeleteRecurse(p) \/ DeleteResume(p) \/ DeleteFinish(p)
  \/ LenStep(p) \/ ClearStep(p) \/ CloneStep(p) \/ CloneFinish(p)

(***************************************************************************)
(* The usage contract of Tree: reads may overlap, a mutating call excludes *)
(* every other call.                                                       *)
(***************************************************************************)
Permitted(p, req) ==
  /\ \A q \in Procs : call[q].phase # "idle" => call[q].req.op \notin SM!Writers
  /\ req.op \in SM!Writers => \A q \in Procs : call[q].phase = "idle"

Init ==
  /\ root = nil /\ size = 0
  /\ leaves = Empty /\ nodes = Empty
  /\ call = [p \in Procs |-> Idle]

Next ==
  \E p \in Procs :
    \/ \E req \in SM!Calls : Permitted(p, req) /\ Begin(p, req)
    \/ Step(p)
    \/ Return(p)

\* A goroutine inside a call keeps running: nothing in Tree blocks.
Fairness == \A p \in Procs : WF_vars(Step(p) \/ Return(p))

Spec == Init /\ [][Next]_vars /\ Fairness
-----------------------------------------------------------------------------
(***************************************************************************)
(* Properties.                                                             *)
(***************************************************************************)
Writing == \E p \in Procs : call[p].phase # "idle" /\ call[p].req.op \in SM!Writers

\* The fields of Tree and of every inner node and frame hold what their Go
\* types say, references point into the heap's namespace, counters are ints.
TypeOK ==
  /\ root = nil \/ root.at \in Seq(Byte)
  /\ size \in Nat
  /\ DOMAIN leaves \subseteq Keys /\ \A k \in DOMAIN leaves : leaves[k] \in Values
  /\ \A r \in DOMAIN nodes :
       /\ r.kind \in InnerKinds /\ nodes[r].prefix \in Seq(Byte)
       /\ DOMAIN nodes[r].children \subseteq Byte
  /\ \A p \in Procs :
       /\ call[p].phase \in {"idle", "enter", "return", "done"}
       /\ call[p].depth \in Nat

\* Len is exact at every instant: a key is counted when its leaf is allocated
\* and discounted when the leaf is dropped, on every path through Put, Delete
\* and Clear, and never twice.
SizeIsLeafCount == size = Cardinality(DOMAIN leaves)

\* The panic of newNode4With, and a slice of a key beyond its end, cannot be
\* reached: a leaf met at depth d shares d bytes with the key that led there.
NoPanic == \A p \in Procs : call[p].phase # "panicked"

\* Whatever sequence of Put, Delete and Clear led here, the tree is the one
\* its set of keys determines: every prefix, terminal, edge, node type and the
\* root.  Nothing is left behind, nothing is unreachable, no node is larger or
\* smaller than it should be, no single-child chain survives a deletion.
HistoryIndependent ==
  ~ Writing =>
    /\ root = Top(DOMAIN leaves, <<>>)
    /\ nodes = ShapeOf(DOMAIN leaves)

\* A finished Clone is a whole tree: the root, size, inner nodes and leaves of
\* one tree, reached from its root.
CloneIsWhole ==
  \A p \in Procs :
    call[p].phase = "done" /\ call[p].req.op = "Clone" =>
      LET t == call[p].result
          K == DOMAIN t.leaves
      IN  /\ t.root = Top(K, <<>>) /\ t.nodes = ShapeOf(K)
          /\ t.size = Cardinality(K)

\* Every call is a step of a sorted map taken between its call and its return.
ImplementsSortedMap == SM!SMSpec

\* Every call returns: descents and unwindings end.
EveryCallReturns ==
  \A p \in Procs : call[p].phase # "idle" ~> call[p].phase = "idle"
=============================================================================
