----------------------------- MODULE ArtIterate ------------------------------
(***************************************************************************)
(* Range loops over a tree (iterate.go): All, Range and the descending and *)
(* open-ended variants, one action per step of the recursive walk.         *)
(*                                                                         *)
(* iterate is iterateRange with nil bounds (which prune nothing and accept *)
(* every key), except that it keeps no path; so All is Range(nil, nil),    *)
(* RangeFrom(s) is Range(s, nil) and RangeTo(e) is Range(nil, e).          *)
(*                                                                         *)
(* path is the buffer the frames of one walk share through a pointer: each *)
(* writes behind the length it knows and has to restore it when it ends.   *)
(* The tree is any tree that point operations leave behind, and no call    *)
(* changes it during the loop, as the usage contract demands.              *)
(***************************************************************************)
EXTENDS TreeShape

CONSTANTS Keys, Bounds

ASSUME KeysAssumption == Keys \subseteq Seq(Byte)
ASSUME BoundsAssumption == Bounds \ {nil} \subseteq Seq(Byte)

VARIABLES
  stored,        \* the keys in the tree
  root, nodes,
  walk           \* the range loop and its walk

itTree == <<stored, root, nodes>>
itVars == <<stored, root, nodes, walk>>

NoWalk == [phase |-> "idle", dir |-> "up", start |-> nil, end |-> nil,
           cur |-> nil, path |-> <<>>, stack |-> <<>>, ret |-> TRUE,
           given |-> {}, broke |-> FALSE]

\* What the loop body sees of a walk.
ScanClient ==
  [phase |-> IF walk.phase \in {"idle", "panicked"} THEN walk.phase
             ELSE IF walk.broke THEN "stopped" ELSE "scanning",
   dir |-> walk.dir, start |-> walk.start, end |-> walk.end, given |-> walk.given]

Scan == INSTANCE SortedScan WITH scan <- ScanClient
-----------------------------------------------------------------------------
KeyInRange(key, start, end) ==
  /\ start # nil => ~ Less(key, start)
  /\ end # nil => Less(key, end)

\* Every key that begins with path and b is below bound ...
SubtreeBeforeWithByte(path, b, bound) ==
  /\ bound # nil
  /\ IF Len(bound) <= Len(path)
     THEN Less(Upto(path, Len(bound)), bound)
     ELSE LET stem == Upto(bound, Len(path))
          IN  Less(path, stem) \/ (path = stem /\ b < bound[Len(path) + 1])

\* ... or at or above it.
SubtreeAtOrAfterIgnoresLength(path, b, bound) ==
  /\ bound # nil
  /\ IF Len(bound) <= Len(path)
     THEN ~ Less(Upto(path, Len(bound)), bound)
     ELSE LET stem == Upto(bound, Len(path))
          IN  Less(stem, path) \/ (path = stem /\ b > bound[Len(path) + 1])

SubtreeAtOrAfterWithByte(path, b, bound) ==
  /\ bound # nil
  /\ IF Len(bound) <= Len(path)
     THEN ~ Less(Upto(path, Len(bound)), bound)
     ELSE LET stem == Upto(bound, Len(path))
              bb == bound[Len(path) + 1]
          IN  \/ Less(stem, path)
              \/ path = stem /\ (b > bb \/ (b = bb /\ Len(bound) = Len(path) + 1))
-----------------------------------------------------------------------------
(***************************************************************************)
(* A frame knows its node, the length of path before it (before) and       *)
(* behind its prefix (len), and the edges it has not visited yet (todo).   *)
(***************************************************************************)
Frame == Head(walk.stack)
NodePath == Upto(walk.path, Frame.len)

Ends(w, result) == [w EXCEPT !.phase = "return", !.ret = result]

\* The active frame gives the buffer back as it found it and ends.
PopsKeepingPath(w, result) ==
  [Ends(w, result) EXCEPT !.stack = Tail(@)]

Pops(w, result) ==
  [Ends(w, result) EXCEPT !.path = Upto(@, Head(w.stack).before),
                          !.stack = Tail(@)]

Yields(w, key, goOn) ==
  [w EXCEPT !.given = @ \cup {key}, !.broke = ~ goOn]

BeginRange(dir, start, end) ==
  /\ walk.phase = "idle"
  /\ LET w == [NoWalk EXCEPT !.dir = dir, !.start = start, !.end = end]
     IN  \/ /\ Scan!Reversed(start, end)
            /\ walk' = [w EXCEPT !.phase = "panicked"]
         \/ /\ ~ Scan!Reversed(start, end)
            /\ start # nil /\ start = end
            /\ walk' = Ends(w, TRUE)
         \/ /\ ~ Scan!Reversed(start, end)
            /\ start = nil \/ start # end
            /\ walk' = [w EXCEPT !.phase = "enter", !.cur = root]
  /\ UNCHANGED itTree

VisitNil ==
  /\ walk.phase = "enter" /\ walk.cur = nil
  /\ walk' = Ends(walk, TRUE)
  /\ UNCHANGED itTree

VisitLeaf ==
  /\ walk.phase = "enter" /\ IsLeaf(walk.cur)
  /\ LET key == walk.cur.at
     IN  IF KeyInRange(key, walk.start, walk.end)
         THEN \E goOn \in BOOLEAN : walk' = Ends(Yields(walk, key, goOn), goOn)
         ELSE walk' = Ends(walk, TRUE)
  /\ UNCHANGED itTree

\* yieldTerminalInRange on the node of w's first frame: the keys it yields, at
\* most one, chosen by the path in the buffer.
DueTerminal(w) ==
  LET f == Head(w.stack)
      t == nodes[f.node].terminal
  IN  {k \in stored : /\ t = Leaf(k)
                      /\ KeyInRange(Upto(w.path, f.len), w.start, w.end)}

\* Upwards the terminal comes before the children.
VisitInner ==
  /\ walk.phase = "enter" /\ IsInner(walk.cur)
  /\ LET m == nodes[walk.cur]
         path == walk.path \o m.prefix
         w == [walk EXCEPT !.path = path, !.phase = "edges",
                 !.stack = <<[node |-> walk.cur, before |-> Len(walk.path),
                              len |-> Len(path), todo |-> DOMAIN m.children]>> \o @]
     IN  \/ /\ walk.dir = "down" \/ DueTerminal(w) = {}
            /\ walk' = w
         \/ /\ walk.dir = "up"
            /\ \E k \in DueTerminal(w) :
                 \/ walk' = Yields(w, k, TRUE)
                 \/ walk' = Pops(Yields(w, k, FALSE), FALSE)
  /\ UNCHANGED itTree

NextEdge(b) ==
  /\ walk.phase = "edges" /\ b \in Frame.todo
  /\ \A c \in Frame.todo \ {b} : IF walk.dir = "up" THEN b < c ELSE c < b

Before(b) == SubtreeBeforeWithByte(NodePath, b, walk.start)
AtOrAfter(b) == SubtreeAtOrAfterWithByte(NodePath, b, walk.end)

\* A subtree on the near side of the interval is skipped ...
SkipEdgeAgain(b) ==
  /\ NextEdge(b)
  /\ IF walk.dir = "up" THEN Before(b) ELSE AtOrAfter(b)
  /\ UNCHANGED itVars

SkipEdge(b) ==
  /\ NextEdge(b)
  /\ IF walk.dir = "up" THEN Before(b) ELSE AtOrAfter(b)
  /\ walk' = [walk EXCEPT !.stack[1].todo = @ \ {b}]
  /\ UNCHANGED itTree

\* ... and one on the far side ends the walk of this node: upwards with false,
\* which ends every frame below too, downwards with stoppedEarly.
StopAtEdge(b) ==
  /\ NextEdge(b)
  /\ IF walk.dir = "up" THEN ~ Before(b) /\ AtOrAfter(b)
                        ELSE ~ AtOrAfter(b) /\ Before(b)
  /\ walk' = IF walk.dir = "up" THEN Pops(walk, FALSE)
                                ELSE [walk EXCEPT !.phase = "terminal"]
  /\ UNCHANGED itTree

DescendEdgeAppends(b) ==
  /\ NextEdge(b) /\ ~ Before(b) /\ ~ AtOrAfter(b)
  /\ walk' = [walk EXCEPT !.phase = "enter",
                          !.cur = nodes[Frame.node].children[b],
                          !.path = Append(@, b),
                          !.stack[1].todo = @ \ {b}]
  /\ UNCHANGED itTree

DescendEdge(b) ==
  /\ NextEdge(b) /\ ~ Before(b) /\ ~ AtOrAfter(b)
  /\ walk' = [walk EXCEPT !.phase = "enter",
                          !.cur = nodes[Frame.node].children[b],
                          !.path = Append(NodePath, b),
                          !.stack[1].todo = @ \ {b}]
  /\ UNCHANGED itTree

EdgesDoneForgets ==
  /\ walk.phase = "edges" /\ Frame.todo = {}
  /\ walk' = Pops(walk, TRUE)
  /\ UNCHANGED itTree

EdgesDone ==
  /\ walk.phase = "edges" /\ Frame.todo = {}
  /\ walk' = IF walk.dir = "up" THEN Pops(walk, TRUE)
                                ELSE [walk EXCEPT !.phase = "terminal"]
  /\ UNCHANGED itTree

\* Downwards the terminal comes after the children.
VisitTerminal ==
  /\ walk.phase = "terminal"
  /\ IF DueTerminal(walk) = {} THEN walk' = Pops(walk, TRUE)
     ELSE \E k \in DueTerminal(walk), goOn \in BOOLEAN :
            walk' = Pops(Yields(walk, k, goOn), goOn)
  /\ UNCHANGED itTree

\* What a child's walk returned reaches the frame below it.
ResumeFrameAsPruned ==
  /\ walk.phase = "return" /\ walk.stack # <<>>
  /\ walk' = IF walk.ret THEN [walk EXCEPT !.phase = "edges"]
             ELSE IF walk.dir = "up" THEN Pops(walk, FALSE)
             ELSE [walk EXCEPT !.phase = "terminal"]
  /\ UNCHANGED itTree

ResumeFrame ==
  /\ walk.phase = "return" /\ walk.stack # <<>>
  /\ walk' = IF walk.ret THEN [walk EXCEPT !.phase = "edges"]
                         ELSE Pops(walk, FALSE)
  /\ UNCHANGED itTree

EndLoop ==
  /\ walk.phase = "panicked" \/ (walk.phase = "return" /\ walk.stack = <<>>)
  /\ walk' = NoWalk
  /\ UNCHANGED itTree
-----------------------------------------------------------------------------
Step ==
  \/ VisitNil \/ VisitLeaf \/ VisitInner
  \/ \E b \in Byte : SkipEdge(b) \/ StopAtEdge(b) \/ DescendEdge(b)
  \/ EdgesDone \/ VisitTerminal \/ ResumeFrame \/ EndLoop

Init ==
  /\ stored \in SUBSET Keys
  /\ root = Top(stored, <<>>) /\ nodes = ShapeOf(stored)
  /\ walk = NoWalk

Next ==
  \/ \E dir \in {"up", "down"}, start, end \in Bounds : BeginRange(dir, start, end)
  \/ Step

\* The walk and a loop body that returns keep running.
Spec == Init /\ [][Next]_itVars /\ WF_itVars(Step)
-----------------------------------------------------------------------------
(***************************************************************************)
(* Properties.                                                             *)
(***************************************************************************)

\* The walk's registers: each frame starts one edge byte behind the frame below
\* it, and its unvisited edges are edges of its node.
TypeOK ==
  /\ walk.phase \in {"idle", "panicked", "enter", "edges", "terminal", "return"}
  /\ walk.given \subseteq stored
  /\ walk.path \in Seq(Byte)
  /\ \A i \in DOMAIN walk.stack :
       LET f == walk.stack[i]
       IN  /\ f.node \in DOMAIN nodes
           /\ f.len = f.before + Len(nodes[f.node].prefix)
           /\ f.before = IF i = Len(walk.stack) THEN 0 ELSE walk.stack[i + 1].len + 1
           /\ f.todo \subseteq DOMAIN nodes[f.node].children

\* Every loop yields the keys of its interval, each once, in its order, skips
\* none by pruning, and never calls yield again once the body has broken out,
\* however many frames that answer has to pass.
ImplementsScan == Scan!SSSpec

\* The shared buffer holds each suspended frame's own path up to the length
\* the frame remembers, whatever the frames above it appended, and a subtree is
\* entered with exactly the bytes that lead to it.
PathFollowsWalk ==
  /\ \A i \in DOMAIN walk.stack :
       LET f == walk.stack[i]
       IN  Len(walk.path) >= f.len /\ Upto(walk.path, f.len) = f.node.at
  /\ walk.phase = "enter" /\ walk.cur # nil => Starts(walk.path, walk.cur.at)
  /\ walk.phase = "return" /\ walk.stack = <<>> => walk.path = <<>>

\* Pruning is tight: the walk enters only subtrees whose edges admit some byte
\* string in the interval.
EntersOnlyRange ==
  walk.phase = "enter" /\ walk.stack # <<>> =>
    /\ walk.start # nil =>
         Starts(walk.path, walk.start) \/ ~ Less(walk.path, walk.start)
    /\ walk.end # nil => Less(walk.path, walk.end)

\* Every loop ends, if its body does.  ImplementsScan lets a loop end only with
\* nothing left or after a break, so together: every key of the interval is
\* yielded in the end, unless the body breaks out first.
EveryLoopEnds == walk.phase # "idle" ~> walk.phase = "idle"

\* README.md, "Range nil semantics": Range(start, end) with start >= end yields
\* nothing; in particular the call returns an iterator.
ReversedBoundsYieldNothing == walk.phase # "panicked"
=============================================================================
