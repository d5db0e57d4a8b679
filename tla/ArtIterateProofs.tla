-------------------------- MODULE ArtIterateProofs --------------------------
(***************************************************************************)
(* Range loops give the keys of their interval in order, for every tree,   *)
(* every interval and every alphabet: pruning, the inductive invariant of  *)
(* the walk, one lemma for each of its steps, and the theorems.            *)
(***************************************************************************)
EXTENDS ArtIterate, TreeShapeProofs
-----------------------------------------------------------------------------
(***************************************************************************)
(* Pruning.  The two tests of an edge against a bound compare the path of  *)
(* the edge with the bound, without building that path.                    *)
(***************************************************************************)
\* A bound that is no longer than a path: the path's start decides.
LEMMA ShortBound ==
  ASSUME NEW path \in Path, NEW p \in Path, Starts(path, p), NEW bound \in Path,
         Len(bound) <= Len(path), path # p
  PROVE  /\ Less(Upto(path, Len(bound)), bound) <=> Less(p, bound)
         /\ ~ Starts(p, bound)
<1> DEFINE u == Upto(path, Len(bound))
<1>1. Len(bound) \in Nat /\ Len(bound) \in 0 .. Len(path) /\ Len(path) \in Nat
      /\ Len(path) < Len(p)
  BY Lengths, NextByte
<1>2. u \in Path /\ Len(u) = Len(bound) /\ Starts(u, path)
  BY <1>1, UptoStarts
<1> HIDE DEF u
<1>3. Starts(u, p) /\ (Starts(u, bound) => u = bound)
  BY <1>2, StartsOrder
<1>4. Less(u, bound) => Less(p, bound)
  BY <1>2, <1>3, LessBehind, LessOrder
<1>5. Less(p, bound) => Less(u, bound)
  <2>1. Less(bound, u) => Less(bound, p)
    BY <1>2, <1>3, LessBehind
  <2>2. u = bound => Less(bound, p)
    BY <1>1, <1>2, <1>3, LessEdges, Lengths
  <2> QED BY <1>2, <2>1, <2>2, LessOrder
<1>6. ~ Starts(p, bound)
  BY <1>1, StartsOrder, Lengths
<1> QED BY <1>4, <1>5, <1>6 DEF u

\* A longer bound, whose first bytes are not the path: they decide.
LEMMA OtherStem ==
  ASSUME NEW path \in Path, NEW p \in Path, Starts(path, p), NEW bound \in Path,
         NEW stem \in Path, Starts(stem, bound), Len(stem) = Len(path), stem # path
  PROVE  /\ Less(path, stem) <=> Less(p, bound)
         /\ Less(stem, path) <=> ~ Less(p, bound)
         /\ ~ Starts(p, bound)
<1>1. ~ Starts(path, stem) /\ ~ Starts(stem, path)
  BY StartsOrder
<1>2. ~ Starts(p, bound)
  <2>1. Starts(p, bound) => Starts(path, stem)
    BY StartsOrder, Lengths
  <2> QED BY <1>1, <2>1
<1>3. Less(path, stem) => Less(p, bound)
  <2>1. Less(path, stem) => Less(p, stem)
    BY <1>1, LessBehind
  <2>2. Less(p, stem) => Less(p, bound)
    BY LessBehind
  <2> QED BY <2>1, <2>2
<1>4. Less(stem, path) => Less(bound, p)
  <2>1. Less(stem, path) => Less(bound, path)
    BY <1>1, LessBehind
  <2>2. Less(bound, path) => Less(bound, p)
    BY LessBehind
  <2> QED BY <2>1, <2>2
<1>5. Less(path, stem) \/ Less(stem, path)
  BY LessOrder
<1> QED BY <1>2, <1>3, <1>4, <1>5, LessOrder

\* A longer bound that begins with the path: the byte of the edge decides.
ByteDecides(p, b, bb, bound, last) ==
  /\ bb \in Byte
  /\ b < bb => Less(p, bound) /\ ~ Starts(p, bound)
  /\ b > bb => Less(bound, p)
  /\ b = bb => Starts(p, bound) /\ (Len(bound) = last <=> p = bound)

\* It decides as ByteDecides says.
LEMMA SameStem ==
  ASSUME NEW path \in Path, NEW b \in Byte, NEW bound \in Path,
         Starts(path, bound), Len(path) < Len(bound),
         NEW bb, bb = bound[Len(path) + 1], NEW p, p = Append(path, b)
  PROVE  ByteDecides(p, b, bb, bound, Len(path) + 1)
<1>1. p \in Path /\ Len(p) = Len(path) + 1 /\ path # bound /\ Starts(p, p)
  BY AppendStarts, StartsOrder, Lengths
<1>2. bb \in Byte /\ Starts(Append(path, bb), bound)
  BY <1>1, NextByte
<1>3. b < bb => Less(p, bound)
  BY <1>1, <1>2, LessEdges
<1>4. b > bb => Less(bound, p)
  <2>1. b \in Nat /\ bb \in Nat
    BY <1>2, ByteFinite
  <2>2. b > bb => bb < b
    BY <2>1
  <2> QED BY <1>1, <1>2, <2>2, LessEdges
<1>5. Starts(p, bound) => b = bb
  BY AppendStarts
<1>6. b < bb => b # bb
  <2>1. b \in Nat /\ bb \in Nat
    BY <1>2, ByteFinite
  <2> QED BY <2>1
<1>7. b = bb => Starts(p, bound)
  BY <1>2
<1>8. b = bb => (Len(bound) = Len(path) + 1 <=> p = bound)
  BY <1>1, <1>7, StartsOrder
<1> QED BY <1>2, <1>3, <1>4, <1>5, <1>6, <1>7, <1>8 DEF ByteDecides

\* Everything behind an edge is below a bound, or at or above it.
THEOREM Pruning ==
  ASSUME NEW path \in Path, NEW b \in Byte, NEW p, p = Append(path, b),
         NEW bound, bound # nil => bound \in Path
  PROVE  /\ SubtreeBeforeWithByte(path, b, bound) <=>
              bound # nil /\ Less(p, bound) /\ ~ Starts(p, bound)
         /\ SubtreeAtOrAfterWithByte(path, b, bound) <=> bound # nil /\ ~ Less(p, bound)
<1> SUFFICES ASSUME bound # nil
             PROVE  /\ SubtreeBeforeWithByte(path, b, bound) <=>
                         Less(p, bound) /\ ~ Starts(p, bound)
                    /\ SubtreeAtOrAfterWithByte(path, b, bound) <=> ~ Less(p, bound)
  BY DEF SubtreeBeforeWithByte, SubtreeAtOrAfterWithByte
<1>1. /\ bound \in Path /\ p \in Path /\ Starts(path, p) /\ path # p
      /\ Len(path) \in Nat /\ Len(bound) \in Nat /\ Len(p) = Len(path) + 1
  BY AppendStarts, Lengths
<1>2. CASE Len(bound) <= Len(path)
  <2>1. /\ Less(Upto(path, Len(bound)), bound) <=> Less(p, bound)
        /\ ~ Starts(p, bound)
    BY <1>1, <1>2, ShortBound
  <2> QED BY <1>2, <2>1 DEF SubtreeBeforeWithByte, SubtreeAtOrAfterWithByte
<1>3. CASE Len(path) < Len(bound)
  <2> DEFINE stem == Upto(bound, Len(path))
             bb == bound[Len(path) + 1]
  <2>1. ~ (Len(bound) <= Len(path)) /\ Len(path) \in 0 .. Len(bound)
    BY <1>1, <1>3
  <2>2. /\ SubtreeBeforeWithByte(path, b, bound) <=>
             Less(path, stem) \/ (path = stem /\ b < bb)
        /\ SubtreeAtOrAfterWithByte(path, b, bound) <=>
             \/ Less(stem, path)
             \/ path = stem /\ (b > bb \/ (b = bb /\ Len(bound) = Len(path) + 1))
    BY <2>1 DEF SubtreeBeforeWithByte, SubtreeAtOrAfterWithByte
  <2>3. stem \in Path /\ Len(stem) = Len(path) /\ Starts(stem, bound)
    BY <1>1, <2>1, UptoStarts
  <2>4. bb = bound[Len(path) + 1]
    OBVIOUS
  <2> HIDE DEF stem, bb
  <2>5. CASE stem # path
    BY <1>1, <2>2, <2>3, <2>5, OtherStem
  <2>6. CASE stem = path
    <3>1. ~ Less(path, path)
      BY LessOrder
    <3>0. Starts(path, bound) /\ bb = bound[Len(path) + 1]
      BY <2>3, <2>4, <2>6
    <3>2. /\ bb \in Byte
          /\ b < bb => Less(p, bound) /\ ~ Starts(p, bound)
          /\ b > bb => Less(bound, p)
          /\ b = bb => Starts(p, bound) /\ (Len(bound) = Len(path) + 1 <=> p = bound)
      <4>1. ByteDecides(p, b, bb, bound, Len(path) + 1)
        BY <1>1, <1>3, <3>0, SameStem
      <4> QED BY <4>1 DEF ByteDecides
    <3>3. b \in Nat /\ bb \in Nat
      BY <3>2, ByteFinite
    <3>4. CASE b < bb
      BY <2>2, <2>6, <3>1, <3>2, <3>3, <3>4
    <3>5. CASE b > bb
      <4>1. Less(bound, p) => ~ Less(p, bound)
        BY <1>1, LessOrder
      <4> QED BY <2>2, <2>6, <3>1, <3>2, <3>3, <3>5, <4>1
    <3>6. CASE b = bb
      <4>1. p # bound => Less(p, bound)
        BY <1>1, <3>2, <3>6, LessEdges
      <4>2. p = bound => ~ Less(p, bound)
        BY <1>1, LessOrder
      <4>3. ~ (b < bb) /\ ~ (b > bb)
        BY <3>3, <3>6
      <4> QED BY <2>2, <2>6, <3>1, <3>2, <3>6, <4>1, <4>2, <4>3
    <3> QED BY <3>3, <3>4, <3>5, <3>6
  <2> QED BY <2>5, <2>6
<1> QED BY <1>1, <1>2, <1>3
-----------------------------------------------------------------------------
(***************************************************************************)
(* The inductive invariant: what the walk has still to look at, its debt,  *)
(* is recorded in the frames, and is exactly what is missing from given.   *)
(***************************************************************************)
\* The walk visits edge c before edge b.
Sooner(dir, c, b) == IF dir = "up" THEN c < b ELSE b < c

\* path is behind an edge of f's node that comes before all that f has not visited.
Leads(dir, f, path) ==
  \E c \in Byte : /\ Starts(Append(f.node.at, c), path)
                  /\ \A b \in f.todo : Sooner(dir, c, b)

AllLead(dir, stack, path) == \A i \in DOMAIN stack : Leads(dir, stack[i], path)

Frames == [node : InnerRefs, before : Nat, len : Nat, todo : SUBSET Byte]

FrameOK(f) ==
  /\ f \in Frames /\ f.node \in DOMAIN nodes
  /\ f.len = Len(f.node.at) /\ f.len = f.before + Len(nodes[f.node].prefix)
  /\ f.todo \subseteq DOMAIN nodes[f.node].children

\* Where the slot of a frame's node ends in the buffer.
SlotLen(stack) == IF stack = <<>> THEN 0 ELSE stack[1].len + 1

\* Each frame is behind an edge of every frame below it.
StackOK(dir, stack) ==
  /\ stack \in Seq(Frames)
  /\ \A i \in DOMAIN stack :
       /\ FrameOK(stack[i])
       /\ stack[i].before = IF i = Len(stack) THEN 0 ELSE stack[i + 1].len + 1
  /\ \A i, j \in DOMAIN stack : j < i => Leads(dir, stack[i], stack[j].node.at)

\* The buffer holds the path of every frame.
OnPath(stack, path) ==
  /\ \A i \in DOMAIN stack : Starts(stack[i].node.at, path)
  /\ stack = <<>> => path = <<>>

\* A frame owes the keys behind its unvisited edges; downwards also its terminal.
Owes(dir, f, k) ==
  \/ \E b \in f.todo : Starts(Append(f.node.at, b), k)
  \/ dir = "down" /\ k = f.node.at

Owed(dir, stack, k) == \E i \in DOMAIN stack : Owes(dir, stack[i], k)

\* The walk has yet to come to k.
Debt(w, k) ==
  \/ w.phase = "enter" /\ (Starts(w.path, k) \/ Owed(w.dir, w.stack, k))
  \/ w.phase = "edges" /\ Owed(w.dir, w.stack, k)
  \/ w.phase = "terminal" /\ (k = Head(w.stack).node.at \/ Owed(w.dir, Tail(w.stack), k))
  \/ w.phase = "return" /\ Owed(w.dir, w.stack, k)

Wanted(w) == {k \in stored : KeyInRange(k, w.start, w.end)}

\* A subtree is entered from its slot, and only if it can hold wanted keys.
Entering(w) ==
  /\ SlotOK(nodes, stored, w.cur, w.path)
  /\ AllLead(w.dir, w.stack, w.path) /\ Len(w.path) = SlotLen(w.stack)
  /\ w.stack # <<>> =>
       /\ w.start # nil => Starts(w.path, w.start) \/ ~ Less(w.path, w.start)
       /\ w.end # nil => Less(w.path, w.end)

\* Only a walk that returns false may leave a debt, and only to a body that broke.
Settled(w) ==
  IF w.phase = "return" /\ ~ w.ret
  THEN w.broke \/ Wanted(w) \subseteq w.given
  ELSE ~ w.broke /\ \A k \in Wanted(w) : k \notin w.given <=> Debt(w, k)

\* A walk that is under way.
Walking(w) ==
  /\ StackOK(w.dir, w.stack)
  /\ w.given \subseteq Wanted(w)
  /\ w.phase = "enter" => Entering(w)
  /\ w.phase # "enter" => OnPath(w.stack, w.path)
  /\ w.phase \in {"edges", "terminal"} => w.stack # <<>>
  /\ w.phase = "terminal" => w.dir = "down"
  /\ Settled(w)

\* Between loops, and behind the panic on reversed bounds, nothing is left of a walk.
Resting(w) == w.stack = <<>> /\ w.path = <<>> /\ w.given = {} /\ ~ w.broke

Phases == {"idle", "panicked", "enter", "edges", "terminal", "return"}

FieldNames == {"phase", "dir", "start", "end", "cur", "path", "stack", "ret", "given", "broke"}

WalkTypes(w) ==
  /\ DOMAIN w = FieldNames
  /\ w.phase \in Phases /\ w.dir \in {"up", "down"}
  /\ w.start # nil => w.start \in Path
  /\ w.end # nil => w.end \in Path
  /\ w.path \in Path /\ w.ret \in BOOLEAN /\ w.broke \in BOOLEAN

WalkOK(w) ==
  /\ WalkTypes(w)
  /\ IF w.phase \in {"idle", "panicked"} THEN Resting(w) ELSE Walking(w)

\* Over a whole tree: in every loop, and in every phase of its walk, the keys of the
\* interval that the body has not been given are those that the frames of iterateRange
\* still have before them, and the frames and the buffer agree.
WalkInv ==
  /\ stored \in SUBSET Path
  /\ Whole(nodes, stored, root)
  /\ WalkOK(walk)
-----------------------------------------------------------------------------
(***************************************************************************)
(* Stacks, as a first frame before the others.                             *)
(***************************************************************************)
LEMMA ConsOf ==
  ASSUME NEW S, NEW s \in Seq(S)
  PROVE  /\ Len(s) \in Nat /\ DOMAIN s = 1 .. Len(s)
         /\ s # <<>> => /\ Head(s) = s[1] /\ Head(s) \in S /\ Tail(s) \in Seq(S)
                        /\ Len(s) # 0 /\ Len(Tail(s)) = Len(s) - 1
                        /\ \A i \in 1 .. Len(s) - 1 : Tail(s)[i] = s[i + 1]
         /\ s = <<>> => Len(s) = 0
         /\ Len(s) = 0 => s = <<>>
  OBVIOUS

\* Both, of a first frame and the others.
LEMMA Cons ==
  ASSUME NEW S, NEW f \in S, NEW t \in Seq(S)
  PROVE  /\ <<f>> \o t \in Seq(S) /\ <<f>> \o t # <<>>
         /\ Len(<<f>> \o t) = Len(t) + 1
         /\ (<<f>> \o t)[1] = f /\ \A i \in 1 .. Len(t) : (<<f>> \o t)[i + 1] = t[i]
         /\ Head(<<f>> \o t) = f /\ Tail(<<f>> \o t) = t
<1>1. <<f>> \in Seq(S) /\ Len(<<f>>) = 1 /\ <<f>>[1] = f
  OBVIOUS
<1>2. Len(t) \in Nat
  OBVIOUS
<1> DEFINE u == <<f>> \o t
<1>3. /\ u \in Seq(S) /\ Len(u) = Len(t) + 1 /\ u[1] = f
      /\ \A i \in 1 .. Len(t) : u[i + 1] = t[i]
  BY <1>1, <1>2
<1> HIDE DEF u
<1>4. u # <<>> /\ Head(u) = f
  BY <1>2, <1>3, ConsOf
<1>5. /\ Tail(u) \in Seq(S) /\ Len(Tail(u)) = Len(t)
      /\ \A i \in 1 .. Len(t) : Tail(u)[i] = t[i]
  <2>1. /\ Tail(u) \in Seq(S) /\ Len(Tail(u)) = Len(u) - 1
        /\ \A i \in 1 .. Len(u) - 1 : Tail(u)[i] = u[i + 1]
    BY ONLY <1>3, <1>4, ConsOf
  <2> QED BY <1>2, <1>3, <2>1
<1>6. Tail(u) = t
  BY <1>5
<1> QED BY <1>3, <1>4, <1>6 DEF u

\* Stacks are equal that have the same frames.
LEMMA SameStack ==
  ASSUME NEW u \in Seq(Frames), NEW v \in Seq(Frames), Len(u) = Len(v),
         \A i \in 1 .. Len(u) : u[i] = v[i]
  PROVE  u = v
  OBVIOUS

\* What a stack is made of.
ConsIs(s, f, t) ==
  /\ Len(s) = Len(t) + 1 /\ s[1] = f /\ \A i \in 1 .. Len(t) : s[i + 1] = t[i]
  /\ s \in Seq(Frames) /\ t \in Seq(Frames) /\ f \in Frames

\* A stack is its first frame and the others.
LEMMA Splits ==
  ASSUME NEW s \in Seq(Frames), s # <<>>
  PROVE  /\ ConsIs(s, Head(s), Tail(s)) /\ Head(s) = s[1]
         /\ \A g \in Frames : [s EXCEPT ![1] = g] = <<g>> \o Tail(s)
<1> DEFINE t == Tail(s)
<1>1. /\ Len(s) \in Nat /\ Len(s) # 0 /\ DOMAIN s = 1 .. Len(s)
      /\ Head(s) = s[1] /\ Head(s) \in Frames /\ t \in Seq(Frames)
      /\ Len(t) = Len(s) - 1 /\ \A i \in 1 .. Len(s) - 1 : t[i] = s[i + 1]
  BY ConsOf
<1> HIDE DEF t
<1>2. ConsIs(s, Head(s), t)
  BY <1>1 DEF ConsIs
<1>3. ASSUME NEW g \in Frames PROVE [s EXCEPT ![1] = g] = <<g>> \o t
  <2> DEFINE u == [s EXCEPT ![1] = g]
             v == <<g>> \o t
  <2>1. /\ v \in Seq(Frames) /\ Len(v) = Len(t) + 1 /\ v[1] = g
        /\ \A i \in 1 .. Len(t) : v[i + 1] = t[i]
    <3>1. g \in Frames /\ t \in Seq(Frames)
      BY <1>1
    <3> QED BY ONLY <3>1, Cons
  <2>2. /\ u \in Seq(Frames) /\ Len(u) = Len(s) /\ u[1] = g
        /\ \A i \in 1 .. Len(s) : i # 1 => u[i] = s[i]
    BY <1>1
  <2> HIDE DEF u, v
  <2>3. ASSUME NEW i \in 1 .. Len(s) PROVE u[i] = v[i]
    <3>1. CASE i = 1
      BY <2>1, <2>2, <3>1
    <3>2. CASE i # 1
      <4>1. i - 1 \in 1 .. Len(t) /\ i - 1 \in 1 .. Len(s) - 1 /\ (i - 1) + 1 = i
        BY <1>1, <3>2
      <4>2. v[i] = t[i - 1] /\ t[i - 1] = s[i]
        BY <1>1, <2>1, <4>1
      <4> QED BY <2>2, <3>2, <4>2
    <3> QED BY <3>1, <3>2
  <2>4. Len(u) = Len(v)
    BY <1>1, <2>1, <2>2
  <2>5. u = v
    <3>1. u \in Seq(Frames) /\ v \in Seq(Frames) /\ Len(u) = Len(v) /\ Len(u) = Len(s)
      BY <2>1, <2>2, <2>4
    <3>2. \A i \in 1 .. Len(u) : u[i] = v[i]
      BY <2>3, <3>1
    <3> QED BY ONLY <3>1, <3>2, SameStack
  <2> QED BY <2>5 DEF u, v
<1> QED BY <1>1, <1>2, <1>3 DEF t

\* The indices of a stack.
LEMMA Indices ==
  ASSUME NEW s, NEW f, NEW t, ConsIs(s, f, t)
  PROVE  /\ DOMAIN s = 1 .. Len(s) /\ DOMAIN t = 1 .. Len(t) /\ Len(t) \in Nat
         /\ 1 \in DOMAIN s /\ s # <<>> /\ (t = <<>> <=> Len(t) = 0)
         /\ \A i \in DOMAIN t : i + 1 \in DOMAIN s /\ s[i + 1] = t[i]
         /\ \A i \in DOMAIN s : i = 1 \/ (i - 1 \in DOMAIN t /\ s[i] = t[i - 1] /\ i - 1 \in Nat)
<1>1. /\ Len(t) \in Nat /\ DOMAIN t = 1 .. Len(t) /\ DOMAIN s = 1 .. Len(s)
      /\ Len(s) = Len(t) + 1 /\ (t = <<>> <=> Len(t) = 0) /\ s # <<>>
  BY ConsOf DEF ConsIs
<1>2. \A i \in 1 .. Len(t) : s[i + 1] = t[i]
  BY DEF ConsIs
<1>3. ASSUME NEW i \in DOMAIN s, i # 1
      PROVE  i - 1 \in DOMAIN t /\ s[i] = t[i - 1] /\ i - 1 \in Nat
  <2>1. i - 1 \in 1 .. Len(t) /\ (i - 1) + 1 = i
    BY <1>1, <1>3
  <2> QED BY <1>1, <1>2, <2>1
<1>4. \A i \in DOMAIN t : i + 1 \in DOMAIN s
  BY <1>1
<1> QED BY <1>1, <1>2, <1>3, <1>4

\* Every part of the invariant is one about the first frame and one about the rest.
LEMMA StackCons ==
  ASSUME NEW dir, NEW s, NEW f, NEW t, ConsIs(s, f, t)
  PROVE  /\ StackOK(dir, s) <=>
              /\ StackOK(dir, t) /\ FrameOK(f) /\ f.before = SlotLen(t)
              /\ AllLead(dir, t, f.node.at)
         /\ \A path : AllLead(dir, s, path) <=> Leads(dir, f, path) /\ AllLead(dir, t, path)
         /\ \A k : Owed(dir, s, k) <=> Owes(dir, f, k) \/ Owed(dir, t, k)
         /\ SlotLen(s) = f.len + 1
<1>1. /\ DOMAIN s = 1 .. Len(s) /\ DOMAIN t = 1 .. Len(t) /\ Len(t) \in Nat
      /\ 1 \in DOMAIN s /\ s # <<>> /\ (t = <<>> <=> Len(t) = 0)
      /\ \A i \in DOMAIN t : i + 1 \in DOMAIN s /\ s[i + 1] = t[i]
      /\ \A i \in DOMAIN s : i = 1 \/ (i - 1 \in DOMAIN t /\ s[i] = t[i - 1] /\ i - 1 \in Nat)
      /\ Len(s) = Len(t) + 1 /\ s[1] = f /\ s \in Seq(Frames) /\ t \in Seq(Frames)
  <2>1. Len(s) = Len(t) + 1 /\ s[1] = f /\ s \in Seq(Frames) /\ t \in Seq(Frames)
    BY DEF ConsIs
  <2>2. /\ DOMAIN s = 1 .. Len(s) /\ DOMAIN t = 1 .. Len(t) /\ Len(t) \in Nat
        /\ 1 \in DOMAIN s /\ s # <<>> /\ (t = <<>> <=> Len(t) = 0)
        /\ \A i \in DOMAIN t : i + 1 \in DOMAIN s /\ s[i + 1] = t[i]
        /\ \A i \in DOMAIN s : i = 1 \/ (i - 1 \in DOMAIN t /\ s[i] = t[i - 1] /\ i - 1 \in Nat)
    BY Indices
  <2> QED BY ONLY <2>1, <2>2
<1>2. \A path : AllLead(dir, s, path) <=> Leads(dir, f, path) /\ AllLead(dir, t, path)
  BY <1>1 DEF AllLead
<1>3. \A k : Owed(dir, s, k) <=> Owes(dir, f, k) \/ Owed(dir, t, k)
  BY <1>1 DEF Owed
<1>4. SlotLen(s) = f.len + 1
  BY <1>1 DEF SlotLen
<1>5. ASSUME StackOK(dir, s)
      PROVE  /\ StackOK(dir, t) /\ FrameOK(f) /\ f.before = SlotLen(t)
             /\ AllLead(dir, t, f.node.at)
  <2>1. FrameOK(f) /\ f.before = SlotLen(t)
    <3>1. FrameOK(f) /\ f.before = IF 1 = Len(s) THEN 0 ELSE s[1 + 1].len + 1
      BY <1>1, <1>5 DEF StackOK
    <3>2. CASE t = <<>>
      BY <1>1, <3>1, <3>2 DEF SlotLen
    <3>3. CASE t # <<>>
      <4>1. 1 \in DOMAIN t /\ 1 # Len(s)
        BY <1>1, <3>3
      <4> QED BY <1>1, <3>1, <3>3, <4>1 DEF SlotLen
    <3> QED BY <3>2, <3>3
  <2>2. AllLead(dir, t, f.node.at)
    <3> SUFFICES ASSUME NEW i \in DOMAIN t PROVE Leads(dir, t[i], f.node.at)
      BY DEF AllLead
    <3>1. 1 < i + 1
      BY <1>1
    <3> QED BY <1>1, <1>5, <3>1 DEF StackOK
  <2>3. ASSUME NEW i \in DOMAIN t
        PROVE  /\ FrameOK(t[i])
               /\ t[i].before = IF i = Len(t) THEN 0 ELSE t[i + 1].len + 1
    <3>1. /\ FrameOK(s[i + 1])
          /\ s[i + 1].before = IF i + 1 = Len(s) THEN 0 ELSE s[(i + 1) + 1].len + 1
      BY <1>1, <1>5 DEF StackOK
    <3>2. i + 1 = Len(s) <=> i = Len(t)
      BY <1>1
    <3>3. i # Len(t) => i + 1 \in DOMAIN t
      BY <1>1
    <3> QED BY <1>1, <3>1, <3>2, <3>3
  <2>4. ASSUME NEW i \in DOMAIN t, NEW j \in DOMAIN t, j < i
        PROVE  Leads(dir, t[i], t[j].node.at)
    <3>1. j + 1 < i + 1
      BY <1>1, <2>4
    <3> QED BY <1>1, <1>5, <3>1 DEF StackOK
  <2> QED BY <1>1, <2>1, <2>2, <2>3, <2>4 DEF StackOK
<1>6. ASSUME StackOK(dir, t), FrameOK(f), f.before = SlotLen(t), AllLead(dir, t, f.node.at)
      PROVE  StackOK(dir, s)
  <2>1. ASSUME NEW i \in DOMAIN s
        PROVE  /\ FrameOK(s[i])
               /\ s[i].before = IF i = Len(s) THEN 0 ELSE s[i + 1].len + 1
    <3>1. CASE i = 1
      <4>1. CASE t = <<>>
        BY <1>1, <1>6, <3>1, <4>1 DEF SlotLen
      <4>2. CASE t # <<>>
        <5>1. 1 \in DOMAIN t /\ 1 # Len(s)
          BY <1>1, <4>2
        <5> QED BY <1>1, <1>6, <3>1, <4>2, <5>1 DEF SlotLen
      <4> QED BY <4>1, <4>2
    <3>2. CASE i # 1
      <4> DEFINE j == i - 1
      <4>1. j \in DOMAIN t /\ s[i] = t[j]
        BY <1>1, <3>2
      <4>2. /\ FrameOK(t[j])
            /\ t[j].before = IF j = Len(t) THEN 0 ELSE t[j + 1].len + 1
        BY <1>6, <4>1 DEF StackOK
      <4>3. (j = Len(t) <=> i = Len(s)) /\ j + 1 = i
        BY <1>1, <4>1
      <4>4. i # Len(s) => i \in DOMAIN t
        BY <1>1, <4>1, <4>3
      <4>5. i # Len(s) => t[i] = s[i + 1]
        BY <1>1, <4>4
      <4> QED BY <4>1, <4>2, <4>3, <4>5
    <3> QED BY <3>1, <3>2
  <2>2. ASSUME NEW i \in DOMAIN s, NEW j \in DOMAIN s, j < i
        PROVE  Leads(dir, s[i], s[j].node.at)
    <3>1. i # 1
      BY <1>1, <2>2
    <3>2. i - 1 \in DOMAIN t /\ s[i] = t[i - 1]
      BY <1>1, <3>1
    <3>3. CASE j = 1
      BY <1>1, <1>6, <3>2, <3>3 DEF AllLead
    <3>4. CASE j # 1
      <4>1. j - 1 \in DOMAIN t /\ s[j] = t[j - 1] /\ j - 1 < i - 1
        BY <1>1, <2>2, <3>4
      <4> QED BY <1>6, <3>2, <4>1 DEF StackOK
    <3> QED BY <3>3, <3>4
  <2> QED BY <1>1, <2>1, <2>2 DEF StackOK
<1> QED BY <1>2, <1>3, <1>4, <1>5, <1>6

\* A frame is pushed.
LEMMA StackPush ==
  ASSUME NEW dir, NEW s, NEW f, NEW t, ConsIs(s, f, t),
         StackOK(dir, t), FrameOK(f), f.before = SlotLen(t), AllLead(dir, t, f.node.at)
  PROVE  StackOK(dir, s)
<1>1. StackOK(dir, s) <=>
        /\ StackOK(dir, t) /\ FrameOK(f) /\ f.before = SlotLen(t)
        /\ AllLead(dir, t, f.node.at)
  BY StackCons
<1> QED BY <1>1

\* What the stack owes.
LEMMA OwedCons ==
  ASSUME NEW dir, NEW s, NEW f, NEW t, ConsIs(s, f, t), NEW k
  PROVE  Owed(dir, s, k) <=> Owes(dir, f, k) \/ Owed(dir, t, k)
  BY StackCons

\* What the stack leads to.
LEMMA LeadCons ==
  ASSUME NEW dir, NEW s, NEW f, NEW t, ConsIs(s, f, t), NEW path,
         Leads(dir, f, path), AllLead(dir, t, path)
  PROVE  AllLead(dir, s, path) /\ SlotLen(s) = f.len + 1
<1>1. AllLead(dir, s, path) <=> Leads(dir, f, path) /\ AllLead(dir, t, path)
  BY StackCons
<1>2. SlotLen(s) = f.len + 1
  BY StackCons
<1> QED BY <1>1, <1>2

\* A path behind an edge of a node is behind the node.
LEMMA LeadsStarts ==
  ASSUME NEW dir, NEW f \in Frames, NEW path \in Path, Leads(dir, f, path)
  PROVE  /\ f.node \in InnerRefs /\ f.node.at \in Path
         /\ Starts(f.node.at, path) /\ Len(f.node.at) < Len(path)
         /\ \A k \in Path : Starts(path, k) => Leads(dir, f, k)
<1>1. f.node \in InnerRefs /\ f.node.at \in Path
  BY RefKinds DEF Frames
<1>2. PICK c \in Byte : /\ Starts(Append(f.node.at, c), path)
                        /\ \A b \in f.todo : Sooner(dir, c, b)
  BY DEF Leads
<1>3. Append(f.node.at, c) \in Path
  BY <1>1, AppendStarts
<1>4. Starts(f.node.at, path) /\ Len(f.node.at) < Len(path)
  BY <1>1, <1>2, AppendStarts
<1>5. \A k \in Path : Starts(path, k) => Leads(dir, f, k)
  BY <1>2, <1>3, StartsOrder DEF Leads
<1> QED BY <1>1, <1>4, <1>5

\* So for all frames.
LEMMA AllLeadStarts ==
  ASSUME NEW dir, NEW s \in Seq(Frames), NEW path \in Path, AllLead(dir, s, path)
  PROVE  /\ \A i \in DOMAIN s : Starts(s[i].node.at, path) /\ s[i].node.at \in Path
         /\ \A k \in Path : Starts(path, k) => AllLead(dir, s, k)
<1>1. \A i \in DOMAIN s : s[i] \in Frames
  BY ConsOf
<1>2. \A i \in DOMAIN s : Starts(s[i].node.at, path) /\ s[i].node.at \in Path
  BY <1>1, LeadsStarts DEF AllLead
<1>3. \A k \in Path : Starts(path, k) => AllLead(dir, s, k)
  BY <1>1, LeadsStarts DEF AllLead
<1> QED BY <1>2, <1>3

\* The order of the loop.
Comes(dir, k, j) == IF dir = "up" THEN Less(k, j) ELSE Less(j, k)

\* Whatever the frames owe comes after what is behind the edges they have taken.
LEMMA OwedLater ==
  ASSUME NEW dir, NEW s \in Seq(Frames), NEW k \in Path, AllLead(dir, s, k),
         \A i \in DOMAIN s : s[i].todo \subseteq Byte,
         NEW j \in Path, Owed(dir, s, j)
  PROVE  Comes(dir, k, j)
<1>1. PICK i \in DOMAIN s : Owes(dir, s[i], j)
  BY DEF Owed
<1> DEFINE f == s[i]
<1>2. f \in Frames /\ f.todo \subseteq Byte /\ Leads(dir, f, k)
  BY ConsOf DEF AllLead
<1>3. f.node.at \in Path /\ Starts(f.node.at, k) /\ Len(f.node.at) < Len(k)
  BY <1>2, LeadsStarts
<1> HIDE DEF f
<1>4. PICK c \in Byte : /\ Starts(Append(f.node.at, c), k)
                        /\ \A b \in f.todo : Sooner(dir, c, b)
  BY <1>2 DEF Leads
<1>5. CASE \E b \in f.todo : Starts(Append(f.node.at, b), j)
  <2>1. PICK b \in f.todo : Starts(Append(f.node.at, b), j)
    BY <1>5
  <2>2. b \in Byte /\ Sooner(dir, c, b)
    BY <1>2, <1>4, <2>1
  <2> QED BY <1>3, <1>4, <2>1, <2>2, LessEdges DEF Sooner, Comes
<1>6. CASE dir = "down" /\ j = f.node.at
  <2>1. j # k /\ Starts(j, k)
    BY <1>3, <1>6, Lengths
  <2>2. Less(j, k)
    BY <2>1, LessEdges
  <2> QED BY <1>6, <2>2 DEF Comes
<1> QED BY <1>1, <1>5, <1>6 DEF Owes, f
-----------------------------------------------------------------------------
(***************************************************************************)
(* Steps.                                                                  *)
(***************************************************************************)
TreeOK == stored \in SUBSET Path /\ Whole(nodes, stored, root)

\* A whole tree, seen from its nodes.
LEMMA TreeFacts ==
  ASSUME TreeOK
  PROVE  /\ stored \in SUBSET Path /\ Linked(nodes, stored, <<>>)
         /\ SlotOK(nodes, stored, root, <<>>)
         /\ DOMAIN nodes \subseteq InnerRefs
         /\ \A r \in DOMAIN nodes :
              /\ r.at \in Path /\ nodes[r].prefix \in Path
              /\ DOMAIN nodes[r].children \subseteq Byte
              /\ nodes[r].terminal = IF r.at \in stored THEN Leaf(r.at) ELSE nil
              /\ \A b \in DOMAIN nodes[r].children :
                   SlotOK(nodes, stored, nodes[r].children[b], Append(r.at, b))
<1>1. /\ stored \in SUBSET Path /\ Linked(nodes, stored, <<>>)
      /\ SlotOK(nodes, stored, root, <<>>)
  BY DEF TreeOK, Whole
<1>2. DOMAIN nodes \subseteq InnerRefs
  BY <1>1, LinkedTypes
<1>3. ASSUME NEW r \in DOMAIN nodes
      PROVE  /\ r.at \in Path /\ nodes[r].prefix \in Path
             /\ DOMAIN nodes[r].children \subseteq Byte
             /\ nodes[r].terminal = IF r.at \in stored THEN Leaf(r.at) ELSE nil
             /\ \A b \in DOMAIN nodes[r].children :
                  SlotOK(nodes, stored, nodes[r].children[b], Append(r.at, b))
  <2>1. NodeOK(nodes, stored, r) /\ r.at \in Path
    BY <1>1, <1>2, RefKinds DEF Linked
  <2>2. nodes[r].prefix \in Path /\ DOMAIN nodes[r].children \subseteq Byte
    BY <2>1 DEF NodeOK
  <2>3. nodes[r].terminal = IF r.at \in stored THEN Leaf(r.at) ELSE nil
    BY <2>1 DEF NodeOK
  <2>4. ASSUME NEW b \in DOMAIN nodes[r].children
        PROVE  SlotOK(nodes, stored, nodes[r].children[b], Append(r.at, b))
    <3>1. b \in Byte /\ Append(r.at, b) # <<>>
      BY <2>1, <2>2, AppendStarts
    <3>2. SlotOK(nodes, stored, ChildIn(nodes, r, b), Append(r.at, b))
      BY <1>1, <3>1 DEF Linked
    <3> QED BY <3>2 DEF ChildIn
  <2> QED BY <2>1, <2>2, <2>3, <2>4
<1> QED BY <1>1, <1>2, <1>3

\* A start and the rest give the string back.
LEMMA Rejoins ==
  ASSUME NEW p \in Path, NEW q \in Path, Starts(p, q)
  PROVE  p \o From(q, Len(p)) = q
<1> DEFINE d == Len(p)
           x == From(q, d)
           u == p \o x
<1>1. d \in Nat /\ Len(q) \in Nat /\ d \in 0 .. Len(q)
  BY Lengths, StartsOrder
<1>2. x \in Path /\ Len(x) = Len(q) - d /\ \A j \in 1 .. Len(q) - d : x[j] = q[d + j]
  BY <1>1, FromBytes
<1> HIDE DEF x
<1>3. /\ u \in Path /\ Len(u) = Len(p) + Len(x)
      /\ \A i \in 1 .. Len(p) + Len(x) : u[i] = IF i <= Len(p) THEN p[i] ELSE x[i - Len(p)]
  BY <1>2 DEF Path
<1> HIDE DEF u
<1>4. ASSUME NEW i \in 1 .. Len(q) PROVE u[i] = q[i]
  <2>1. CASE i <= d
    <3>1. i \in 1 .. Len(p) /\ i \in 1 .. Len(p) + Len(x)
      BY <1>1, <1>2, <2>1
    <3> QED BY <1>3, <2>1, <3>1, StartsBytewise
  <2>2. CASE d < i
    <3>1. /\ i - d \in 1 .. Len(q) - d /\ d + (i - d) = i
          /\ i \in 1 .. Len(p) + Len(x) /\ ~ (i <= Len(p))
      BY <1>1, <1>2, <2>2
    <3> QED BY <1>2, <1>3, <3>1
  <2> QED BY <1>1, <2>1, <2>2
<1>5. Len(u) = Len(q)
  BY <1>1, <1>2, <1>3
<1>6. u = q
  BY <1>3, <1>4, <1>5, SameString
<1> QED BY <1>6 DEF u, x, d

\* The fields of a walk, and of the walks that the actions make of it.
Made(v, phase, dir, start, end, cur, path, stack, ret, given, broke) ==
  /\ DOMAIN v = FieldNames
  /\ v.phase = phase /\ v.dir = dir /\ v.start = start /\ v.end = end /\ v.cur = cur
  /\ v.path = path /\ v.stack = stack /\ v.ret = ret /\ v.given = given /\ v.broke = broke

\* The walk ends a subtree ...
LEMMA EndsMakes ==
  ASSUME NEW w, DOMAIN w = FieldNames, NEW ret
  PROVE  Made(Ends(w, ret), "return", w.dir, w.start, w.end, w.cur, w.path, w.stack,
              ret, w.given, w.broke)
  BY DEF Ends, Made, FieldNames

\* ... gives a frame up ...
LEMMA PopsMakes ==
  ASSUME NEW w, DOMAIN w = FieldNames, NEW ret
  PROVE  Made(Pops(w, ret), "return", w.dir, w.start, w.end, w.cur,
              Upto(w.path, Head(w.stack).before), Tail(w.stack), ret, w.given, w.broke)
  BY DEF Ends, Pops, Made, FieldNames

\* ... gives a key ...
LEMMA YieldsMakes ==
  ASSUME NEW w, DOMAIN w = FieldNames, NEW k, NEW goOn
  PROVE  Made(Yields(w, k, goOn), w.phase, w.dir, w.start, w.end, w.cur, w.path, w.stack,
              w.ret, w.given \cup {k}, ~ goOn)
  BY DEF Yields, Made, FieldNames

\* ... or goes on.
LEMMA PhaseMakes ==
  ASSUME NEW w, DOMAIN w = FieldNames, NEW phase
  PROVE  Made([w EXCEPT !.phase = phase], phase, w.dir, w.start, w.end, w.cur, w.path,
              w.stack, w.ret, w.given, w.broke)
  BY DEF Made, FieldNames

\* The same loop, with the same keys given.
SameLoop(w, v) == v.dir = w.dir /\ v.start = w.start /\ v.end = w.end
SameGiven(w, v) == v.given = w.given /\ v.broke = w.broke

\* The first frame, the others, and the buffer.
First(dir, s, path, f, t) ==
  /\ ConsIs(s, f, t) /\ FrameOK(f) /\ f.node \in DOMAIN nodes /\ f.node.at \in Path
  /\ StackOK(dir, t) /\ f.before = SlotLen(t) /\ AllLead(dir, t, f.node.at)
  /\ Starts(f.node.at, path) /\ Upto(path, f.len) = f.node.at
  /\ Upto(path, f.before) \in Path /\ OnPath(t, Upto(path, f.before))

\* It is what the invariant says of a stack that is not empty.
LEMMA FirstFrame ==
  ASSUME TreeOK, NEW dir, NEW s, StackOK(dir, s), s # <<>>,
         NEW path \in Path, OnPath(s, path), NEW f, f = Head(s), NEW t, t = Tail(s)
  PROVE  First(dir, s, path, f, t)
<1>1. s \in Seq(Frames)
  BY DEF StackOK
<1>2. ConsIs(s, f, t)
  BY <1>1, Splits
<1>3. StackOK(dir, t) /\ FrameOK(f) /\ f.before = SlotLen(t) /\ AllLead(dir, t, f.node.at)
  <2>1. StackOK(dir, s) <=>
          /\ StackOK(dir, t) /\ FrameOK(f) /\ f.before = SlotLen(t)
          /\ AllLead(dir, t, f.node.at)
    BY ONLY <1>2, StackCons
  <2> QED BY <2>1
<1>4. f.node \in DOMAIN nodes /\ f.node.at \in Path /\ nodes[f.node].prefix \in Path
  BY <1>3, TreeFacts DEF FrameOK
<1>5. Starts(f.node.at, path) /\ f = s[1]
  BY <1>2, Indices DEF OnPath, ConsIs
<1>6. Upto(path, f.len) = f.node.at
  BY <1>3, <1>4, <1>5, UptoOfStart DEF FrameOK
<1>7. /\ f.before \in Nat /\ f.before <= f.len /\ f.len <= Len(path) /\ Len(path) \in Nat
      /\ f.len = Len(f.node.at) /\ f.len \in Nat
  <2>1. f.before \in Nat /\ f.len \in Nat /\ f.len = Len(f.node.at)
        /\ f.len = f.before + Len(nodes[f.node].prefix)
    BY <1>3 DEF FrameOK, Frames
  <2>2. Len(nodes[f.node].prefix) \in Nat /\ Len(f.node.at) <= Len(path) /\ Len(path) \in Nat
    BY <1>4, <1>5, Lengths, StartsOrder
  <2> QED BY <2>1, <2>2
<1> DEFINE u == Upto(path, f.before)
<1>8. u \in Path /\ Len(u) = f.before /\ Starts(u, path)
  <2>1. f.before \in 0 .. Len(path)
    BY <1>7
  <2> QED BY <2>1, UptoStarts
<1> HIDE DEF u
<1>9. Starts(u, f.node.at)
  BY <1>4, <1>5, <1>7, <1>8, StartsOrder
<1>10. t \in Seq(Frames)
  BY <1>3 DEF StackOK
<1>11. OnPath(t, u)
  <2>1. CASE t = <<>>
    <3>1. Len(u) = 0
      BY <1>3, <1>8, <2>1 DEF SlotLen
    <3>2. u = <<>>
      BY <1>8, <3>1, StartsOrder
    <3>3. DOMAIN t = {}
      BY <2>1
    <3> QED BY <3>2, <3>3 DEF OnPath
  <2>2. CASE t # <<>>
    <3>1. /\ DOMAIN t = 1 .. Len(t) /\ Len(t) \in Nat /\ Len(t) # 0
          /\ \A i \in DOMAIN t : t[i] \in Frames
      BY <1>10, <2>2, ConsOf
    <3>2. 1 \in DOMAIN t
      BY ONLY <3>1
    <3>3. f.before = Len(t[1].node.at) + 1
      BY <1>3, <2>2, <3>2 DEF SlotLen, StackOK, FrameOK
    <3>4. ASSUME NEW i \in DOMAIN t
          PROVE  Starts(t[i].node.at, u)
      <4>1. t[i].node.at \in Path /\ Starts(t[i].node.at, f.node.at)
        BY <1>3, <1>4, <1>10, AllLeadStarts
      <4>2. Len(t[i].node.at) \in Nat /\ Len(t[1].node.at) \in Nat
        BY <1>3, <1>4, <1>10, <3>2, <4>1, AllLeadStarts, Lengths
      <4>3. Len(t[i].node.at) <= Len(t[1].node.at)
        <5>1. CASE i = 1
          BY <4>2, <5>1
        <5>2. CASE i # 1
          <6>1. 1 < i
            BY <3>1, <5>2
          <6>2. Leads(dir, t[i], t[1].node.at)
            BY <1>3, <3>2, <6>1 DEF StackOK
          <6>3. Len(t[i].node.at) < Len(t[1].node.at)
            <7>1. t[i] \in Frames /\ t[1].node.at \in Path
              BY <1>3, <1>4, <1>10, <3>1, <3>2, AllLeadStarts
            <7> QED BY <6>2, <7>1, LeadsStarts
          <6> QED BY <4>2, <6>3
        <5> QED BY <5>1, <5>2
      <4>4. Len(t[i].node.at) <= Len(u)
        BY <1>8, <3>3, <4>2, <4>3
      <4> QED BY <1>4, <1>8, <1>9, <4>1, <4>4, StartsOrder
    <3> QED BY <2>2, <3>4 DEF OnPath
  <2> QED BY <2>1, <2>2
<1> QED BY <1>2, <1>3, <1>4, <1>5, <1>6, <1>8, <1>11 DEF u, First

\* A frame ends: the walk goes on with the frames below it.
LEMMA Popped ==
  ASSUME TreeOK, NEW w, WalkTypes(w), StackOK(w.dir, w.stack), w.stack # <<>>,
         OnPath(w.stack, w.path), w.given \subseteq Wanted(w),
         NEW ret \in BOOLEAN, NEW v, v = Pops(w, ret),
         IF ret THEN ~ w.broke /\ \A k \in Wanted(w) :
                       k \notin w.given <=> Owed(w.dir, Tail(w.stack), k)
                ELSE w.broke \/ Wanted(w) \subseteq w.given
  PROVE  WalkOK(v) /\ v.phase = "return" /\ SameLoop(w, v) /\ SameGiven(w, v)
<1> DEFINE u == Upto(w.path, Head(w.stack).before)
           t == Tail(w.stack)
<1>1. Made(v, "return", w.dir, w.start, w.end, w.cur, u, t, ret, w.given, w.broke)
  BY PopsMakes DEF WalkTypes
<1>2. w.path \in Path
  BY DEF WalkTypes
<1>3. StackOK(w.dir, t) /\ u \in Path /\ OnPath(t, u)
  BY <1>2, FirstFrame DEF First
<1> HIDE DEF u, t
<1>4. /\ v.phase = "return" /\ v.dir = w.dir /\ v.start = w.start /\ v.end = w.end
      /\ v.cur = w.cur /\ v.path = u /\ v.stack = t /\ v.ret = ret
      /\ v.given = w.given /\ v.broke = w.broke /\ DOMAIN v = FieldNames
  BY <1>1 DEF Made
<1>5. WalkTypes(v)
  BY <1>3, <1>4 DEF WalkTypes, Phases
<1>6. Wanted(v) = Wanted(w)
  BY <1>4 DEF Wanted
<1>7. \A k : Debt(v, k) <=> Owed(w.dir, t, k)
  BY <1>4 DEF Debt
<1>8. Settled(v)
  BY <1>4, <1>6, <1>7 DEF Settled, t
<1>9. Walking(v)
  BY <1>3, <1>4, <1>6, <1>8 DEF Walking
<1> QED BY <1>4, <1>5, <1>9 DEF WalkOK, SameLoop, SameGiven

\* A subtree ends without a frame of its own.
LEMMA Ended ==
  ASSUME TreeOK, NEW w, WalkTypes(w), StackOK(w.dir, w.stack),
         OnPath(w.stack, w.path), w.given \subseteq Wanted(w),
         NEW ret \in BOOLEAN, NEW v, v = Ends(w, ret),
         IF ret THEN ~ w.broke /\ \A k \in Wanted(w) :
                       k \notin w.given <=> Owed(w.dir, w.stack, k)
                ELSE w.broke \/ Wanted(w) \subseteq w.given
  PROVE  WalkOK(v) /\ v.phase = "return" /\ SameLoop(w, v) /\ SameGiven(w, v)
<1>1. Made(v, "return", w.dir, w.start, w.end, w.cur, w.path, w.stack, ret, w.given, w.broke)
  BY EndsMakes DEF WalkTypes
<1>2. /\ v.phase = "return" /\ v.dir = w.dir /\ v.start = w.start /\ v.end = w.end
      /\ v.cur = w.cur /\ v.path = w.path /\ v.stack = w.stack /\ v.ret = ret
      /\ v.given = w.given /\ v.broke = w.broke /\ DOMAIN v = FieldNames
  BY <1>1 DEF Made
<1>3. WalkTypes(v)
  BY <1>2 DEF WalkTypes, Phases
<1>4. Wanted(v) = Wanted(w)
  BY <1>2 DEF Wanted
<1>5. \A k : Debt(v, k) <=> Owed(w.dir, w.stack, k)
  BY <1>2 DEF Debt
<1>6. Settled(v)
  BY <1>2, <1>4, <1>5 DEF Settled
<1>7. Walking(v)
  BY <1>2, <1>4, <1>6 DEF Walking
<1> QED BY <1>2, <1>3, <1>7 DEF WalkOK, SameLoop, SameGiven

\* The key that comes next in the loop.
NextKey(w, k) ==
  /\ k \in Wanted(w) /\ k \notin w.given
  /\ \A j \in Wanted(w) : j \notin w.given /\ j # k => Comes(w.dir, k, j)

Active(w) == w.phase \notin {"idle", "panicked"}

\* The loop body notices nothing ...
Silent(w, v) == Active(w) /\ Active(v) /\ SameLoop(w, v) /\ SameGiven(w, v)

\* ... or is given the next key, if it has not broken out.
Gave(w, v) ==
  /\ Active(w) /\ Active(v) /\ SameLoop(w, v) /\ ~ w.broke
  /\ \E k : NextKey(w, k) /\ v.given = w.given \cup {k}

StepOK(w, v) == WalkOK(v) /\ (Silent(w, v) \/ Gave(w, v))

\* What a walk knows.
LEMMA WalkFacts ==
  ASSUME WalkOK(walk), Active(walk)
  PROVE  /\ WalkTypes(walk) /\ Walking(walk) /\ walk.path \in Path
         /\ StackOK(walk.dir, walk.stack) /\ walk.stack \in Seq(Frames)
         /\ walk.given \subseteq Wanted(walk) /\ Settled(walk)
         /\ \A i \in DOMAIN walk.stack : walk.stack[i].todo \subseteq Byte
<1>1. WalkTypes(walk) /\ Walking(walk)
  BY DEF WalkOK, Active
<1>2. StackOK(walk.dir, walk.stack) /\ walk.stack \in Seq(Frames)
  BY <1>1 DEF Walking, StackOK
<1>3. \A i \in DOMAIN walk.stack : walk.stack[i].todo \subseteq Byte
  BY <1>2 DEF StackOK, FrameOK, Frames
<1> QED BY <1>1, <1>2, <1>3 DEF WalkTypes, Walking

\* What the frames owe is none of what is behind the slot entered, and comes later.
LEMMA EnterFacts ==
  ASSUME TreeOK, WalkOK(walk), walk.phase = "enter"
  PROVE  /\ Active(walk) /\ SlotOK(nodes, stored, walk.cur, walk.path)
         /\ OnPath(walk.stack, walk.path) /\ Len(walk.path) = SlotLen(walk.stack)
         /\ AllLead(walk.dir, walk.stack, walk.path)
         /\ \A k \in Path : Starts(walk.path, k) =>
              /\ ~ Owed(walk.dir, walk.stack, k)
              /\ \A j \in Path : Owed(walk.dir, walk.stack, j) => Comes(walk.dir, k, j)
         /\ ~ walk.broke
         /\ \A k \in Wanted(walk) : k \notin walk.given <=>
              Starts(walk.path, k) \/ Owed(walk.dir, walk.stack, k)
<1>1. Active(walk)
  BY DEF Active
<1>2. /\ WalkTypes(walk) /\ Walking(walk) /\ walk.path \in Path
      /\ walk.stack \in Seq(Frames)
      /\ \A i \in DOMAIN walk.stack : walk.stack[i].todo \subseteq Byte
  BY <1>1, WalkFacts
<1>3. /\ SlotOK(nodes, stored, walk.cur, walk.path)
      /\ AllLead(walk.dir, walk.stack, walk.path) /\ Len(walk.path) = SlotLen(walk.stack)
  BY <1>2 DEF Walking, Entering
<1>4. OnPath(walk.stack, walk.path)
  <2>1. \A i \in DOMAIN walk.stack : Starts(walk.stack[i].node.at, walk.path)
    BY <1>2, <1>3, AllLeadStarts
  <2>2. walk.stack = <<>> => Len(walk.path) = 0
    BY <1>3 DEF SlotLen
  <2> QED BY <1>2, <2>1, <2>2, StartsOrder DEF OnPath
<1>5. ASSUME NEW k \in Path, Starts(walk.path, k)
      PROVE  /\ ~ Owed(walk.dir, walk.stack, k)
             /\ \A j \in Path : Owed(walk.dir, walk.stack, j) => Comes(walk.dir, k, j)
  <2>1. AllLead(walk.dir, walk.stack, k)
    BY <1>2, <1>3, <1>5, AllLeadStarts
  <2>2. \A j \in Path : Owed(walk.dir, walk.stack, j) => Comes(walk.dir, k, j)
    BY <1>2, <2>1, OwedLater
  <2>3. ~ Comes(walk.dir, k, k)
    BY LessOrder DEF Comes
  <2> QED BY <2>2, <2>3
<1>6. ~ walk.broke /\ \A k \in Wanted(walk) : k \notin walk.given <=>
         Starts(walk.path, k) \/ Owed(walk.dir, walk.stack, k)
  BY <1>2 DEF Walking, Settled, Debt
<1> QED BY <1>1, <1>3, <1>4, <1>5, <1>6

\* An empty slot holds nothing.
LEMMA VisitNilOK ==
  ASSUME TreeOK, WalkOK(walk), VisitNil
  PROVE  StepOK(walk, walk')
<1>1. walk.phase = "enter" /\ walk.cur = nil /\ walk' = Ends(walk, TRUE)
  BY DEF VisitNil
<1>2. Active(walk) /\ OnPath(walk.stack, walk.path) /\ EmptySlot(nodes, stored, walk.path)
  <2>1. stored \in SUBSET Path /\ DOMAIN nodes \subseteq InnerRefs /\ walk.path \in Path
    BY <1>1, TreeFacts, WalkFacts, EnterFacts
  <2> QED BY <1>1, <2>1, EnterFacts, SlotKinds
<1>3. ~ walk.broke /\ \A k \in Wanted(walk) :
         k \notin walk.given <=> Owed(walk.dir, walk.stack, k)
  BY <1>1, <1>2, EnterFacts DEF EmptySlot, Wanted
<1>4. /\ WalkOK(walk') /\ walk'.phase = "return"
      /\ SameLoop(walk, walk') /\ SameGiven(walk, walk')
  BY <1>1, <1>2, <1>3, WalkFacts, Ended
<1> QED BY <1>2, <1>4 DEF StepOK, Silent, Active

\* A leaf is yielded if its key is in the interval.
LEMMA VisitLeafOK ==
  ASSUME TreeOK, WalkOK(walk), VisitLeaf
  PROVE  StepOK(walk, walk')
<1> DEFINE key == walk.cur.at
<1>1. walk.phase = "enter" /\ IsLeaf(walk.cur)
  BY DEF VisitLeaf
<1>2. /\ Active(walk) /\ OnPath(walk.stack, walk.path) /\ stored \in SUBSET Path
      /\ ~ walk.broke /\ walk.path \in Path /\ WalkTypes(walk)
      /\ StackOK(walk.dir, walk.stack) /\ walk.given \subseteq Wanted(walk)
  BY <1>1, EnterFacts, TreeFacts, WalkFacts
<1>3. LeafSlot(nodes, stored, key, walk.path)
  <2>1. DOMAIN nodes \subseteq InnerRefs
    BY TreeFacts
  <2> QED BY <1>1, <1>2, <2>1, EnterFacts, SlotKinds
<1>4. /\ key \in stored /\ Starts(walk.path, key)
      /\ \A k \in stored : Starts(walk.path, k) => k = key
  BY <1>3 DEF LeafSlot
<1>5. /\ ~ Owed(walk.dir, walk.stack, key)
      /\ \A j \in Path : Owed(walk.dir, walk.stack, j) => Comes(walk.dir, key, j)
  BY <1>1, <1>2, <1>4, EnterFacts
<1>6. \A k \in Wanted(walk) : k \notin walk.given <=>
         k = key \/ Owed(walk.dir, walk.stack, k)
  BY <1>1, <1>4, EnterFacts DEF Wanted
<1> HIDE DEF key
<1>7. CASE ~ KeyInRange(key, walk.start, walk.end)
  <2>1. walk' = Ends(walk, TRUE)
    BY <1>7 DEF VisitLeaf, key
  <2>2. key \notin Wanted(walk)
    BY <1>7 DEF Wanted
  <2>3. \A k \in Wanted(walk) : k \notin walk.given <=> Owed(walk.dir, walk.stack, k)
    BY <1>6, <2>2
  <2>4. /\ WalkOK(walk') /\ walk'.phase = "return"
        /\ SameLoop(walk, walk') /\ SameGiven(walk, walk')
    BY <1>2, <2>1, <2>3, Ended
  <2> QED BY <1>2, <2>4 DEF StepOK, Silent, Active
<1>8. CASE KeyInRange(key, walk.start, walk.end)
  <2>1. PICK goOn \in BOOLEAN : walk' = Ends(Yields(walk, key, goOn), goOn)
    BY <1>8 DEF VisitLeaf, key
  <2> DEFINE y == Yields(walk, key, goOn)
  <2>2. key \in Wanted(walk) /\ key \notin walk.given
    BY <1>4, <1>6, <1>8 DEF Wanted
  <2>3. NextKey(walk, key)
    BY <1>2, <1>5, <1>6, <2>2 DEF NextKey, Wanted
  <2>4. /\ y.phase = walk.phase /\ y.dir = walk.dir /\ y.start = walk.start /\ y.end = walk.end
        /\ y.path = walk.path /\ y.stack = walk.stack /\ y.ret = walk.ret
        /\ y.given = walk.given \cup {key} /\ y.broke = ~ goOn /\ DOMAIN y = FieldNames
    BY <1>2, YieldsMakes DEF Made, WalkTypes
  <2>5. walk' = Ends(y, goOn)
    BY <2>1
  <2> HIDE DEF y
  <2>6. WalkTypes(y)
    BY <1>2, <2>4 DEF WalkTypes
  <2>7. Wanted(y) = Wanted(walk)
    BY <2>4 DEF Wanted
  <2>8. \A k \in Wanted(y) : k \notin y.given <=> Owed(y.dir, y.stack, k)
    BY <1>5, <1>6, <2>4, <2>7
  <2>9. /\ WalkOK(walk') /\ walk'.phase = "return" /\ SameLoop(y, walk') /\ SameGiven(y, walk')
    <3>1. StackOK(y.dir, y.stack) /\ OnPath(y.stack, y.path) /\ y.given \subseteq Wanted(y)
      BY <1>2, <2>2, <2>4, <2>7
    <3>2. y.broke = ~ goOn
      BY <2>4
    <3> QED BY <2>5, <2>6, <2>8, <3>1, <3>2, Ended
  <2>10. Gave(walk, walk')
    BY <1>2, <2>3, <2>4, <2>9 DEF Gave, Active, SameLoop, SameGiven
  <2> QED BY <2>9, <2>10 DEF StepOK
<1> QED BY <1>7, <1>8

\* The terminal that a walk yields on its first frame.
LEMMA DueIs ==
  ASSUME TreeOK, NEW w, NEW f, f = Head(w.stack), f.node \in DOMAIN nodes,
         Upto(w.path, f.len) = f.node.at
  PROVE  \A k : k \in DueTerminal(w) <=> k = f.node.at /\ k \in Wanted(w)
<1> DEFINE at == f.node.at
           t == nodes[f.node].terminal
<1>1. /\ stored \in SUBSET Path /\ at \in Path
      /\ t = IF at \in stored THEN Leaf(at) ELSE nil
  BY TreeFacts
<1>2. \A k : k \in DueTerminal(w) <=>
        k \in stored /\ t = Leaf(k) /\ KeyInRange(at, w.start, w.end)
  BY DEF DueTerminal
<1> HIDE DEF at, t
<1>3. \A k \in stored : t = Leaf(k) <=> k = at
  <2>1. \A k \in stored : Leaf(k) # nil /\ Leaf(k).at = k
    BY <1>1, RefKinds
  <2> QED BY <1>1, <2>1
<1> QED BY <1>2, <1>3 DEF Wanted, at

\* A walk between the edges of its first frame.
LEMMA EdgesOK ==
  ASSUME NEW v, WalkTypes(v), v.phase = "edges", StackOK(v.dir, v.stack),
         v.stack # <<>>, OnPath(v.stack, v.path), v.given \subseteq Wanted(v), ~ v.broke,
         \A k \in Wanted(v) : k \notin v.given <=> Owed(v.dir, v.stack, k)
  PROVE  WalkOK(v)
<1>1. Settled(v)
  BY DEF Settled, Debt
<1>2. Walking(v)
  BY <1>1 DEF Walking
<1> QED BY <1>2 DEF WalkOK

\* The frame that an inner node is given.
LEMMA FrameMade ==
  ASSUME TreeOK, WalkOK(walk), walk.phase = "enter", IsInner(walk.cur),
         NEW f, f = [node |-> walk.cur, before |-> Len(walk.path), len |-> Len(walk.cur.at),
                     todo |-> DOMAIN nodes[walk.cur].children],
         NEW s, s = <<f>> \o walk.stack
  PROVE  /\ NodeSlot(nodes, stored, walk.cur, walk.path)
         /\ walk.path \o nodes[walk.cur].prefix = walk.cur.at
         /\ walk.cur.at \in Path /\ f \in Frames
         /\ ConsIs(s, f, walk.stack) /\ Head(s) = f /\ Tail(s) = walk.stack /\ s # <<>>
         /\ StackOK(walk.dir, s) /\ OnPath(s, walk.cur.at)
<1> DEFINE cur == walk.cur
           at == cur.at
           path == walk.path
<1>1. /\ walk.stack \in Seq(Frames) /\ path \in Path /\ StackOK(walk.dir, walk.stack)
      /\ Len(path) = SlotLen(walk.stack) /\ AllLead(walk.dir, walk.stack, path)
  BY EnterFacts, WalkFacts
<1>2. NodeSlot(nodes, stored, cur, path)
  <2>1. stored \in SUBSET Path /\ DOMAIN nodes \subseteq InnerRefs
        /\ SlotOK(nodes, stored, cur, path)
    BY TreeFacts, EnterFacts
  <2> QED BY <1>1, <2>1, SlotKinds
<1>3. /\ cur \in DOMAIN nodes /\ Starts(path, at) /\ cur \in InnerRefs /\ at \in Path
      /\ nodes[cur].prefix = From(at, Len(path)) /\ DOMAIN nodes[cur].children \subseteq Byte
  BY <1>2, TreeFacts DEF NodeSlot
<1>4. path \o nodes[cur].prefix = at
  BY <1>1, <1>3, Rejoins
<1>5. Len(path) \in Nat /\ Len(at) \in Nat /\ Len(at) = Len(path) + Len(nodes[cur].prefix)
  <2>1. Len(path) \in 0 .. Len(at) /\ Len(at) \in Nat /\ Len(path) \in Nat
    BY <1>1, <1>3, StartsOrder, Lengths
  <2>2. Len(From(at, Len(path))) = Len(at) - Len(path)
    BY <1>3, <2>1, FromBytes
  <2> QED BY <1>3, <2>1, <2>2
<1>6. /\ f.node = cur /\ f.before = Len(path) /\ f.len = Len(at)
      /\ f.todo = DOMAIN nodes[cur].children
  OBVIOUS
<1>7. f \in Frames
  BY <1>3, <1>5 DEF Frames
<1>8. FrameOK(f)
  BY <1>3, <1>5, <1>6, <1>7 DEF FrameOK
<1>9. ConsIs(s, f, walk.stack) /\ Head(s) = f /\ Tail(s) = walk.stack /\ s # <<>>
  <2>1. /\ s \in Seq(Frames) /\ s # <<>> /\ Len(s) = Len(walk.stack) + 1
        /\ s[1] = f /\ \A i \in 1 .. Len(walk.stack) : s[i + 1] = walk.stack[i]
        /\ Head(s) = f /\ Tail(s) = walk.stack
    BY <1>1, <1>7, Cons
  <2> QED BY <1>1, <1>7, <2>1 DEF ConsIs
<1>10. AllLead(walk.dir, walk.stack, at)
  BY <1>1, <1>3, AllLeadStarts
<1>11. StackOK(walk.dir, s)
  <2>1. /\ ConsIs(s, f, walk.stack) /\ StackOK(walk.dir, walk.stack) /\ FrameOK(f)
        /\ f.before = SlotLen(walk.stack) /\ AllLead(walk.dir, walk.stack, f.node.at)
    BY <1>1, <1>6, <1>8, <1>9, <1>10
  <2> HIDE DEF at, cur, path
  <2> QED BY ONLY <2>1, StackPush
<1>12. OnPath(s, at)
  <2>1. \A i \in DOMAIN walk.stack : Starts(walk.stack[i].node.at, at)
    BY <1>1, <1>3, <1>10, AllLeadStarts
  <2>2. Starts(f.node.at, at)
    BY <1>3, <1>6, StartsOrder
  <2>3. \A i \in DOMAIN s : i = 1 \/ (i - 1 \in DOMAIN walk.stack /\ s[i] = walk.stack[i - 1])
    BY <1>9, Indices
  <2>4. s[1] = f
    BY <1>9 DEF ConsIs
  <2> QED BY <1>9, <2>1, <2>2, <2>3, <2>4 DEF OnPath
<1> QED BY <1>2, <1>3, <1>4, <1>7, <1>9, <1>11, <1>12

\* An inner node: upwards its own key is given first.
LEMMA VisitInnerOK ==
  ASSUME TreeOK, WalkOK(walk), VisitInner
  PROVE  StepOK(walk, walk')
<1> DEFINE cur == walk.cur
           at == cur.at
           f == [node |-> cur, before |-> Len(walk.path), len |-> Len(at),
                 todo |-> DOMAIN nodes[cur].children]
           s == <<f>> \o walk.stack
           w == [walk EXCEPT !.path = at, !.phase = "edges", !.stack = s]
<1>1. walk.phase = "enter" /\ IsInner(cur)
  BY DEF VisitInner
<1>2. /\ NodeSlot(nodes, stored, cur, walk.path) /\ at \in Path /\ f \in Frames
      /\ walk.path \o nodes[cur].prefix = at
      /\ ConsIs(s, f, walk.stack) /\ Head(s) = f /\ Tail(s) = walk.stack /\ s # <<>>
      /\ StackOK(walk.dir, s) /\ OnPath(s, at)
  BY <1>1, FrameMade
<1>3. \/ /\ walk.dir = "down" \/ DueTerminal(w) = {}
         /\ walk' = w
      \/ /\ walk.dir = "up"
         /\ \E k \in DueTerminal(w) :
              \/ walk' = Yields(w, k, TRUE)
              \/ walk' = Pops(Yields(w, k, FALSE), FALSE)
  BY <1>2 DEF VisitInner
<1>4. f.node = cur /\ f.len = Len(at) /\ f.todo = DOMAIN nodes[cur].children
  OBVIOUS
<1>5. /\ Active(walk) /\ WalkTypes(walk) /\ ~ walk.broke /\ walk.given \subseteq Wanted(walk)
      /\ walk.path \in Path /\ stored \in SUBSET Path
  BY <1>1, EnterFacts, WalkFacts, TreeFacts
<1> HIDE DEF f, s
<1>6. /\ w.phase = "edges" /\ w.dir = walk.dir /\ w.start = walk.start /\ w.end = walk.end
      /\ w.path = at /\ w.stack = s /\ w.ret = walk.ret
      /\ w.given = walk.given /\ w.broke = walk.broke /\ DOMAIN w = FieldNames
  BY <1>5 DEF WalkTypes, FieldNames
<1> HIDE DEF w
<1>7. WalkTypes(w) /\ Wanted(w) = Wanted(walk)
  BY <1>2, <1>5, <1>6 DEF WalkTypes, Phases, Wanted
<1>8. cur \in DOMAIN nodes /\ Starts(walk.path, at)
  BY <1>2 DEF NodeSlot
<1>9. \A k : k \in DueTerminal(w) <=> k = at /\ k \in Wanted(walk)
  <2>1. f = Head(w.stack) /\ f.node \in DOMAIN nodes /\ Upto(w.path, f.len) = f.node.at
    BY <1>2, <1>4, <1>6, <1>8, UptoOfStart, StartsOrder
  <2>2. \A k : k \in DueTerminal(w) <=> k = f.node.at /\ k \in Wanted(w)
    BY <2>1, DueIs
  <2> QED BY <1>4, <1>7, <2>2
\* What is behind the slot is the node's own key, or behind one of its edges.
<1>10. ASSUME NEW k \in stored
       PROVE  Starts(walk.path, k) <=> k = at \/ \E b \in f.todo : Starts(Append(at, b), k)
  <2>1. ASSUME Starts(walk.path, k), k # at
        PROVE  \E b \in f.todo : Starts(Append(at, b), k)
    <3>1. Linked(nodes, stored, walk.path)
      BY TreeFacts, AnyHole
    <3>2. PICK b \in Byte : Starts(Append(at, b), k) /\ ChildIn(nodes, cur, b) # nil
      BY <1>2, <1>5, <2>1, <3>1, Branching
    <3> QED BY <1>4, <3>2 DEF ChildIn
  <2>2. ASSUME NEW b \in f.todo, Starts(Append(at, b), k)
        PROVE  Starts(walk.path, k)
    <3>1. b \in Byte
      BY <1>4, <1>8, TreeFacts
    <3>2. Starts(at, k)
      BY <1>2, <1>5, <2>2, <3>1, AppendStarts
    <3> QED BY <1>2, <1>5, <1>8, <3>2, StartsOrder
  <2> QED BY <1>8, <2>1, <2>2
<1>11. \A k \in Wanted(walk) : k \notin walk.given <=>
         k = at \/ Owed("up", <<f>>, k) \/ Owed(walk.dir, walk.stack, k)
  <2>1. ASSUME NEW k
        PROVE  Owed("up", <<f>>, k) <=> \E b \in f.todo : Starts(Append(at, b), k)
    <3>1. DOMAIN <<f>> = {1} /\ <<f>>[1] = f
      OBVIOUS
    <3> QED BY <1>4, <3>1 DEF Owed, Owes
  <2> QED BY <1>1, <1>10, <2>1, EnterFacts DEF Wanted
<1>12. \A k : Owed(w.dir, w.stack, k) <=>
         \/ Owed("up", <<f>>, k)
         \/ walk.dir = "down" /\ k = at
         \/ Owed(walk.dir, walk.stack, k)
  <2>1. \A k : Owed(walk.dir, s, k) <=> Owes(walk.dir, f, k) \/ Owed(walk.dir, walk.stack, k)
    BY <1>2, StackCons
  <2>2. DOMAIN <<f>> = {1} /\ <<f>>[1] = f
    OBVIOUS
  <2>3. \A k : Owes(walk.dir, f, k) <=> Owed("up", <<f>>, k) \/ (walk.dir = "down" /\ k = at)
    BY <1>4, <2>2 DEF Owes, Owed
  <2> QED BY <1>6, <2>1, <2>3
<1>13. Starts(walk.path, at) /\ ~ Owed(walk.dir, walk.stack, at) /\ ~ Owed("up", <<f>>, at)
  <2>1. ~ Owed(walk.dir, walk.stack, at)
    BY <1>1, <1>2, <1>8, EnterFacts
  <2>2. ASSUME NEW b \in f.todo PROVE ~ Starts(Append(at, b), at)
    <3>1. b \in Byte
      BY <1>4, <1>8, TreeFacts
    <3> QED BY <1>2, <3>1, AppendStarts, Lengths
  <2>3. DOMAIN <<f>> = {1} /\ <<f>>[1] = f
    OBVIOUS
  <2> QED BY <1>4, <1>8, <2>1, <2>2, <2>3 DEF Owed, Owes
<1>14. CASE /\ walk.dir = "down" \/ DueTerminal(w) = {}
            /\ walk' = w
  <2>1. \A k \in Wanted(w) : k \notin w.given <=> Owed(w.dir, w.stack, k)
    BY <1>5, <1>6, <1>7, <1>9, <1>11, <1>12, <1>14 DEF WalkTypes
  <2>2. WalkOK(w)
    BY <1>2, <1>5, <1>6, <1>7, <2>1, EdgesOK
  <2> QED BY <1>5, <1>6, <1>14, <2>2 DEF StepOK, Silent, Active, SameLoop, SameGiven
<1>15. ASSUME walk.dir = "up", NEW k \in DueTerminal(w), NEW goOn \in BOOLEAN,
              NEW y, y = Yields(w, k, goOn)
       PROVE  /\ NextKey(walk, k) /\ WalkTypes(y) /\ Wanted(y) = Wanted(walk)
              /\ y.phase = "edges" /\ y.dir = "up" /\ SameLoop(walk, y)
              /\ y.path = at /\ y.stack = s
              /\ y.given = walk.given \cup {k} /\ y.broke = ~ goOn
              /\ y.given \subseteq Wanted(walk)
              /\ \A j \in Wanted(walk) : j \notin y.given <=> Owed("up", s, j)
  <2>1. k = at /\ k \in Wanted(walk) /\ k \notin walk.given
    BY <1>9, <1>11, <1>15
  <2>2. /\ y.phase = "edges" /\ y.dir = "up" /\ y.start = walk.start /\ y.end = walk.end
        /\ y.path = at /\ y.stack = s /\ y.ret = walk.ret
        /\ y.given = walk.given \cup {k} /\ y.broke = ~ goOn /\ DOMAIN y = FieldNames
    BY <1>6, <1>15, YieldsMakes DEF Made
  <2>3. WalkTypes(y) /\ Wanted(y) = Wanted(walk)
    BY <1>2, <1>5, <2>2 DEF WalkTypes, Phases, Wanted
  <2>4. NextKey(walk, k)
    <3>1. ASSUME NEW j \in Wanted(walk), j \notin walk.given, j # k
          PROVE  Less(k, j)
      <4>1. CASE Starts(walk.path, j)
        <5>1. Starts(at, j)
          BY <1>2, <4>1 DEF NodeSlot, Wanted
        <5> QED BY <1>2, <1>5, <2>1, <3>1, <5>1, LessEdges DEF Wanted
      <4>2. CASE Owed(walk.dir, walk.stack, j)
        <5>1. Comes(walk.dir, k, j)
          BY <1>1, <1>2, <1>5, <1>8, <2>1, <4>2, EnterFacts DEF Wanted
        <5> QED BY <1>15, <5>1 DEF Comes
      <4> QED BY <1>1, <3>1, <4>1, <4>2, EnterFacts
    <3> QED BY <1>15, <2>1, <3>1 DEF NextKey, Comes
  <2>5. \A j \in Wanted(walk) : j \notin y.given <=> Owed("up", s, j)
    BY <1>6, <1>11, <1>12, <1>13, <1>15, <2>1, <2>2
  <2>6. SameLoop(walk, y)
    BY <1>15, <2>2 DEF SameLoop
  <2> QED BY <1>5, <2>1, <2>2, <2>3, <2>4, <2>5, <2>6
<1>16. CASE walk.dir = "up" /\ \E k \in DueTerminal(w) : walk' = Yields(w, k, TRUE)
  <2>1. PICK k \in DueTerminal(w) : walk' = Yields(w, k, TRUE)
    BY <1>16
  <2> DEFINE y == Yields(w, k, TRUE)
  <2>2. /\ NextKey(walk, k) /\ WalkTypes(y) /\ Wanted(y) = Wanted(walk)
        /\ y.phase = "edges" /\ y.dir = "up" /\ SameLoop(walk, y)
        /\ y.path = at /\ y.stack = s
        /\ y.given = walk.given \cup {k} /\ y.broke = ~ TRUE
        /\ y.given \subseteq Wanted(walk)
        /\ \A j \in Wanted(walk) : j \notin y.given <=> Owed("up", s, j)
    BY <1>15, <1>16
  <2>3. walk' = y
    BY <2>1
  <2> HIDE DEF y
  <2>4. WalkOK(y)
    BY <1>2, <1>16, <2>2, EdgesOK
  <2>5. Gave(walk, y)
    BY <1>5, <2>2 DEF Gave, Active
  <2> QED BY <2>3, <2>4, <2>5 DEF StepOK
<1>17. CASE walk.dir = "up" /\ \E k \in DueTerminal(w) : walk' = Pops(Yields(w, k, FALSE), FALSE)
  <2>1. PICK k \in DueTerminal(w) : walk' = Pops(Yields(w, k, FALSE), FALSE)
    BY <1>17
  <2> DEFINE y == Yields(w, k, FALSE)
  <2>2. /\ NextKey(walk, k) /\ WalkTypes(y) /\ Wanted(y) = Wanted(walk)
        /\ y.phase = "edges" /\ y.dir = "up" /\ SameLoop(walk, y)
        /\ y.path = at /\ y.stack = s
        /\ y.given = walk.given \cup {k} /\ y.broke = ~ FALSE
        /\ y.given \subseteq Wanted(walk)
    BY <1>15, <1>17
  <2>3. walk' = Pops(y, FALSE)
    BY <2>1
  <2> HIDE DEF y
  <2>4. WalkOK(walk') /\ walk'.phase = "return" /\ SameLoop(y, walk') /\ SameGiven(y, walk')
    <3>1. StackOK(y.dir, y.stack) /\ y.stack # <<>> /\ OnPath(y.stack, y.path) /\ y.broke
      BY <1>2, <1>17, <2>2
    <3> QED BY <2>2, <2>3, <3>1, Popped
  <2>5. Gave(walk, walk')
    BY <1>5, <2>2, <2>4 DEF Gave, Active, SameLoop, SameGiven
  <2> QED BY <2>4, <2>5 DEF StepOK
<1> QED BY <1>3, <1>14, <1>16, <1>17


\* What a walk between edges knows of its first frame.
LEMMA EdgeFacts ==
  ASSUME TreeOK, WalkOK(walk), walk.phase = "edges",
         NEW f, f = Head(walk.stack), NEW t, t = Tail(walk.stack)
  PROVE  /\ Active(walk) /\ walk.stack # <<>> /\ OnPath(walk.stack, walk.path)
         /\ ~ walk.broke
         /\ \A k \in Wanted(walk) : k \notin walk.given <=> Owed(walk.dir, walk.stack, k)
         /\ ConsIs(walk.stack, f, t) /\ FrameOK(f) /\ f.node \in DOMAIN nodes
         /\ f.node.at \in Path /\ f.todo \subseteq Byte /\ f \in Frames
         /\ StackOK(walk.dir, t) /\ f.before = SlotLen(t)
         /\ AllLead(walk.dir, t, f.node.at)
         /\ NodePath = f.node.at /\ OnPath(t, Upto(walk.path, f.before))
<1>1. Active(walk)
  BY DEF Active
<1>2. WalkTypes(walk) /\ Walking(walk) /\ walk.path \in Path /\ StackOK(walk.dir, walk.stack)
  BY <1>1, WalkFacts
<1>3. walk.stack # <<>> /\ OnPath(walk.stack, walk.path)
  BY <1>2 DEF Walking
<1>4. ~ walk.broke /\ \A k \in Wanted(walk) : k \notin walk.given <=> Owed(walk.dir, walk.stack, k)
  BY <1>2 DEF Walking, Settled, Debt
<1>5. First(walk.dir, walk.stack, walk.path, f, t)
  BY <1>2, <1>3, FirstFrame
<1>6. f.todo \subseteq Byte /\ f \in Frames
  BY <1>5 DEF First, FrameOK, Frames
<1>7. NodePath = f.node.at
  BY <1>5 DEF First, NodePath, Frame
<1> QED BY <1>1, <1>3, <1>4, <1>5, <1>6, <1>7 DEF First

\* An edge is taken from the first frame: s is the stack without it.
Narrow(f, b) == [f EXCEPT !.todo = f.todo \ {b}]

\* Only the unvisited edges of the frame change.
LEMMA NarrowMakes ==
  ASSUME NEW f \in Frames, NEW b
  PROVE  /\ Narrow(f, b) \in Frames /\ Narrow(f, b).node = f.node
         /\ Narrow(f, b).before = f.before /\ Narrow(f, b).len = f.len
         /\ Narrow(f, b).todo = f.todo \ {b}
  BY DEF Narrow, Frames

Taken(b, f, g, t, s, p) ==
  /\ b \in f.todo /\ p \in Path /\ ConsIs(s, g, t) /\ s # <<>> /\ s \in Seq(Frames)
  /\ s = [walk.stack EXCEPT ![1] = g]
  /\ StackOK(walk.dir, s) /\ OnPath(s, walk.path)
  /\ AllLead(walk.dir, s, p) /\ Len(p) = SlotLen(s)
  /\ \A k : Owed(walk.dir, walk.stack, k) <=> Starts(p, k) \/ Owed(walk.dir, s, k)
  /\ \A k \in Path : Owed(walk.dir, s, k) => Comes(walk.dir, p, k)

LEMMA Narrowed ==
  ASSUME TreeOK, WalkOK(walk), NEW b \in Byte, NextEdge(b),
         NEW f, f = Head(walk.stack), NEW t, t = Tail(walk.stack),
         NEW g, g = Narrow(f, b), NEW s, s = <<g>> \o t,
         NEW p, p = Append(f.node.at, b)
  PROVE  Taken(b, f, g, t, s, p)
<1>1. walk.phase = "edges" /\ b \in f.todo
  BY DEF NextEdge, Frame
<1>2. /\ walk.stack # <<>> /\ OnPath(walk.stack, walk.path)
      /\ ConsIs(walk.stack, f, t) /\ FrameOK(f) /\ f.node \in DOMAIN nodes
      /\ f.node.at \in Path /\ f.todo \subseteq Byte /\ f \in Frames
      /\ StackOK(walk.dir, t) /\ f.before = SlotLen(t) /\ AllLead(walk.dir, t, f.node.at)
  BY <1>1, EdgeFacts
<1>3. /\ g \in Frames /\ g.node = f.node /\ g.before = f.before /\ g.len = f.len
      /\ g.todo = f.todo \ {b}
  BY <1>2, NarrowMakes
<1>4. /\ p \in Path /\ Starts(f.node.at, p) /\ Len(p) = Len(f.node.at) + 1
  BY <1>2, AppendStarts
<1>5. walk.stack \in Seq(Frames) /\ t \in Seq(Frames)
  BY <1>2 DEF ConsIs
<1>6. ConsIs(s, g, t) /\ s # <<>> /\ s \in Seq(Frames)
  <2>1. /\ s \in Seq(Frames) /\ s # <<>> /\ Len(s) = Len(t) + 1
        /\ s[1] = g /\ \A i \in 1 .. Len(t) : s[i + 1] = t[i]
    BY <1>3, <1>5, Cons
  <2> QED BY <1>3, <1>5, <2>1 DEF ConsIs
<1>7. s = [walk.stack EXCEPT ![1] = g]
  BY <1>2, <1>3, <1>5, Splits
<1>8. FrameOK(g)
  BY <1>2, <1>3 DEF FrameOK
<1>9. StackOK(walk.dir, s)
  <2>1. /\ ConsIs(s, g, t) /\ StackOK(walk.dir, t) /\ FrameOK(g)
        /\ g.before = SlotLen(t) /\ AllLead(walk.dir, t, g.node.at)
    BY <1>2, <1>3, <1>6, <1>8
  <2> QED BY ONLY <2>1, StackPush
<1>10. OnPath(s, walk.path)
  <2>1. \A i \in DOMAIN s : i = 1 \/ (i - 1 \in DOMAIN t /\ s[i] = t[i - 1])
    BY <1>6, Indices
  <2>2. /\ 1 \in DOMAIN walk.stack /\ walk.stack[1] = f
        /\ \A i \in DOMAIN t : i + 1 \in DOMAIN walk.stack /\ walk.stack[i + 1] = t[i]
    BY <1>2, Indices DEF ConsIs
  <2>3. Starts(g.node.at, walk.path)
    BY <1>2, <1>3, <2>2 DEF OnPath
  <2>4. \A i \in DOMAIN t : Starts(t[i].node.at, walk.path)
    BY <1>2, <2>2 DEF OnPath
  <2>5. s[1] = g
    BY <1>6 DEF ConsIs
  <2> QED BY <1>6, <2>1, <2>3, <2>4, <2>5 DEF OnPath
<1>11. Leads(walk.dir, g, p)
  <2>1. \A c \in g.todo : Sooner(walk.dir, b, c)
    BY <1>3 DEF NextEdge, Frame, Sooner
  <2>2. Starts(p, p)
    BY <1>4, StartsOrder
  <2> QED BY <1>3, <2>1, <2>2 DEF Leads
<1>12. AllLead(walk.dir, t, p)
  BY <1>2, <1>4, <1>5, AllLeadStarts
<1>13. AllLead(walk.dir, s, p) /\ SlotLen(s) = g.len + 1
  BY <1>6, <1>11, <1>12, LeadCons
<1>14. Len(p) = SlotLen(s)
  BY <1>2, <1>3, <1>4, <1>13 DEF FrameOK
<1>15. \A k : Owed(walk.dir, walk.stack, k) <=> Starts(p, k) \/ Owed(walk.dir, s, k)
  <2>1. \A k : Owed(walk.dir, walk.stack, k) <=> Owes(walk.dir, f, k) \/ Owed(walk.dir, t, k)
    BY <1>2, OwedCons
  <2>2. \A k : Owed(walk.dir, s, k) <=> Owes(walk.dir, g, k) \/ Owed(walk.dir, t, k)
    BY <1>6, OwedCons
  <2>3. \A k : Owes(walk.dir, f, k) <=> Starts(p, k) \/ Owes(walk.dir, g, k)
    BY <1>1, <1>3 DEF Owes
  <2> QED BY <2>1, <2>2, <2>3
<1>16. \A k \in Path : Owed(walk.dir, s, k) => Comes(walk.dir, p, k)
  <2>1. \A i \in DOMAIN s : s[i].todo \subseteq Byte
    BY <1>9 DEF StackOK, FrameOK, Frames
  <2> QED BY <1>4, <1>6, <1>13, <2>1, OwedLater
<1> QED BY <1>1, <1>4, <1>6, <1>7, <1>9, <1>10, <1>13, <1>14, <1>15, <1>16 DEF Taken

\* What the tests of an edge say of the keys behind it.
LEMMA EdgeTests ==
  ASSUME TreeOK, WalkOK(walk), walk.phase = "edges", NEW b \in Byte,
         NEW p, p = Append(Head(walk.stack).node.at, b)
  PROVE  /\ Before(b) <=> walk.start # nil /\ Less(p, walk.start) /\ ~ Starts(p, walk.start)
         /\ AtOrAfter(b) <=> walk.end # nil /\ ~ Less(p, walk.end)
<1>1. /\ Head(walk.stack).node.at \in Path /\ NodePath = Head(walk.stack).node.at
      /\ Active(walk)
  BY EdgeFacts
<1>2. (walk.start # nil => walk.start \in Path) /\ (walk.end # nil => walk.end \in Path)
  BY <1>1, WalkFacts DEF WalkTypes
<1>3. SubtreeBeforeWithByte(NodePath, b, walk.start) <=>
        walk.start # nil /\ Less(p, walk.start) /\ ~ Starts(p, walk.start)
  BY <1>1, <1>2, Pruning
<1>4. SubtreeAtOrAfterWithByte(NodePath, b, walk.end) <=>
        walk.end # nil /\ ~ Less(p, walk.end)
  BY <1>1, <1>2, Pruning
<1> QED BY <1>3, <1>4 DEF Before, AtOrAfter

\* A skipped edge has nothing wanted behind it.
LEMMA SkipEdgeOK ==
  ASSUME TreeOK, WalkOK(walk), NEW b \in Byte, SkipEdge(b)
  PROVE  StepOK(walk, walk')
<1> DEFINE f == Head(walk.stack)
           t == Tail(walk.stack)
           g == Narrow(f, b)
           s == <<g>> \o t
           p == Append(f.node.at, b)
<1>1. /\ NextEdge(b) /\ (IF walk.dir = "up" THEN Before(b) ELSE AtOrAfter(b))
      /\ walk' = [walk EXCEPT !.stack = [walk.stack EXCEPT ![1] =
                    [walk.stack[1] EXCEPT !.todo = walk.stack[1].todo \ {b}]]]
      /\ walk.phase = "edges"
  BY DEF SkipEdge, NextEdge
<1>2. /\ Active(walk) /\ walk.stack # <<>> /\ ~ walk.broke
      /\ \A k \in Wanted(walk) : k \notin walk.given <=> Owed(walk.dir, walk.stack, k)
      /\ ConsIs(walk.stack, f, t)
  BY <1>1, EdgeFacts
<1>3. Taken(b, f, g, t, s, p)
  BY <1>1, Narrowed
<1>4. walk.stack[1] = f
  BY <1>2 DEF ConsIs
<1>5. /\ WalkTypes(walk) /\ walk.given \subseteq Wanted(walk) /\ stored \in SUBSET Path
  BY <1>2, WalkFacts, TreeFacts
<1>6. walk' = [walk EXCEPT !.stack = s]
  BY <1>1, <1>3, <1>4 DEF Narrow, Taken
<1>7. ASSUME NEW k \in Wanted(walk) PROVE ~ Starts(p, k)
  <2>1. /\ Before(b) <=> walk.start # nil /\ Less(p, walk.start) /\ ~ Starts(p, walk.start)
        /\ AtOrAfter(b) <=> walk.end # nil /\ ~ Less(p, walk.end)
    BY <1>1, EdgeTests
  <2>2. /\ k \in Path /\ (walk.start # nil => ~ Less(k, walk.start) /\ walk.start \in Path)
        /\ (walk.end # nil => Less(k, walk.end) /\ walk.end \in Path)
    BY <1>5 DEF Wanted, KeyInRange, WalkTypes
  <2> QED BY <1>1, <1>3, <2>1, <2>2, LessBehind DEF Taken
<1> HIDE DEF s, f, g, t, p
<1>8. /\ walk'.phase = "edges" /\ walk'.dir = walk.dir /\ walk'.start = walk.start
      /\ walk'.end = walk.end /\ walk'.path = walk.path /\ walk'.stack = s
      /\ walk'.ret = walk.ret /\ walk'.given = walk.given /\ walk'.broke = walk.broke
      /\ DOMAIN walk' = FieldNames
  BY <1>1, <1>5, <1>6 DEF WalkTypes, FieldNames
<1>9. WalkOK(walk')
  <2> DEFINE v == walk'
  <2>1. WalkTypes(v) /\ Wanted(v) = Wanted(walk)
    BY <1>5, <1>8 DEF WalkTypes, Phases, Wanted
  <2>2. \A k \in Wanted(v) : k \notin v.given <=> Owed(v.dir, v.stack, k)
    BY <1>2, <1>3, <1>7, <1>8, <2>1 DEF Taken
  <2>3. /\ v.phase = "edges" /\ StackOK(v.dir, v.stack) /\ v.stack # <<>>
        /\ OnPath(v.stack, v.path) /\ v.given \subseteq Wanted(v) /\ ~ v.broke
    BY <1>2, <1>3, <1>5, <1>8, <2>1 DEF Taken
  <2> HIDE DEF v
  <2>4. WalkOK(v)
    BY ONLY <2>1, <2>2, <2>3, EdgesOK
  <2> QED BY <2>4 DEF v
<1> QED BY <1>2, <1>8, <1>9 DEF StepOK, Silent, Active, SameLoop, SameGiven

\* The walk of a node's children is over: its terminal is next.
LEMMA TerminalOK ==
  ASSUME TreeOK, WalkOK(walk), walk.phase = "edges", walk.dir = "down",
         NEW f, f = Head(walk.stack), NEW t, t = Tail(walk.stack),
         \A k \in Wanted(walk) : \A c \in f.todo : ~ Starts(Append(f.node.at, c), k),
         NEW v, v = [walk EXCEPT !.phase = "terminal"]
  PROVE  StepOK(walk, v)
<1>1. Active(walk)
  BY DEF Active
<1>2. /\ WalkTypes(walk) /\ walk.given \subseteq Wanted(walk)
      /\ StackOK(walk.dir, walk.stack) /\ walk.path \in Path
  BY <1>1, WalkFacts
<1>3. /\ walk.stack # <<>> /\ OnPath(walk.stack, walk.path) /\ ~ walk.broke
      /\ \A k \in Wanted(walk) : k \notin walk.given <=> Owed(walk.dir, walk.stack, k)
      /\ ConsIs(walk.stack, f, t)
  BY EdgeFacts
<1>4. Made(v, "terminal", walk.dir, walk.start, walk.end, walk.cur, walk.path,
           walk.stack, walk.ret, walk.given, walk.broke)
  BY <1>2, PhaseMakes DEF WalkTypes
<1>5. /\ v.phase = "terminal" /\ v.dir = "down" /\ v.start = walk.start /\ v.end = walk.end
      /\ v.path = walk.path /\ v.stack = walk.stack /\ v.ret = walk.ret
      /\ v.given = walk.given /\ v.broke = walk.broke /\ DOMAIN v = FieldNames
  BY <1>4 DEF Made
<1>6. WalkTypes(v) /\ Wanted(v) = Wanted(walk)
  BY <1>2, <1>5 DEF WalkTypes, Phases, Wanted
<1>7. \A k \in Wanted(walk) : Owed(walk.dir, walk.stack, k) <=>
         k = f.node.at \/ Owed("down", t, k)
  <2>1. \A k : Owed(walk.dir, walk.stack, k) <=> Owes(walk.dir, f, k) \/ Owed(walk.dir, t, k)
    BY <1>3, OwedCons
  <2> QED BY <2>1 DEF Owes
<1>8. \A k \in Wanted(v) : k \notin v.given <=> Debt(v, k)
  BY <1>3, <1>5, <1>6, <1>7 DEF Debt
<1>9. Walking(v)
  BY <1>2, <1>3, <1>5, <1>6, <1>8 DEF Walking, Settled
<1>10. WalkOK(v)
  BY <1>5, <1>6, <1>9 DEF WalkOK
<1> QED BY <1>1, <1>5, <1>10 DEF StepOK, Silent, Active, SameLoop, SameGiven

\* No wanted key is behind the edge where the walk of a node stops, nor later.
LEMMA StopAtEdgeOK ==
  ASSUME TreeOK, WalkOK(walk), NEW b \in Byte, StopAtEdge(b)
  PROVE  StepOK(walk, walk')
<1> DEFINE f == Head(walk.stack)
           t == Tail(walk.stack)
           g == Narrow(f, b)
           s == <<g>> \o t
           p == Append(f.node.at, b)
<1>1. NextEdge(b) /\ walk.phase = "edges"
  BY DEF StopAtEdge, NextEdge
<1>2. Taken(b, f, g, t, s, p)
  BY <1>1, Narrowed
<1>3. /\ Active(walk) /\ walk.stack # <<>> /\ OnPath(walk.stack, walk.path)
      /\ \A k \in Wanted(walk) : k \notin walk.given <=> Owed(walk.dir, walk.stack, k)
      /\ f.node.at \in Path /\ f.todo \subseteq Byte
  BY <1>1, EdgeFacts
<1>4. /\ WalkTypes(walk) /\ walk.given \subseteq Wanted(walk) /\ stored \in SUBSET Path
      /\ StackOK(walk.dir, walk.stack)
  BY <1>3, WalkFacts, TreeFacts
<1>5. /\ Before(b) <=> walk.start # nil /\ Less(p, walk.start) /\ ~ Starts(p, walk.start)
      /\ AtOrAfter(b) <=> walk.end # nil /\ ~ Less(p, walk.end)
  BY <1>1, EdgeTests
<1>6. \A k \in Wanted(walk) :
        /\ k \in Path /\ (walk.start # nil => ~ Less(k, walk.start) /\ walk.start \in Path)
        /\ (walk.end # nil => Less(k, walk.end) /\ walk.end \in Path)
  BY <1>4 DEF Wanted, KeyInRange, WalkTypes
<1>7. CASE walk.dir = "up"
  <2>1. walk.end # nil /\ ~ Less(p, walk.end) /\ walk' = Pops(walk, FALSE)
    BY <1>5, <1>7 DEF StopAtEdge
  <2>2. ASSUME NEW k \in Wanted(walk) PROVE k \in walk.given
    <3>1. ~ Starts(p, k)
      BY <1>2, <1>6, <2>1, LessBehind DEF Taken
    <3>2. ~ Owed(walk.dir, s, k)
      <4>1. ASSUME Owed(walk.dir, s, k) PROVE Less(p, k)
        BY <1>2, <1>6, <1>7, <4>1 DEF Taken, Comes
      <4>2. Less(p, k) => Less(p, walk.end)
        BY <1>2, <1>6, <2>1, LessOrder DEF Taken
      <4> QED BY <2>1, <4>1, <4>2
    <3> QED BY <1>2, <1>3, <3>1, <3>2 DEF Taken
  <2>3. Wanted(walk) \subseteq walk.given
    BY <2>2
  <2>4. /\ WalkOK(walk') /\ walk'.phase = "return"
        /\ SameLoop(walk, walk') /\ SameGiven(walk, walk')
    <3> HIDE DEF f, t, g, s, p
    <3>1. walk.path \in Path
      BY <1>4 DEF WalkTypes
    <3> QED BY <1>3, <1>4, <2>1, <2>3, <3>1, Popped
  <2> QED BY <1>3, <2>4 DEF StepOK, Silent, Active
<1>8. CASE walk.dir # "up"
  <2>1. walk.dir = "down"
    BY <1>4, <1>8 DEF WalkTypes
  <2>2. /\ walk.start # nil /\ Less(p, walk.start) /\ ~ Starts(p, walk.start)
        /\ walk' = [walk EXCEPT !.phase = "terminal"]
    BY <1>5, <1>8 DEF StopAtEdge
  <2>3. ASSUME NEW k \in Wanted(walk), NEW c \in f.todo, Starts(Append(f.node.at, c), k)
        PROVE  FALSE
    <3>1. ~ Less(k, walk.start) /\ walk.start \in Path /\ k \in Path
      BY <1>6, <2>2
    <3>2. CASE c = b
      BY <1>2, <2>2, <2>3, <3>1, <3>2, LessBehind DEF Taken
    <3>3. CASE c # b
      <4>1. c < b /\ c \in Byte
        BY <1>1, <1>3, <1>8, <3>3 DEF NextEdge, Frame
      <4>2. p \in Path /\ Starts(p, p)
        BY <1>2, StartsOrder DEF Taken
      <4>3. Less(k, p)
        BY <1>3, <2>3, <3>1, <4>1, <4>2, LessEdges
      <4> QED BY <2>2, <3>1, <4>2, <4>3, LessOrder
    <3> QED BY <3>2, <3>3
  <2>4. StepOK(walk, walk')
    <3>1. \A k \in Wanted(walk) : \A c \in f.todo : ~ Starts(Append(f.node.at, c), k)
      BY <2>3
    <3> QED BY <1>1, <2>1, <2>2, <3>1, TerminalOK
  <2> QED BY <2>4
<1> QED BY <1>7, <1>8

\* A subtree is entered with the bytes that lead to it.
LEMMA DescendEdgeOK ==
  ASSUME TreeOK, WalkOK(walk), NEW b \in Byte, DescendEdge(b)
  PROVE  StepOK(walk, walk')
<1> DEFINE f == Head(walk.stack)
           t == Tail(walk.stack)
           g == Narrow(f, b)
           s == <<g>> \o t
           p == Append(f.node.at, b)
           c == nodes[f.node].children[b]
<1>1. NextEdge(b) /\ walk.phase = "edges" /\ ~ Before(b) /\ ~ AtOrAfter(b)
  BY DEF DescendEdge, NextEdge
<1>2. Taken(b, f, g, t, s, p)
  BY <1>1, Narrowed
<1>3. /\ Active(walk) /\ walk.stack # <<>> /\ ~ walk.broke
      /\ \A k \in Wanted(walk) : k \notin walk.given <=> Owed(walk.dir, walk.stack, k)
      /\ f.node.at \in Path /\ f.node \in DOMAIN nodes /\ ConsIs(walk.stack, f, t)
      /\ NodePath = f.node.at /\ FrameOK(f)
  BY <1>1, EdgeFacts
<1>4. /\ WalkTypes(walk) /\ walk.given \subseteq Wanted(walk)
  BY <1>3, WalkFacts
<1>5. /\ Before(b) <=> walk.start # nil /\ Less(p, walk.start) /\ ~ Starts(p, walk.start)
      /\ AtOrAfter(b) <=> walk.end # nil /\ ~ Less(p, walk.end)
  BY <1>1, EdgeTests
<1>6. SlotOK(nodes, stored, c, p)
  <2>1. b \in DOMAIN nodes[f.node].children
    BY <1>2, <1>3 DEF Taken, FrameOK
  <2> QED BY <1>3, <2>1, TreeFacts
<1>7. walk' = [walk EXCEPT !.phase = "enter", !.cur = c, !.path = p, !.stack = s]
  <2>1. walk.stack[1] = f
    BY <1>3 DEF ConsIs
  <2>2. walk' = [walk EXCEPT !.phase = "enter", !.cur = c, !.path = p,
                   !.stack = [walk.stack EXCEPT ![1] =
                     [walk.stack[1] EXCEPT !.todo = walk.stack[1].todo \ {b}]]]
    BY <1>3 DEF DescendEdge, Frame
  <2> QED BY <1>2, <2>1, <2>2 DEF Taken, Narrow
<1> HIDE DEF f, t, g, s, p, c
<1> DEFINE v == walk'
<1>8. /\ v.phase = "enter" /\ v.dir = walk.dir /\ v.start = walk.start /\ v.end = walk.end
      /\ v.cur = c /\ v.path = p /\ v.stack = s /\ v.ret = walk.ret
      /\ v.given = walk.given /\ v.broke = walk.broke /\ DOMAIN v = FieldNames
  BY <1>4, <1>7 DEF WalkTypes, FieldNames
<1> HIDE DEF v
<1>9. WalkTypes(v) /\ Wanted(v) = Wanted(walk)
  BY <1>2, <1>4, <1>8 DEF WalkTypes, Phases, Wanted, Taken
<1>10. Entering(v)
  BY <1>1, <1>2, <1>5, <1>6, <1>8 DEF Entering, Taken
<1>11. \A k \in Wanted(v) : k \notin v.given <=> Debt(v, k)
  BY <1>2, <1>3, <1>8, <1>9 DEF Debt, Taken
<1>12. Walking(v)
  BY <1>2, <1>3, <1>4, <1>8, <1>9, <1>10, <1>11 DEF Walking, Settled, Taken
<1>13. WalkOK(v)
  BY <1>8, <1>9, <1>12 DEF WalkOK
<1> QED BY <1>3, <1>8, <1>13 DEF StepOK, Silent, Active, SameLoop, SameGiven, v

\* When every edge is done, a node owes at most its terminal.
LEMMA EdgesDoneOK ==
  ASSUME TreeOK, WalkOK(walk), EdgesDone
  PROVE  StepOK(walk, walk')
<1> DEFINE f == Head(walk.stack)
           t == Tail(walk.stack)
<1>1. walk.phase = "edges" /\ f.todo = {}
  BY DEF EdgesDone, Frame
<1>2. /\ Active(walk) /\ walk.stack # <<>> /\ OnPath(walk.stack, walk.path) /\ ~ walk.broke
      /\ \A k \in Wanted(walk) : k \notin walk.given <=> Owed(walk.dir, walk.stack, k)
      /\ ConsIs(walk.stack, f, t)
  BY <1>1, EdgeFacts
<1>3. /\ WalkTypes(walk) /\ walk.given \subseteq Wanted(walk)
      /\ StackOK(walk.dir, walk.stack)
  BY <1>2, WalkFacts
<1>4. CASE walk.dir = "up"
  <2>1. walk' = Pops(walk, TRUE)
    BY <1>4 DEF EdgesDone
  <2>2. \A k : Owed(walk.dir, walk.stack, k) <=> Owes(walk.dir, f, k) \/ Owed(walk.dir, t, k)
    BY <1>2, OwedCons
  <2>3. \A k \in Wanted(walk) : k \notin walk.given <=> Owed(walk.dir, t, k)
    BY <1>1, <1>2, <1>4, <2>2 DEF Owes
  <2>4. /\ WalkOK(walk') /\ walk'.phase = "return"
        /\ SameLoop(walk, walk') /\ SameGiven(walk, walk')
    BY <1>2, <1>3, <2>1, <2>3, Popped
  <2> QED BY <1>2, <2>4 DEF StepOK, Silent, Active
<1>5. CASE walk.dir # "up"
  <2>1. walk.dir = "down" /\ walk' = [walk EXCEPT !.phase = "terminal"]
    BY <1>3, <1>5 DEF EdgesDone, WalkTypes
  <2>2. \A k \in Wanted(walk) : \A c \in f.todo : ~ Starts(Append(f.node.at, c), k)
    BY <1>1
  <2> QED BY <1>1, <2>1, <2>2, TerminalOK
<1> QED BY <1>4, <1>5

\* Downwards a node's own key is the last of its subtree.
LEMMA VisitTerminalOK ==
  ASSUME TreeOK, WalkOK(walk), VisitTerminal
  PROVE  StepOK(walk, walk')
<1> DEFINE f == Head(walk.stack)
           t == Tail(walk.stack)
           at == f.node.at
<1>1. walk.phase = "terminal" /\ Active(walk)
  BY DEF VisitTerminal, Active
<1>2. /\ WalkTypes(walk) /\ Walking(walk) /\ walk.given \subseteq Wanted(walk)
      /\ StackOK(walk.dir, walk.stack) /\ walk.path \in Path /\ stored \in SUBSET Path
  BY <1>1, WalkFacts, TreeFacts
<1>3. /\ walk.stack # <<>> /\ OnPath(walk.stack, walk.path) /\ walk.dir = "down"
      /\ ~ walk.broke
      /\ \A k \in Wanted(walk) : k \notin walk.given <=> k = at \/ Owed(walk.dir, t, k)
  BY <1>1, <1>2 DEF Walking, Settled, Debt
<1>4. First(walk.dir, walk.stack, walk.path, f, t)
  BY <1>2, <1>3, FirstFrame
<1>5. \A k : k \in DueTerminal(walk) <=> k = at /\ k \in Wanted(walk)
  <2>1. f.node \in DOMAIN nodes /\ Upto(walk.path, f.len) = f.node.at
    BY <1>4 DEF First
  <2> QED BY <2>1, DueIs
<1>6. /\ at \in Path /\ ~ Owed(walk.dir, t, at)
      /\ \A j \in Path : Owed(walk.dir, t, j) => Comes(walk.dir, at, j)
  <2>1. /\ at \in Path /\ t \in Seq(Frames) /\ AllLead(walk.dir, t, at)
        /\ \A i \in DOMAIN t : t[i].todo \subseteq Byte
    BY <1>4 DEF First, StackOK, FrameOK, Frames
  <2> HIDE DEF at, t
  <2>2. \A j \in Path : Owed(walk.dir, t, j) => Comes(walk.dir, at, j)
    BY <2>1, OwedLater
  <2>3. ~ Comes(walk.dir, at, at)
    BY <2>1, LessOrder DEF Comes
  <2> QED BY <2>1, <2>2, <2>3
<1>7. CASE DueTerminal(walk) = {}
  <2>1. walk' = Pops(walk, TRUE)
    BY <1>7 DEF VisitTerminal
  <2>2. \A k \in Wanted(walk) : k \notin walk.given <=> Owed(walk.dir, t, k)
    BY <1>3, <1>5, <1>7
  <2>3. /\ WalkOK(walk') /\ walk'.phase = "return"
        /\ SameLoop(walk, walk') /\ SameGiven(walk, walk')
    BY <1>2, <1>3, <2>1, <2>2, Popped
  <2> QED BY <1>1, <2>3 DEF StepOK, Silent, Active
<1>8. CASE DueTerminal(walk) # {}
  <2>1. PICK k \in DueTerminal(walk), goOn \in BOOLEAN :
          walk' = Pops(Yields(walk, k, goOn), goOn)
    BY <1>8 DEF VisitTerminal
  <2> DEFINE y == Yields(walk, k, goOn)
  <2>2. k = at /\ k \in Wanted(walk) /\ k \notin walk.given
    BY <1>3, <1>5, <2>1
  <2>3. NextKey(walk, k)
    BY <1>2, <1>3, <1>6, <2>2 DEF NextKey, Wanted
  <2>4. /\ y.phase = walk.phase /\ y.dir = walk.dir /\ y.start = walk.start /\ y.end = walk.end
        /\ y.path = walk.path /\ y.stack = walk.stack /\ y.ret = walk.ret
        /\ y.given = walk.given \cup {k} /\ y.broke = ~ goOn /\ DOMAIN y = FieldNames
    BY <1>2, YieldsMakes DEF Made, WalkTypes
  <2>5. walk' = Pops(y, goOn)
    BY <2>1
  <2> HIDE DEF y
  <2>6. WalkTypes(y) /\ Wanted(y) = Wanted(walk)
    BY <1>2, <2>4 DEF WalkTypes, Wanted
  <2>7. \A j \in Wanted(y) : j \notin y.given <=> Owed(y.dir, Tail(y.stack), j)
    BY <1>3, <1>6, <2>2, <2>4, <2>6
  <2>8. /\ WalkOK(walk') /\ walk'.phase = "return" /\ SameLoop(y, walk') /\ SameGiven(y, walk')
    <3>1. /\ StackOK(y.dir, y.stack) /\ y.stack # <<>> /\ OnPath(y.stack, y.path)
          /\ y.given \subseteq Wanted(y) /\ y.broke = ~ goOn
      BY <1>2, <1>3, <2>2, <2>4, <2>6
    <3> QED BY <2>5, <2>6, <2>7, <3>1, Popped
  <2>9. Gave(walk, walk')
    BY <1>1, <1>3, <2>3, <2>4, <2>8 DEF Gave, Active, SameLoop, SameGiven
  <2> QED BY <2>8, <2>9 DEF StepOK
<1> QED BY <1>7, <1>8

\* A child's walk that returned false ends the walk of its parent.
LEMMA ResumeFrameOK ==
  ASSUME TreeOK, WalkOK(walk), ResumeFrame
  PROVE  StepOK(walk, walk')
<1>1. walk.phase = "return" /\ Active(walk) /\ walk.stack # <<>>
  BY DEF ResumeFrame, Active
<1>2. /\ WalkTypes(walk) /\ Walking(walk) /\ walk.given \subseteq Wanted(walk)
      /\ StackOK(walk.dir, walk.stack) /\ walk.path \in Path
  BY <1>1, WalkFacts
<1>3. OnPath(walk.stack, walk.path) /\ Settled(walk)
  BY <1>1, <1>2 DEF Walking
<1>4. CASE walk.ret
  <2> DEFINE v == [walk EXCEPT !.phase = "edges"]
  <2>1. walk' = v
    BY <1>4 DEF ResumeFrame
  <2>2. Made(v, "edges", walk.dir, walk.start, walk.end, walk.cur, walk.path,
             walk.stack, walk.ret, walk.given, walk.broke)
    BY <1>2, PhaseMakes DEF WalkTypes
  <2> HIDE DEF v
  <2>3. /\ v.phase = "edges" /\ v.dir = walk.dir /\ v.start = walk.start /\ v.end = walk.end
        /\ v.path = walk.path /\ v.stack = walk.stack /\ v.ret = walk.ret
        /\ v.given = walk.given /\ v.broke = walk.broke /\ DOMAIN v = FieldNames
    BY <2>2 DEF Made
  <2>4. WalkTypes(v) /\ Wanted(v) = Wanted(walk)
    BY <1>2, <2>3 DEF WalkTypes, Phases, Wanted
  <2>5. ~ walk.broke /\ \A k \in Wanted(walk) :
           k \notin walk.given <=> Owed(walk.dir, walk.stack, k)
    BY <1>1, <1>3, <1>4 DEF Settled, Debt
  <2>6. WalkOK(v)
    BY <1>1, <1>2, <1>3, <2>3, <2>4, <2>5, EdgesOK
  <2> QED BY <1>1, <2>1, <2>3, <2>6 DEF StepOK, Silent, Active, SameLoop, SameGiven
<1>5. CASE ~ walk.ret
  <2>1. walk' = Pops(walk, FALSE)
    BY <1>5 DEF ResumeFrame
  <2>2. walk.broke \/ Wanted(walk) \subseteq walk.given
    BY <1>1, <1>3, <1>5 DEF Settled
  <2>3. /\ WalkOK(walk') /\ walk'.phase = "return"
        /\ SameLoop(walk, walk') /\ SameGiven(walk, walk')
    BY <1>1, <1>2, <1>3, <2>1, <2>2, Popped
  <2> QED BY <1>1, <2>3 DEF StepOK, Silent, Active
<1> QED BY <1>4, <1>5

\* The idle walk.
LEMMA NoWalkMakes ==
  Made(NoWalk, "idle", "up", nil, nil, nil, <<>>, <<>>, TRUE, {}, FALSE)
  BY DEF NoWalk, Made, FieldNames

\* It satisfies the invariant.
LEMMA NoWalkOK == WalkOK(NoWalk)
<1>1. /\ NoWalk.phase = "idle" /\ NoWalk.dir = "up" /\ NoWalk.start = nil /\ NoWalk.end = nil
      /\ NoWalk.path = <<>> /\ NoWalk.stack = <<>> /\ NoWalk.ret = TRUE
      /\ NoWalk.given = {} /\ NoWalk.broke = FALSE /\ DOMAIN NoWalk = FieldNames
  BY NoWalkMakes DEF Made
<1>2. WalkTypes(NoWalk)
  BY <1>1, StartsOrder DEF WalkTypes, Phases
<1> QED BY <1>1, <1>2 DEF WalkOK, Resting

\* A loop over bounds that are not reversed starts at the root with nothing given.
Started(v, dir, start, end) ==
  /\ v.dir = dir /\ v.start = start /\ v.end = end /\ v.given = {} /\ ~ v.broke
  /\ v.phase = "panicked" <=> Scan!Reversed(start, end)
  /\ v.phase # "idle"

\* Range panics, ends at once, or enters the root.
LEMMA BeginRangeOK ==
  ASSUME TreeOK, NEW dir \in {"up", "down"}, NEW start \in Bounds, NEW end \in Bounds,
         BeginRange(dir, start, end)
  PROVE  WalkOK(walk') /\ Started(walk', dir, start, end)
<1> DEFINE w == [NoWalk EXCEPT !.dir = dir, !.start = start, !.end = end]
           v == walk'
<1>1. (start # nil => start \in Path) /\ (end # nil => end \in Path)
  BY BoundsAssumption DEF Path
<1>2. \/ Scan!Reversed(start, end) /\ v = [w EXCEPT !.phase = "panicked"]
      \/ ~ Scan!Reversed(start, end) /\ start # nil /\ start = end /\ v = Ends(w, TRUE)
      \/ /\ ~ Scan!Reversed(start, end)
         /\ v = [w EXCEPT !.phase = "enter", !.cur = root]
  BY DEF BeginRange
<1>3. Made(w, "idle", dir, start, end, nil, <<>>, <<>>, TRUE, {}, FALSE)
  BY NoWalkMakes DEF Made, FieldNames
<1> HIDE DEF w
<1>4. /\ w.dir = dir /\ w.start = start /\ w.end = end /\ w.path = <<>> /\ w.stack = <<>>
      /\ w.ret = TRUE /\ w.given = {} /\ w.broke = FALSE /\ DOMAIN w = FieldNames
  BY <1>3 DEF Made
<1>5. stored \in SUBSET Path /\ SlotOK(nodes, stored, root, <<>>)
  BY TreeFacts
<1>6. StackOK(dir, <<>>) /\ AllLead(dir, <<>>, <<>>) /\ SlotLen(<<>>) = 0
      /\ OnPath(<<>>, <<>>)
  BY DEF StackOK, AllLead, SlotLen, OnPath
<1>7. CASE Scan!Reversed(start, end) /\ v = [w EXCEPT !.phase = "panicked"]
  <2>1. Made(v, "panicked", w.dir, w.start, w.end, w.cur, w.path, w.stack, w.ret, w.given, w.broke)
    BY <1>4, <1>7, PhaseMakes
  <2> HIDE DEF v
  <2>2. /\ v.phase = "panicked" /\ v.dir = dir /\ v.start = start /\ v.end = end
        /\ v.path = <<>> /\ v.stack = <<>> /\ v.ret = TRUE /\ v.given = {}
        /\ v.broke = FALSE /\ DOMAIN v = FieldNames
    BY <1>4, <2>1 DEF Made
  <2>3. WalkTypes(v)
    BY <1>1, <2>2, StartsOrder DEF WalkTypes, Phases
  <2>4. WalkOK(v) /\ Started(v, dir, start, end)
    BY <1>7, <2>2, <2>3 DEF WalkOK, Resting, Started
  <2> QED BY <2>4 DEF v
<1>8. CASE ~ Scan!Reversed(start, end) /\ start # nil /\ start = end /\ v = Ends(w, TRUE)
  <2>1. Made(v, "return", w.dir, w.start, w.end, w.cur, w.path, w.stack, TRUE, w.given, w.broke)
    BY <1>4, <1>8, EndsMakes
  <2> HIDE DEF v
  <2>2. /\ v.phase = "return" /\ v.dir = dir /\ v.start = start /\ v.end = end
        /\ v.path = <<>> /\ v.stack = <<>> /\ v.ret = TRUE /\ v.given = {}
        /\ v.broke = FALSE /\ DOMAIN v = FieldNames
    BY <1>4, <2>1 DEF Made
  <2>3. WalkTypes(v)
    BY <1>1, <2>2, StartsOrder DEF WalkTypes, Phases
  <2>4. Wanted(v) = {}
    BY <1>8, <2>2 DEF Wanted, KeyInRange
  <2>5. Walking(v)
    BY <1>6, <2>2, <2>4 DEF Walking, Settled
  <2>6. WalkOK(v) /\ Started(v, dir, start, end)
    BY <1>8, <2>2, <2>3, <2>5 DEF WalkOK, Started
  <2> QED BY <2>6 DEF v
<1>9. CASE /\ ~ Scan!Reversed(start, end)
           /\ v = [w EXCEPT !.phase = "enter", !.cur = root]
  <2>1. /\ v.phase = "enter" /\ v.dir = dir /\ v.start = start /\ v.end = end /\ v.cur = root
        /\ v.path = <<>> /\ v.stack = <<>> /\ v.ret = TRUE /\ v.given = {}
        /\ v.broke = FALSE /\ DOMAIN v = FieldNames
    BY <1>4, <1>9 DEF FieldNames
  <2> HIDE DEF v
  <2>2. WalkTypes(v)
    BY <1>1, <2>1, StartsOrder DEF WalkTypes, Phases
  <2>3. Entering(v)
    BY <1>5, <1>6, <2>1, StartsOrder DEF Entering
  <2>4. \A k \in Wanted(v) : Debt(v, k)
    BY <1>5, <2>1, StartsOrder DEF Wanted, Debt
  <2>5. Walking(v)
    BY <1>6, <2>1, <2>3, <2>4 DEF Walking, Settled
  <2>6. WalkOK(v) /\ Started(v, dir, start, end)
    BY <1>9, <2>1, <2>2, <2>5 DEF WalkOK, Started
  <2> QED BY <2>6 DEF v
<1> QED BY <1>2, <1>7, <1>8, <1>9
-----------------------------------------------------------------------------
(***************************************************************************)
(* The invariant holds, and with it what the walk promises.                *)
(***************************************************************************)
\* What every action does.
Effect ==
  \/ \E dir \in {"up", "down"}, start, end \in Bounds :
        /\ BeginRange(dir, start, end) /\ WalkOK(walk')
        /\ Started(walk', dir, start, end)
  \/ StepOK(walk, walk')
  \/ EndLoop /\ WalkOK(walk')

\* No action does anything else.
LEMMA NextEffect ==
  ASSUME TreeOK, WalkOK(walk), Next
  PROVE  Effect /\ UNCHANGED itTree
<1>1. CASE \E dir \in {"up", "down"}, start, end \in Bounds : BeginRange(dir, start, end)
  <2>1. PICK dir \in {"up", "down"}, start \in Bounds, end \in Bounds :
          BeginRange(dir, start, end)
    BY <1>1
  <2>2. WalkOK(walk') /\ Started(walk', dir, start, end)
    BY <2>1, BeginRangeOK
  <2>3. UNCHANGED itTree
    BY <2>1 DEF BeginRange
  <2> QED BY <2>1, <2>2, <2>3 DEF Effect
<1>2. CASE VisitNil
  BY <1>2, VisitNilOK DEF Effect, VisitNil
<1>3. CASE VisitLeaf
  BY <1>3, VisitLeafOK DEF Effect, VisitLeaf
<1>4. CASE VisitInner
  <2>1. StepOK(walk, walk')
    BY <1>4, VisitInnerOK
  <2>2. UNCHANGED itTree
    BY <1>4 DEF VisitInner
  <2> QED BY <2>1, <2>2 DEF Effect
<1>5. ASSUME NEW b \in Byte, SkipEdge(b)
      PROVE  Effect /\ UNCHANGED itTree
  BY <1>5, SkipEdgeOK DEF Effect, SkipEdge
<1>6. ASSUME NEW b \in Byte, StopAtEdge(b)
      PROVE  Effect /\ UNCHANGED itTree
  BY <1>6, StopAtEdgeOK DEF Effect, StopAtEdge
<1>7. ASSUME NEW b \in Byte, DescendEdge(b)
      PROVE  Effect /\ UNCHANGED itTree
  BY <1>7, DescendEdgeOK DEF Effect, DescendEdge
<1>8. CASE EdgesDone
  BY <1>8, EdgesDoneOK DEF Effect, EdgesDone
<1>9. CASE VisitTerminal
  BY <1>9, VisitTerminalOK DEF Effect, VisitTerminal
<1>10. CASE ResumeFrame
  BY <1>10, ResumeFrameOK DEF Effect, ResumeFrame
<1>11. CASE EndLoop
  <2>1. walk' = NoWalk /\ UNCHANGED itTree
    BY <1>11 DEF EndLoop
  <2> QED BY <1>11, <2>1, NoWalkOK DEF Effect
<1> QED BY <1>1, <1>2, <1>3, <1>4, <1>5, <1>6, <1>7, <1>8, <1>9, <1>10, <1>11
        DEF Next, Step

\* A tree that keys determine is whole, and the walk rests.
LEMMA InitWalkInv ==
  ASSUME Init
  PROVE  WalkInv
<1>1. stored \in SUBSET Path
  BY KeysAssumption DEF Init, Path
<1>2. Whole(nodes, stored, root)
  BY <1>1, ShapeIsWhole DEF Init
<1>3. WalkOK(walk)
  BY NoWalkOK DEF Init
<1> QED BY <1>1, <1>2, <1>3 DEF WalkInv

\* Every step keeps the invariant.
LEMMA NextWalkInv ==
  ASSUME WalkInv, [Next]_itVars
  PROVE  WalkInv'
<1>1. TreeOK /\ WalkOK(walk)
  BY DEF WalkInv, TreeOK
<1>2. WalkOK(walk') /\ UNCHANGED itTree
  <2>1. CASE Next
    BY <1>1, <2>1, NextEffect DEF Effect, StepOK
  <2>2. CASE UNCHANGED itVars
    BY <1>1, <2>2 DEF itVars, itTree
  <2> QED BY <2>1, <2>2
<1>3. stored' = stored /\ nodes' = nodes /\ root' = root
  BY <1>2 DEF itTree
<1>4. WalkOK(walk)'
  BY <1>2, <1>3
     DEF WalkOK, Walking, StackOK, FrameOK, Entering, Settled, Wanted
<1> QED BY <1>3, <1>4 DEF WalkInv

\* In every state of every loop, what its frames record is exactly what has not been
\* given yet, and the buffer holds their paths.
THEOREM WalkInvariant == Spec => []WalkInv
<1> QED BY InitWalkInv, NextWalkInv, PTL DEF Spec

\* What is behind the walk's registers, in both halves of the invariant.
LEMMA WalkShape ==
  ASSUME WalkInv
  PROVE  /\ TreeOK /\ WalkTypes(walk) /\ StackOK(walk.dir, walk.stack)
         /\ walk.given \subseteq Wanted(walk)
         /\ walk.phase # "enter" => OnPath(walk.stack, walk.path)
         /\ walk.phase = "enter" => Entering(walk)
<1>1. TreeOK /\ WalkOK(walk)
  BY DEF WalkInv, TreeOK
<1>2. CASE Active(walk)
  BY <1>1, <1>2, WalkFacts DEF Walking
<1>3. CASE ~ Active(walk)
  <2>1. /\ walk.stack = <<>> /\ walk.path = <<>> /\ walk.given = {}
        /\ walk.phase \in {"idle", "panicked"} /\ WalkTypes(walk)
    BY <1>1, <1>3 DEF WalkOK, Active, Resting
  <2>2. StackOK(walk.dir, <<>>) /\ OnPath(<<>>, <<>>)
    BY DEF StackOK, OnPath
  <2> QED BY <1>1, <2>1, <2>2
<1> QED BY <1>2, <1>3

\* Frames fit together: each starts one edge byte behind the frame below it, and its
\* unvisited edges are edges of its node.
THEOREM WalkTypeOK == Spec => []TypeOK
<1>1. WalkInv => TypeOK
  <2> SUFFICES ASSUME WalkInv PROVE TypeOK
    OBVIOUS
  <2>1. /\ WalkTypes(walk) /\ StackOK(walk.dir, walk.stack)
        /\ walk.given \subseteq Wanted(walk)
    BY WalkShape
  <2> QED BY <2>1 DEF TypeOK, WalkTypes, Phases, Wanted, StackOK, FrameOK, Path
<1> QED BY <1>1, WalkInvariant, PTL

\* The buffer the frames share holds the path of every suspended frame, and a subtree
\* is entered with exactly the bytes that lead to it.
THEOREM BufferFollowsWalk == Spec => []PathFollowsWalk
<1>1. WalkInv => PathFollowsWalk
  <2> SUFFICES ASSUME WalkInv PROVE PathFollowsWalk
    OBVIOUS
  <2>1. /\ TreeOK /\ WalkTypes(walk) /\ StackOK(walk.dir, walk.stack)
        /\ walk.stack \in Seq(Frames) /\ walk.path \in Path
    BY WalkShape DEF WalkTypes, StackOK
  <2>2. CASE walk.phase = "enter"
    <3>1. Entering(walk)
      BY <2>2, WalkShape
    <3>2. \A i \in DOMAIN walk.stack : Starts(walk.stack[i].node.at, walk.path)
      BY <2>1, <3>1, AllLeadStarts DEF Entering
    <3>3. walk.cur # nil => Starts(walk.path, walk.cur.at)
      <4>1. stored \in SUBSET Path /\ DOMAIN nodes \subseteq InnerRefs
        BY <2>1, TreeFacts
      <4>2. SlotOK(nodes, stored, walk.cur, walk.path)
        BY <3>1 DEF Entering
      <4>3. walk.cur = nil \/ IsLeaf(walk.cur) \/ IsInner(walk.cur)
        BY <2>1, <4>1, <4>2, SlotKinds
      <4>4. IsLeaf(walk.cur) => LeafSlot(nodes, stored, walk.cur.at, walk.path)
        BY <2>1, <4>1, <4>2, SlotKinds
      <4>5. IsInner(walk.cur) => NodeSlot(nodes, stored, walk.cur, walk.path)
        BY <2>1, <4>1, <4>2, SlotKinds
      <4> QED BY <4>3, <4>4, <4>5 DEF LeafSlot, NodeSlot
    <3>4. ASSUME NEW i \in DOMAIN walk.stack
          PROVE  LET f == walk.stack[i]
                 IN  Len(walk.path) >= f.len /\ Upto(walk.path, f.len) = f.node.at
      <4> DEFINE f == walk.stack[i]
      <4>1. f.len = Len(f.node.at) /\ f.node.at \in Path /\ Starts(f.node.at, walk.path)
        BY <2>1, <3>2, TreeFacts DEF StackOK, FrameOK
      <4>2. Len(f.node.at) <= Len(walk.path) /\ Upto(walk.path, Len(f.node.at)) = f.node.at
        BY <2>1, <4>1, UptoOfStart, StartsOrder
      <4>3. Len(f.node.at) \in Nat /\ Len(walk.path) \in Nat
        BY <2>1, <4>1, Lengths
      <4> QED BY <4>1, <4>2, <4>3
    <3> QED BY <2>2, <3>3, <3>4 DEF PathFollowsWalk
  <2>3. CASE walk.phase # "enter"
    <3>1. OnPath(walk.stack, walk.path)
      BY <2>3, WalkShape
    <3>2. ASSUME NEW i \in DOMAIN walk.stack
          PROVE  LET f == walk.stack[i]
                 IN  Len(walk.path) >= f.len /\ Upto(walk.path, f.len) = f.node.at
      <4> DEFINE f == walk.stack[i]
      <4>1. f.len = Len(f.node.at) /\ f.node.at \in Path /\ Starts(f.node.at, walk.path)
        BY <2>1, <3>1, TreeFacts DEF StackOK, FrameOK, OnPath
      <4>2. Len(f.node.at) <= Len(walk.path) /\ Upto(walk.path, Len(f.node.at)) = f.node.at
        BY <2>1, <4>1, UptoOfStart, StartsOrder
      <4>3. Len(f.node.at) \in Nat /\ Len(walk.path) \in Nat
        BY <2>1, <4>1, Lengths
      <4> QED BY <4>1, <4>2, <4>3
    <3> QED BY <2>3, <3>1, <3>2 DEF PathFollowsWalk, OnPath
  <2> QED BY <2>2, <2>3
<1> QED BY <1>1, WalkInvariant, PTL

\* Pruning is tight: no subtree is entered whose edge admits nothing in the interval.
THEOREM PruningIsTight == Spec => []EntersOnlyRange
<1>1. WalkInv => EntersOnlyRange
  BY WalkShape DEF EntersOnlyRange, Entering
<1> QED BY <1>1, WalkInvariant, PTL
-----------------------------------------------------------------------------
(***************************************************************************)
(* The walk implements the sorted scan.                                    *)
(***************************************************************************)
\* The scan's own copies of the operators.
LEMMA ScanOperators ==
  /\ \A a, b : Scan!Less(a, b) = Less(a, b)
  /\ \A k, start, end : Scan!Within(k, start, end) = KeyInRange(k, start, end)
  /\ \A dir, k, j : Scan!Comes(dir, k, j) = Comes(dir, k, j)
<1>1. \A a, b : Scan!Less(a, b) = Less(a, b)
  BY DEF Scan!Less, Less, Scan!SharedLen, SharedLen, Scan!Upto, Upto
<1> QED BY <1>1 DEF Scan!Within, KeyInRange, Scan!Comes, Comes

\* What the loop body sees of a walk.
View(phase, dir, start, end, given) ==
  [phase |-> phase, dir |-> dir, start |-> start, end |-> end, given |-> given]

Seen(w, phase) == View(phase, w.dir, w.start, w.end, w.given)

\* The loop before a step ...
LEMMA ScanSees ==
  /\ Active(walk) => ScanClient = Seen(walk, IF walk.broke THEN "stopped" ELSE "scanning")
  /\ ~ Active(walk) => ScanClient = Seen(walk, walk.phase)
  /\ Scan!Rest = Wanted(walk) \ walk.given
<1>1. ScanClient.start = walk.start /\ ScanClient.end = walk.end /\ ScanClient.given = walk.given
  BY DEF ScanClient
<1>2. Scan!Rest = Wanted(walk) \ walk.given
  BY <1>1, ScanOperators DEF Scan!Rest, Wanted
<1> QED BY <1>2 DEF ScanClient, Seen, View, Active

\* ... and behind it.
LEMMA ScanSeesNext ==
  /\ Active(walk') => ScanClient' = Seen(walk', IF walk'.broke THEN "stopped" ELSE "scanning")
  /\ ~ Active(walk') => ScanClient' = Seen(walk', walk'.phase)
  BY DEF ScanClient, Seen, View, Active

\* The abstract scan takes the same step, or none.
LEMMA BeginImplements ==
  ASSUME walk.phase = "idle", NEW dir, NEW start, NEW end, Started(walk', dir, start, end),
         walk'.phase \in Phases
  PROVE  Scan!SSBegin(dir, start, end)
<1>1. ScanClient.phase = "idle"
  BY DEF ScanClient
<1> DEFINE v == walk'
           phase == IF Scan!Reversed(start, end) THEN "panicked" ELSE "scanning"
<1>2. ScanClient' = Seen(v, phase)
  BY ScanSeesNext DEF Started, Active
<1>3. v.dir = dir /\ v.start = start /\ v.end = end /\ v.given = {}
  BY DEF Started
<1> HIDE DEF v, phase
<1>4. ScanClient' = [Scan!Resting EXCEPT !.phase = phase, !.dir = dir,
                       !.start = start, !.end = end]
  <2> DEFINE r1 == [Scan!Resting EXCEPT !.phase = phase]
             r2 == [r1 EXCEPT !.dir = dir]
             r3 == [r2 EXCEPT !.start = start]
             r4 == [r3 EXCEPT !.end = end]
  <2>1. Scan!Resting = View("idle", "up", nil, nil, {})
    BY DEF Scan!Resting, View
  <2>2. r1 = View(phase, "up", nil, nil, {})
    BY <2>1 DEF View
  <2>3. ScanClient' = View(phase, dir, start, end, {})
    BY <1>2, <1>3 DEF Seen
  <2>4. r4 = [Scan!Resting EXCEPT !.phase = phase, !.dir = dir, !.start = start, !.end = end]
    OBVIOUS
  <2> HIDE DEF r1
  <2>5. r2 = View(phase, dir, nil, nil, {})
    BY <2>2 DEF View
  <2> HIDE DEF r2
  <2>6. r3 = View(phase, dir, start, nil, {})
    BY <2>5 DEF View
  <2> HIDE DEF r3
  <2>7. r4 = View(phase, dir, start, end, {})
    BY <2>6 DEF View
  <2> HIDE DEF r4
  <2> QED BY <2>7, <2>3, <2>4
<1> QED BY <1>1, <1>4 DEF Scan!SSBegin, phase

\* A key given is the next key of the abstract scan.
LEMMA YieldImplements ==
  ASSUME WalkInv, WalkOK(walk'), Gave(walk, walk')
  PROVE  \E k \in Scan!Rest, goOn \in BOOLEAN : Scan!SSYield(k, goOn)
<1> DEFINE v == walk'
<1>1. PICK k : NextKey(walk, k) /\ v.given = walk.given \cup {k}
  BY DEF Gave
<1>2. /\ Active(walk) /\ Active(v) /\ ~ walk.broke
      /\ v.dir = walk.dir /\ v.start = walk.start /\ v.end = walk.end
  BY DEF Gave, SameLoop
<1>3. v.broke \in BOOLEAN
  BY DEF WalkOK, WalkTypes
<1>4. Scan!Rest = Wanted(walk) \ walk.given /\ ScanClient = Seen(walk, "scanning")
  BY <1>2, ScanSees
<1>5. ScanClient' = Seen(v, IF v.broke THEN "stopped" ELSE "scanning")
  BY <1>2, ScanSeesNext
<1> HIDE DEF v
<1>6. k \in Scan!Rest
  BY <1>1, <1>4 DEF NextKey
<1>7. \A j \in Scan!Rest \ {k} : Scan!Comes(ScanClient.dir, k, j)
  BY <1>1, <1>4, ScanOperators DEF NextKey, Seen, View
<1>8. ScanClient' = [ScanClient EXCEPT !.given = @ \cup {k},
                       !.phase = IF ~ v.broke THEN "scanning" ELSE "stopped"]
  <2> DEFINE x == IF ~ v.broke THEN "scanning" ELSE "stopped"
  <2>1. x = IF v.broke THEN "stopped" ELSE "scanning"
    BY <1>3
  <2> HIDE DEF x
  <2>2. ScanClient' = View(x, walk.dir, walk.start, walk.end, walk.given \cup {k})
    BY <1>1, <1>2, <1>5, <2>1 DEF Seen
  <2>3. ScanClient = View("scanning", walk.dir, walk.start, walk.end, walk.given)
    BY <1>4 DEF Seen
  <2> DEFINE r1 == [ScanClient EXCEPT !.given = walk.given \cup {k}]
             r2 == [r1 EXCEPT !.phase = x]
  <2>4. r1 = View("scanning", walk.dir, walk.start, walk.end, walk.given \cup {k})
    BY <2>3 DEF View
  <2>5. ScanClient.given = walk.given
    BY DEF ScanClient
  <2>6. r2 = [ScanClient EXCEPT !.given = @ \cup {k}, !.phase = x]
    BY <2>5
  <2> HIDE DEF r1
  <2>7. r2 = View(x, walk.dir, walk.start, walk.end, walk.given \cup {k})
    BY <2>4 DEF View
  <2> HIDE DEF r2
  <2> QED BY <2>2, <2>6, <2>7 DEF x
<1>9. ScanClient.phase = "scanning"
  BY <1>4 DEF Seen, View
<1>10. Scan!SSYield(k, ~ v.broke)
  BY <1>7, <1>8, <1>9 DEF Scan!SSYield
<1> QED BY <1>3, <1>6, <1>10

\* A loop that ends has given every key of its interval, or its body broke out.
LEMMA EndImplements ==
  ASSUME WalkInv, EndLoop
  PROVE  Scan!SSEnd
<1>1. WalkOK(walk) /\ walk' = NoWalk
  BY DEF WalkInv, EndLoop
<1>2. ScanClient' = Scan!Resting
  BY <1>1, ScanSeesNext, NoWalkMakes DEF Made, Active, Seen, View, Scan!Resting
<1>3. CASE walk.phase = "panicked"
  <2>1. ScanClient.phase = "panicked"
    BY <1>3 DEF ScanClient
  <2> QED BY <1>2, <2>1 DEF Scan!SSEnd
<1>4. CASE walk.phase = "return" /\ walk.stack = <<>>
  <2>1. Active(walk) /\ Settled(walk)
    BY <1>1, <1>4 DEF Active, WalkOK, Walking
  <2>2. CASE walk.broke
    <3>1. ScanClient.phase = "stopped"
      BY <1>4, <2>2 DEF ScanClient
    <3> QED BY <1>2, <3>1 DEF Scan!SSEnd
  <2>3. CASE ~ walk.broke
    <3>1. ScanClient.phase = "scanning"
      BY <1>4, <2>3 DEF ScanClient
    <3>2. \A k : ~ Owed(walk.dir, walk.stack, k)
      BY <1>4 DEF Owed
    <3>3. Wanted(walk) \subseteq walk.given
      BY <1>4, <2>1, <2>3, <3>2 DEF Settled, Debt
    <3>4. Scan!Rest = {}
      BY <3>3, ScanSees
    <3> QED BY <1>2, <3>1, <3>4 DEF Scan!SSEnd
  <2> QED BY <2>2, <2>3
<1> QED BY <1>3, <1>4 DEF EndLoop

\* Every step is a step of the abstract scan or leaves it alone.
LEMMA NextImplements ==
  ASSUME WalkInv, [Next]_itVars
  PROVE  [Scan!SSNext]_<<stored, ScanClient>>
<1>1. CASE UNCHANGED itVars
  BY <1>1 DEF itVars, ScanClient
<1>2. CASE Next
  <2>1. TreeOK /\ WalkOK(walk)
    BY DEF WalkInv, TreeOK
  <2>2. Effect /\ stored' = stored
    BY <1>2, <2>1, NextEffect DEF itTree
  <2>3. CASE \E dir \in {"up", "down"}, start, end \in Bounds :
               /\ BeginRange(dir, start, end) /\ WalkOK(walk')
               /\ Started(walk', dir, start, end)
    <3>1. PICK dir \in {"up", "down"}, start \in Bounds, end \in Bounds :
            /\ BeginRange(dir, start, end) /\ WalkOK(walk')
            /\ Started(walk', dir, start, end)
      BY <2>3
    <3>2. walk.phase = "idle" /\ walk'.phase \in Phases
      BY <3>1 DEF BeginRange, WalkOK, WalkTypes
    <3>3. Scan!SSBegin(dir, start, end)
      BY <3>1, <3>2, BeginImplements
    <3> QED BY <2>2, <3>3 DEF Scan!SSNext
  <2>4. CASE StepOK(walk, walk')
    <3>1. CASE Silent(walk, walk')
      <4>1. ScanClient' = ScanClient
        BY <3>1, ScanSees, ScanSeesNext DEF Silent, SameLoop, SameGiven, Seen
      <4> QED BY <2>2, <4>1
    <3>2. CASE Gave(walk, walk')
      <4>1. \E k \in Scan!Rest, goOn \in BOOLEAN : Scan!SSYield(k, goOn)
        BY <2>4, <3>2, YieldImplements DEF StepOK
      <4> QED BY <2>2, <4>1 DEF Scan!SSNext
    <3> QED BY <2>4, <3>1, <3>2 DEF StepOK
  <2>5. CASE EndLoop /\ WalkOK(walk')
    BY <2>2, <2>5, EndImplements DEF Scan!SSNext
  <2> QED BY <2>2, <2>3, <2>4, <2>5 DEF Effect
<1> QED BY <1>1, <1>2

\* All, Range and their variants, in both directions, give the loop body the keys of
\* the interval in order, each once, skip none by pruning, and give no key after the
\* body has broken out.
THEOREM WalkIsSortedScan == Spec => ImplementsScan
<1>1. Init => Scan!SSInit
  BY NoWalkMakes DEF Init, Scan!SSInit, ScanClient, Scan!Resting, Made
<1>2. WalkInv /\ [Next]_itVars => [Scan!SSNext]_<<stored, ScanClient>>
  BY NextImplements
<1> QED BY <1>1, <1>2, WalkInvariant, PTL DEF Spec, ImplementsScan, Scan!SSSpec
=============================================================================
