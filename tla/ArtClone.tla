------------------------------ MODULE ArtClone ------------------------------
(***************************************************************************)
(* A tree and its clones, seen through the one thing they go on sharing.   *)
(* Clone copies nodes and leaves, but a copied node keeps its prefix: a    *)
(* slice of the same byte array.  Put shortens a prefix by slicing it,     *)
(* and gives new nodes arrays of their own; Delete merges two prefixes     *)
(* into a new array.                                                       *)
(*                                                                         *)
(* The array layouts of a node's children are left out (InnerNode has      *)
(* them), and so are values (ArtTree has them).  An array that no node     *)
(* reaches is gone: the garbage collector has it.                          *)
(***************************************************************************)
EXTENDS FiniteMaps, ByteStrings

CONSTANTS
  Trees,  \* the trees the program holds
  Keys,
  nil

VARIABLES
  root,    \* the root node of each tree, nil when it is empty
  arrays,  \* the byte arrays behind the prefixes
  held     \* the keys that each tree's callers have left in it

vars == <<root, arrays, held>>

Leaf(key) == [kind |-> "leaf", key |-> key]
Inner(prefix) == [kind |-> "inner", prefix |-> prefix, terminal |-> nil, children |-> Empty]
IsLeaf(n) == n.kind = "leaf"

Bound(n, b, child) == [n EXCEPT !.children = With(@, b, child)]
ChildAt(n, b) == IF b \in DOMAIN n.children THEN n.children[b] ELSE nil

Kids(n) == {n.children[b] : b \in DOMAIN n.children}
-----------------------------------------------------------------------------
(***************************************************************************)
(* Slices: the bytes lo to hi - 1 of an array.  An empty slice reaches no  *)
(* byte, so it needs no array.                                             *)
(***************************************************************************)
NoBytes == [array |-> 0, lo |-> 0, hi |-> 0]

BytesOf(s, heap) == IF s = NoBytes THEN <<>> ELSE SubSeq(heap[s.array], s.lo + 1, s.hi)

Length(s) == s.hi - s.lo

\* s[n:]
Sliced(s, n) == IF n = Length(s) THEN NoBytes ELSE [s EXCEPT !.lo = @ + n]

\* append([]byte(nil), bytes...), and the heap with the new array.
Allocated(bytes, heap) ==
  LET id == CHOOSE i \in 1 .. Count(heap) + 1 : i \notin DOMAIN heap
  IN  IF bytes = <<>> THEN [slice |-> NoBytes, heap |-> heap]
      ELSE [slice |-> [array |-> id, lo |-> 0, hi |-> Len(bytes)],
            heap  |-> With(heap, id, bytes)]

Result(n, heap) == [node |-> n, heap |-> heap]
-----------------------------------------------------------------------------
\* newNode4With
NewNode4With(existing, key, depth, heap) ==
  LET a == From(existing.key, depth)
      shared == SharedLen(a, From(key, depth))
      at  == depth + shared
      new == Allocated(Upto(a, shared), heap)
      Hung(n, l) == IF at = Len(l.key) THEN [n EXCEPT !.terminal = l]
                    ELSE Bound(n, l.key[at + 1], l)
  IN  Result(Hung(Hung(Inner(new.slice), existing), Leaf(key)), new.heap)

(***************************************************************************)
(* putInto where the key leaves the prefix, with splitPrefixedInner.  The  *)
(* node's prefix is sliced, shared is read from the old slice afterwards.  *)
(***************************************************************************)
SplitInPlace(n, key, depth, split, heap) ==
  LET prefix == BytesOf(n.prefix, heap)
      tail   == From(prefix, split + 1)
      lo     == n.prefix.lo
      array  == heap[n.prefix.array]
      moved  == [heap EXCEPT ![n.prefix.array] =
                   Upto(@, lo) \o tail \o From(@, lo + Len(tail))]
      short  == IF tail = <<>> THEN NoBytes ELSE [n.prefix EXCEPT !.hi = lo + Len(tail)]
      new    == Allocated(Upto(prefix, split), moved)
      parent == Bound(Inner(new.slice), prefix[split + 1], [n EXCEPT !.prefix = short])
  IN  Result(IF depth + split = Len(key) THEN [parent EXCEPT !.terminal = Leaf(key)]
             ELSE Bound(parent, key[depth + split + 1], Leaf(key)), new.heap)

Split(n, key, depth, split, heap) ==
  LET prefix == BytesOf(n.prefix, heap)
      new    == Allocated(Upto(prefix, split), heap)
      parent == Bound(Inner(new.slice), prefix[split + 1],
                      [n EXCEPT !.prefix = Sliced(@, split + 1)])
  IN  Result(IF depth + split = Len(key) THEN [parent EXCEPT !.terminal = Leaf(key)]
             ELSE Bound(parent, key[depth + split + 1], Leaf(key)), new.heap)

RECURSIVE PutInto(_, _, _, _)
PutInto(n, key, depth, heap) ==
  IF n = nil THEN Result(Leaf(key), heap)
  ELSE IF IsLeaf(n)
  THEN IF n.key = key THEN Result(n, heap) ELSE NewNode4With(n, key, depth, heap)
  ELSE LET prefix == BytesOf(n.prefix, heap)
           split  == SharedLen(From(key, depth), prefix)
           at     == depth + split
       IN  IF split < Len(prefix) THEN Split(n, key, depth, split, heap)
           ELSE IF at = Len(key) THEN Result([n EXCEPT !.terminal = Leaf(key)], heap)
           ELSE LET put == PutInto(ChildAt(n, key[at + 1]), key, at + 1, heap)
                IN  Result(Bound(n, key[at + 1], put.node), put.heap)
-----------------------------------------------------------------------------
\* mergePrefixIntoChild
MergeAppends(prefix, b, child, heap) ==
  LET extra == <<b>> \o BytesOf(child.prefix, heap)
      new   == Allocated(extra, heap)
  IN  IF prefix = NoBytes THEN Result([child EXCEPT !.prefix = new.slice], new.heap)
      ELSE Result([child EXCEPT !.prefix = [prefix EXCEPT !.hi = @ + Len(extra)]],
                  [heap EXCEPT ![prefix.array] =
                     Upto(@, prefix.hi) \o extra \o From(@, prefix.hi + Len(extra))])

Merge(prefix, b, child, heap) ==
  LET new == Allocated(BytesOf(prefix, heap) \o <<b>> \o BytesOf(child.prefix, heap), heap)
  IN  Result([child EXCEPT !.prefix = new.slice], new.heap)

\* reshape
Reshape(n, heap) ==
  CASE DOMAIN n.children = {} -> Result(n.terminal, heap)
    [] Count(n.children) = 1 /\ n.terminal = nil ->
         LET b == CHOOSE b \in DOMAIN n.children : TRUE
         IN  IF IsLeaf(n.children[b]) THEN Result(n.children[b], heap)
             ELSE Merge(n.prefix, b, n.children[b], heap)
    [] OTHER -> Result(n, heap)

(***************************************************************************)
(* deleteFrom.  The code leaves a parent alone when the child is still the *)
(* same object, here when it has the same value: Reshape gives back a node *)
(* that keeps its children and terminal, so the two agree.                 *)
(***************************************************************************)
RECURSIVE DeleteFrom(_, _, _, _)
DeleteFrom(n, key, depth, heap) ==
  IF n = nil THEN Result(nil, heap)
  ELSE IF IsLeaf(n) THEN Result(IF n.key = key THEN nil ELSE n, heap)
  ELSE LET prefix == BytesOf(n.prefix, heap)
           at     == depth + Len(prefix)
       IN  IF ~ Consumes(prefix, key, depth) THEN Result(n, heap)
           ELSE IF at = Len(key)
           THEN IF n.terminal = nil \/ n.terminal.key # key THEN Result(n, heap)
                ELSE Reshape([n EXCEPT !.terminal = nil], heap)
           ELSE LET b     == key[at + 1]
                    child == ChildAt(n, b)
                    del   == DeleteFrom(child, key, at + 1, heap)
                IN  IF del.node = child THEN Result(n, heap)
                    ELSE Reshape(IF del.node = nil THEN [n EXCEPT !.children = Without(@, b)]
                                 ELSE Bound(n, b, del.node), del.heap)
-----------------------------------------------------------------------------
RECURSIVE Finds(_, _, _, _)
Finds(n, key, depth, heap) ==
  IF n = nil THEN FALSE
  ELSE IF IsLeaf(n) THEN n.key = key
  ELSE LET prefix == BytesOf(n.prefix, heap)
           at     == depth + Len(prefix)
       IN  /\ Consumes(prefix, key, depth)
           /\ IF at = Len(key) THEN n.terminal # nil /\ n.terminal.key = key
              ELSE Finds(ChildAt(n, key[at + 1]), key, at + 1, heap)

RECURSIVE ArraysIn(_)
ArraysIn(n) ==
  IF n = nil \/ IsLeaf(n) THEN {}
  ELSE ({n.prefix.array} \ {0}) \cup UNION {ArraysIn(c) : c \in Kids(n)}

\* The heap after a call: the arrays that the trees still reach.
Collected(heap) ==
  [id \in DOMAIN heap \cap UNION {ArraysIn(root'[t]) : t \in Trees} |-> heap[id]]
-----------------------------------------------------------------------------
Init ==
  /\ root = [t \in Trees |-> nil]
  /\ arrays = Empty
  /\ held = [t \in Trees |-> {}]

Put(t, key) ==
  LET put == PutInto(root[t], key, 0, arrays) IN
  /\ root' = [root EXCEPT ![t] = put.node]
  /\ arrays' = Collected(put.heap)
  /\ held' = [held EXCEPT ![t] = @ \cup {key}]

Delete(t, key) ==
  LET del == DeleteFrom(root[t], key, 0, arrays) IN
  /\ root' = [root EXCEPT ![t] = del.node]
  /\ arrays' = Collected(del.heap)
  /\ held' = [held EXCEPT ![t] = @ \ {key}]

\* u = t.Clone(): cloneNode copies every node and leaf, and no array.
Clone(t, u) ==
  /\ root' = [root EXCEPT ![u] = root[t]]
  /\ arrays' = Collected(arrays)
  /\ held' = [held EXCEPT ![u] = held[t]]

Next ==
  \/ \E t \in Trees, key \in Keys : Put(t, key) \/ Delete(t, key)
  \/ \E t \in Trees : \E u \in Trees \ {t} : Clone(t, u)

Spec == Init /\ [][Next]_vars
-----------------------------------------------------------------------------
(***************************************************************************)
(* Each tree finds exactly the keys that its own callers left in it,       *)
(* whatever was put into or deleted from its clones and originals since    *)
(* cloneNode copied the nodes and left the prefix arrays shared.           *)
(***************************************************************************)
TreesAgreeWithCallers ==
  \A t \in Trees, key \in Keys : Finds(root[t], key, 0, arrays) <=> key \in held[t]

\* The tree below n with its prefixes read out of the arrays.
RECURSIVE Spelt(_, _)
Spelt(n, heap) ==
  IF n = nil \/ IsLeaf(n) THEN n
  ELSE [prefix |-> BytesOf(n.prefix, heap), terminal |-> n.terminal,
        children |-> [b \in DOMAIN n.children |-> Spelt(n.children[b], heap)]]

(***************************************************************************)
(* No Put, Delete or Clone changes a byte that a prefix of another tree    *)
(* shows, although split and merge work on slices of shared arrays.        *)
(***************************************************************************)
ClonesStayApart ==
  [][\A t \in Trees : root'[t] = root[t] => Spelt(root[t], arrays') = Spelt(root[t], arrays)]_vars
=============================================================================
