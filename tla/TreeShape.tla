------------------------------ MODULE TreeShape ------------------------------
(***************************************************************************)
(* References to nodes, and the reference definition of the tree that      *)
(* holds a given set of keys.                                              *)
(*                                                                         *)
(* A Go node value is a type and a pointer.  Here it is a reference        *)
(* [kind, at]: a leaf stands at its key, an inner node at its path, the    *)
(* bytes from the root through its prefix.  Splits and merges rewrite a    *)
(* node's prefix but not its path; growing and shrinking allocate another  *)
(* type at the same path.  So references are equal exactly when the Go     *)
(* pointers are, and no identifier has to be invented.                     *)
(***************************************************************************)
EXTENDS NodeKinds, ByteStrings

CONSTANT nil      \* the nil node; also a nil byte slice

Leaf(key) == [kind |-> "leaf", at |-> key]
IsLeaf(r) == r # nil /\ r.kind = "leaf"
IsInner(r) == r # nil /\ r.kind # "leaf"

NodeRefs == [kind : InnerKinds \cup {"leaf"}, at : Seq(Byte)]

ASSUME NilAssumption == nil \notin NodeRefs

-----------------------------------------------------------------------------
Under(K, path) == {k \in K : Starts(path, k)}

Nexts(K, path) == {k[Len(path) + 1] : k \in Under(K, path) \ {path}}

\* An inner node stands exactly where the keys below a path part company.
Forks(K, path) ==
  Nexts(K, path) # {} /\ (path \in K \/ Cardinality(Nexts(K, path)) > 1)

InnerPaths(K) ==
  {path \in UNION {{Upto(k, i) : i \in 0 .. Len(k)} : k \in K} : Forks(K, path)}

RefAt(K, path) ==
  [kind |-> CHOOSE kind \in InnerKinds : KindFits(kind, Cardinality(Nexts(K, path))),
   at |-> path]

\* What a slot holds when the keys under path hang from it.
Top(K, path) ==
  LET below == {q \in InnerPaths(K) : Starts(path, q)}
  IN  IF below # {}
      THEN RefAt(K, CHOOSE q \in below : \A r \in below : Len(q) <= Len(r))
      ELSE IF Under(K, path) = {} THEN nil
      ELSE Leaf(CHOOSE k \in Under(K, path) : TRUE)

\* The bytes of path that its node does not share with the node above.
PrefixAt(K, path) ==
  LET above == {i \in 0 .. Len(path) - 1 : Upto(path, i) \in InnerPaths(K)}
  IN  IF above = {} THEN path
      ELSE From(path, 1 + CHOOSE i \in above : \A j \in above : j <= i)

ShapeOf(K) ==
  [r \in {RefAt(K, path) : path \in InnerPaths(K)} |->
    [prefix   |-> PrefixAt(K, r.at),
     terminal |-> IF r.at \in K THEN Leaf(r.at) ELSE nil,
     children |-> [b \in Nexts(K, r.at) |-> Top(K, Append(r.at, b))]]]
=============================================================================
