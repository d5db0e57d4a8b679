---------------------------- MODULE ArtTreeProofs ----------------------------
(***************************************************************************)
(* Tree[V] for every set of keys: the steps of Put and Delete rebuild the  *)
(* tree behind one slot at a time, and the whole tree is the one its keys  *)
(* determine; each call takes effect at one instant.                       *)
(***************************************************************************)
EXTENDS ArtTree, TreeShapeProofs

-----------------------------------------------------------------------------
(***************************************************************************)
(* newNode4With.                                                           *)
(***************************************************************************)
\* The fork above a leaf and a new key: it stands where they part company.
LEMMA ForkPlace ==
  ASSUME NEW path \in Path, NEW old \in Path, NEW key \in Path, old # key,
         Starts(path, old), Starts(path, key),
         NEW f, f = ForkRef(old, key, Len(path)),
         NEW m, m = ForkNode(old, key, Len(path))
  PROVE  /\ ~ ForkPanics(old, key, Len(path))
         /\ f \in InnerRefs /\ f.kind = "node4"
         /\ Starts(path, f.at) /\ Starts(f.at, old) /\ Starts(f.at, key)
         /\ m = [prefix |-> m.prefix, terminal |-> m.terminal, children |-> m.children]
         /\ m.prefix = From(f.at, Len(path)) /\ m.prefix \in Path
         /\ m.terminal = IF f.at \in {old, key} THEN Leaf(f.at) ELSE nil
         /\ IsMap(m.children) /\ DOMAIN m.children \subseteq Byte
         /\ \A b \in Byte : LET here == Append(f.at, b) IN
              /\ ~ (Starts(here, old) /\ Starts(here, key))
              /\ b \in DOMAIN m.children <=> Starts(here, old) \/ Starts(here, key)
              /\ \A k \in {old, key} : Starts(here, k) => m.children[b] = Leaf(k)
         /\ Count(m.children) \in {1, 2}
         /\ Count(m.children) = 1 => f.at \in {old, key}
<1> DEFINE d == Len(path)
           i == SharedLen(From(old, d), From(key, d))
           e == Upto(key, d + i)
           at == ForkAt(old, key, d)
           branching == {k \in {old, key} : at < Len(k)}
           edges == {k[at + 1] : k \in branching}
<1>1. /\ i \in Nat /\ i <= Len(old) - d
      /\ e \in Path /\ Len(e) = d + i
      /\ Starts(path, e) /\ Starts(e, old) /\ Starts(e, key)
      /\ Len(e) < Len(old) /\ Len(e) < Len(key) => old[Len(e) + 1] # key[Len(e) + 1]
  BY MeetAt
<1>2. at = Len(e) /\ f = [kind |-> "node4", at |-> e]
  BY <1>1 DEF ForkAt, ForkRef
<1>3. /\ f \in InnerRefs /\ f.kind = "node4" /\ f.at = e
  BY <1>1, <1>2 DEF InnerRefs, InnerKinds
<1>4. /\ m.prefix = SubSeq(key, d + 1, at)
      /\ m.terminal = IF at = Len(old) THEN Leaf(old)
                      ELSE IF at = Len(key) THEN Leaf(key) ELSE nil
      /\ m.children = [b \in edges |-> Leaf(CHOOSE k \in branching : k[at + 1] = b)]
      /\ m = [prefix |-> m.prefix, terminal |-> m.terminal, children |-> m.children]
  BY DEF ForkNode
<1> HIDE DEF at, e, i, edges, branching
<1>5. ~ ForkPanics(old, key, d)
  <2>1. ~ d > Len(old)
    BY StartsOrder, Lengths
  <2> QED BY <2>1, SameRest DEF ForkPanics
<1>6. m.prefix = From(e, d) /\ m.prefix \in Path
  <2>1. SubSeq(key, Len(path) + 1, Len(e)) = From(e, Len(path)) /\ From(e, Len(path)) \in Path
    BY <1>1, Between
  <2>2. at = Len(e) /\ m.prefix = SubSeq(key, d + 1, at)
    BY <1>2, <1>4
  <2> HIDE DEF d
  <2>3. d = Len(path)
    BY DEF d
  <2> QED BY ONLY <2>1, <2>2, <2>3
<1>7. /\ Len(e) \in Nat /\ Len(old) \in Nat /\ Len(key) \in Nat
      /\ Len(e) <= Len(old) /\ Len(e) <= Len(key)
      /\ Len(e) = Len(old) <=> e = old
      /\ Len(e) = Len(key) <=> e = key
  BY <1>1, StartsOrder, Lengths
<1>8. m.terminal = IF e \in {old, key} THEN Leaf(e) ELSE nil
  BY <1>2, <1>4, <1>7
<1>9. \A k \in {old, key} : k \in branching <=> Len(e) < Len(k)
  BY <1>2 DEF branching
<1>10. edges \subseteq Byte
  BY <1>1, <1>2, <1>9, NextByte, <1>7 DEF edges, branching
<1>11. ASSUME NEW b \in Byte, NEW k \in {old, key}
       PROVE  Starts(Append(e, b), k) <=> k \in branching /\ k[at + 1] = b
  <2>1. Starts(Append(e, b), k) <=> Starts(e, k) /\ Len(e) < Len(k) /\ k[Len(e) + 1] = b
    <3>1. k \in Path /\ Starts(e, k)
      BY <1>1
    <3> QED BY <1>1, <3>1, AppendStarts
  <2> QED BY <1>1, <1>2, <1>9, <2>1
<1>12. \A j, k \in branching : j[at + 1] = k[at + 1] => j = k
  BY <1>1, <1>2, <1>9 DEF branching
<1>13. ASSUME NEW b \in Byte
       PROVE  /\ ~ (Starts(Append(e, b), old) /\ Starts(Append(e, b), key))
              /\ b \in edges <=> Starts(Append(e, b), old) \/ Starts(Append(e, b), key)
              /\ \A k \in {old, key} : Starts(Append(e, b), k) => m.children[b] = Leaf(k)
  <2>1. ~ (Starts(Append(e, b), old) /\ Starts(Append(e, b), key))
    BY <1>11, <1>12
  <2>2. b \in edges <=> Starts(Append(e, b), old) \/ Starts(Append(e, b), key)
    BY <1>11 DEF edges, branching
  <2>3. ASSUME NEW k \in {old, key}, Starts(Append(e, b), k)
        PROVE  m.children[b] = Leaf(k)
    <3>1. k \in branching /\ k[at + 1] = b /\ b \in edges
      BY <1>11, <2>3 DEF edges
    <3>2. (CHOOSE j \in branching : j[at + 1] = b) = k
      BY <1>12, <3>1
    <3> QED BY <1>4, <3>1, <3>2
  <2> QED BY <2>1, <2>2, <2>3
<1>14. IsMap(m.children) /\ DOMAIN m.children = edges
  BY <1>4 DEF IsMap
<1>15. Cardinality(edges) \in {1, 2} /\ (Cardinality(edges) = 1 => e \in {old, key})
  <2>1. CASE e \in {old, key}
    <3>1. PICK k \in {old, key} : branching = {k}
      BY <1>7, <1>9, <2>1 DEF branching
    <3>2. edges = {k[at + 1]}
      BY <3>1 DEF edges
    <3> QED BY <2>1, <3>2, FS_Singleton
  <2>2. CASE e \notin {old, key}
    <3>1. branching = {old, key}
      BY <1>7, <1>9, <2>2 DEF branching
    <3> DEFINE x == old[at + 1]
               y == key[at + 1]
    <3>2. edges = {x, y} /\ x # y
      BY <1>12, <3>1 DEF edges
    <3> HIDE DEF x, y
    <3>3. Cardinality({x}) = 1 /\ IsFiniteSet({x}) /\ {x} \cup {y} = {x, y} /\ y \notin {x}
      BY <3>2, FS_Singleton
    <3>4. Cardinality({x, y}) = 2
      <4>1. Cardinality({x} \cup {y}) = Cardinality({x}) + 1
        BY <3>3, FS_AddElement
      <4> QED BY <3>3, <4>1
    <3> QED BY <3>2, <3>4
  <2> QED BY <2>1, <2>2
<1> QED BY <1>1, <1>3, <1>4, <1>5, <1>6, <1>8, <1>10, <1>13, <1>14, <1>15 DEF Count

\* A leaf in a slot gives way to a fork above it and the leaf of a new key.
LEMMA Forked ==
  ASSUME NEW ns, NEW K \in SUBSET Path, NEW path \in Path, IsSlot(ns, path),
         Linked(ns, K, path), AllFull(ns, K), NEW old, LeafSlot(ns, K, old, path),
         NEW key \in Path, Starts(path, key), old # key,
         NEW f, f = ForkRef(old, key, Len(path)),
         NEW ms, ms = With(ns, f, ForkNode(old, key, Len(path)))
  PROVE  /\ ~ ForkPanics(old, key, Len(path)) /\ key \notin K
         /\ Rebuilt(ns, K, ms, K \cup {key}, path, f)
         /\ f \notin DOMAIN ns /\ f \in InnerRefs
<1> DEFINE m == ForkNode(old, key, Len(path))
           J == K \cup {key}
<1> HIDE DEF m
<1>1. old \in Path /\ Starts(path, old) /\ key \notin K /\ J \in SUBSET Path
  BY DEF LeafSlot
<1>2. /\ ~ ForkPanics(old, key, Len(path))
      /\ f \in InnerRefs /\ f.kind = "node4"
      /\ Starts(path, f.at) /\ Starts(f.at, old) /\ Starts(f.at, key)
      /\ m = [prefix |-> m.prefix, terminal |-> m.terminal, children |-> m.children]
      /\ m.prefix = From(f.at, Len(path)) /\ m.prefix \in Path
      /\ m.terminal = IF f.at \in {old, key} THEN Leaf(f.at) ELSE nil
      /\ IsMap(m.children) /\ DOMAIN m.children \subseteq Byte
      /\ Count(m.children) \in {1, 2}
      /\ Count(m.children) = 1 => f.at \in {old, key}
  BY <1>1, ForkPlace DEF m
<1>3. ASSUME NEW b \in Byte
      PROVE  /\ ~ (Starts(Append(f.at, b), old) /\ Starts(Append(f.at, b), key))
             /\ b \in DOMAIN m.children <=>
                  Starts(Append(f.at, b), old) \/ Starts(Append(f.at, b), key)
             /\ \A k \in {old, key} : Starts(Append(f.at, b), k) => m.children[b] = Leaf(k)
  BY <1>1, ForkPlace DEF m
<1>4. \A k \in K : Starts(path, k) => k = old
  BY DEF LeafSlot
<1>5. \A r \in DOMAIN ns : ~ Starts(path, r.at)
  BY DEF LeafSlot
<1>6. f \notin DOMAIN ns /\ f.at \in Path
  BY <1>2, <1>5, RefKinds
<1>7. /\ DOMAIN ms = DOMAIN ns \cup {f} /\ ms[f] = m
      /\ \A r \in DOMAIN ns : ms[r] = ns[r]
  BY <1>6 DEF With, m
<1>8. DOMAIN ns \subseteq InnerRefs
  BY LinkedTypes
<1>9. f.at \in J <=> f.at \in {old, key}
  BY <1>2, <1>4 DEF LeafSlot
<1>10. NodeOK(ms, J, f)
  <2>1. \A b \in DOMAIN m.children : m.children[b] # nil
    BY <1>1, <1>2, <1>3, RefKinds
  <2>2. m.terminal = IF f.at \in J THEN Leaf(f.at) ELSE nil
    BY <1>2, <1>9
  <2> HIDE DEF J
  <2> QED BY <1>2, <1>7, <2>1, <2>2 DEF NodeOK
<1>11. ASSUME NEW b \in Byte
       PROVE  SlotOK(ms, J, ChildIn(ms, f, b), Append(f.at, b))
  <2> DEFINE here == Append(f.at, b)
             c == ChildIn(ms, f, b)
  <2>1. /\ here \in Path /\ Starts(path, here) /\ Starts(f.at, here)
        /\ Len(here) = Len(f.at) + 1 /\ Len(f.at) \in Nat
    BY <1>2, <1>6, Deeper, Lengths
  <2>2. \A q \in Path : Starts(here, q) => Starts(path, q)
    BY <2>1, StartsOrder
  <2>3. c = IF Starts(here, old) THEN Leaf(old)
            ELSE IF Starts(here, key) THEN Leaf(key) ELSE nil
    BY <1>3, <1>7 DEF ChildIn
  <2>4. ~ (Starts(here, old) /\ Starts(here, key))
    BY <1>3
  <2> HIDE DEF here, c
  <2>5. \A k \in J : Starts(here, k) => k \in {old, key}
    BY <1>1, <1>4, <2>2
  <2>6. ~ Starts(here, f.at)
    BY <1>6, <2>1, StartsOrder
  <2>7. \A r \in DOMAIN ms : ~ Starts(here, r.at)
    BY <1>5, <1>7, <1>8, <2>2, <2>6, RefKinds
  <2>8. ASSUME NEW k \in {old, key}, Starts(here, k), c = Leaf(k)
        PROVE  SlotOK(ms, J, c, here)
    <3>1. c.at = k /\ k \in J
      BY <1>1, <2>8, RefKinds DEF LeafSlot
    <3>2. LeafSlot(ms, J, k, here)
      BY <2>4, <2>5, <2>7, <2>8, <3>1 DEF LeafSlot
    <3> QED BY <2>8, <3>1, <3>2 DEF SlotOK
  <2>9. ASSUME ~ Starts(here, old), ~ Starts(here, key)
        PROVE  SlotOK(ms, J, c, here)
    <3>1. EmptySlot(ms, J, here)
      BY <2>5, <2>7, <2>9 DEF EmptySlot
    <3> QED BY <2>3, <2>9, <3>1 DEF SlotOK
  <2>10. SlotOK(ms, J, c, here)
    BY <2>3, <2>8, <2>9
  <2> QED BY <2>10 DEF here, c
<1>12. Linked(ms, J, path) /\ SlotOK(ms, J, f, path)
  <2>1. \A k \in Path : ~ Starts(path, k) => (k \in J <=> k \in K)
    OBVIOUS
  <2>2. \A k \in J : Starts(path, k) => Starts(f.at, k)
    BY <1>2, <1>4
  <2>3. ms[f].prefix = From(f.at, Len(path))
    BY <1>2, <1>7
  <2>4. f \in InnerRefs /\ Starts(path, f.at) /\ DOMAIN ms = DOMAIN ns \cup {f}
    BY <1>2, <1>7
  <2>5. \A r \in DOMAIN ns : ms[r] = ns[r]
    BY <1>7
  <2>6. \A b \in Byte : SlotOK(ms, J, ChildIn(ms, f, b), Append(f.at, b))
    BY <1>11
  <2>7. J \in SUBSET Path
    BY <1>1
  <2> HIDE DEF J
  <2> QED BY ONLY K \in SUBSET Path, path \in Path, IsSlot(ns, path), Linked(ns, K, path),
                  <1>5, <1>10, <2>1, <2>2, <2>3, <2>4, <2>5, <2>6, <2>7, Planted
<1>13. AllFull(ms, J)
  <2>1. Full(ms, J, f) /\ Inhabited(J, f)
    <3>1. KindFits(f.kind, Count(m.children))
      BY <1>2, FewFit
    <3> QED BY <1>2, <1>7, <1>9, <3>1 DEF Full, Inhabited
  <2>2. ASSUME NEW r \in DOMAIN ns PROVE Full(ms, J, r) /\ Inhabited(J, r)
    BY <1>7, StaysFull DEF AllFull
  <2> QED BY <1>7, <2>1, <2>2 DEF AllFull
<1>14. SameBeside(ns, K, ms, J, path) /\ IsMap(ms)
  BY <1>2, <1>7, HeapsAreMaps DEF SameBeside
<1> QED BY <1>1, <1>2, <1>6, <1>7, <1>12, <1>13, <1>14 DEF Rebuilt

-----------------------------------------------------------------------------
(***************************************************************************)
(* What Put does behind the slot at path.                                  *)
(***************************************************************************)
\* insertLeaf in an empty slot.
LEMMA LeafPut ==
  ASSUME NEW ns, NEW K \in SUBSET Path, NEW path \in Path, IsSlot(ns, path),
         Linked(ns, K, path), AllFull(ns, K), IsMap(ns), EmptySlot(ns, K, path),
         NEW key \in Path, Starts(path, key)
  PROVE  key \notin K /\ Rebuilt(ns, K, ns, K \cup {key}, path, Leaf(key))
<1> DEFINE J == K \cup {key}
<1>1. key \notin K /\ Linked(ns, J, path) /\ SlotOK(ns, J, Leaf(key), path)
  BY LeafAdded
<1>2. AllFull(ns, J)
  BY StaysFull DEF AllFull
<1>3. SameBeside(ns, K, ns, J, path)
  BY DEF SameBeside
<1> QED BY <1>1, <1>2, <1>3 DEF Rebuilt

\* A new key whose bytes end at a node becomes its terminal.
LEMMA TerminalPut ==
  ASSUME NEW ns, NEW K \in SUBSET Path, NEW path \in Path, IsSlot(ns, path),
         Linked(ns, K, path), AllFull(ns, K), NEW r, NodeSlot(ns, K, r, path),
         r.at \notin K,
         NEW J, J = K \cup {r.at}, NEW ms, ms = WithTerminal(ns, r, J)
  PROVE  Rebuilt(ns, K, ms, J, path, r)
<1>1. DOMAIN ns \subseteq InnerRefs /\ r \in DOMAIN ns /\ r.at \in Path /\ J \in SUBSET Path
  BY LinkedTypes, RefKinds DEF NodeSlot
<1>2. SameKeysBut(K, J, r.at) /\ K \subseteq J
  BY DEF SameKeysBut
<1>3. Retermed(ns, K, ms, J, r) /\ Linked(ms, J, path)
  BY <1>1, <1>2, TerminalSet
<1>4. SlotOK(ms, J, r, path)
  BY <1>3 DEF SlotOK, Retermed
<1>5. AllFull(ms, J)
  <2>1. \A s \in DOMAIN ns : ms[s].children = ns[s].children
    BY <1>3 DEF Retermed
  <2>2. ASSUME NEW s \in DOMAIN ns PROVE Full(ms, J, s) /\ Inhabited(J, s)
    <3>1. Full(ns, K, s) /\ Inhabited(K, s) /\ ms[s].children = ns[s].children
      BY <2>1 DEF AllFull
    <3> QED BY ONLY <1>2, <3>1, StaysFull
  <2> QED BY <1>3, <2>2 DEF AllFull, Retermed
<1>6. SameBeside(ns, K, ms, J, path)
  BY <1>2, <1>3 DEF SameBeside, NodeSlot, Retermed, SameKeysBut
<1>7. IsMap(ms)
  BY DEF IsMap, WithTerminal
<1> QED BY <1>3, <1>4, <1>5, <1>6, <1>7 DEF Rebuilt

\* r has the children m, and everything is linked.
Filled(ns, K, ms, r, m, path) ==
  /\ DOMAIN ms = DOMAIN ns /\ ms[r].children = m /\ ms[r].terminal = ns[r].terminal
  /\ \A s \in DOMAIN ns \ {r} : ms[s] = ns[s]
  /\ Linked(ms, K, <<>>) /\ Linked(ms, K, path) /\ NodeSlot(ms, K, r, path)
  /\ SameBeside(ns, K, ms, K, path) /\ SlotsKept(ns, K, ms, K) /\ IsSlot(ms, path)

\* The children of a node r change at b, whose slot is as it should be: r
\* holds its place, and nothing is left open.
LEMMA SlotFilled ==
  ASSUME NEW ns, NEW K \in SUBSET Path, NEW path \in Path, IsSlot(ns, path),
         NEW r, NodeSlot(ns, K, r, path),
         NEW b, NEW m, Closing(ns, K, r, b, m),
         NEW ms, ms = WithChildren(ns, r, m)
  PROVE  Filled(ns, K, ms, r, m, path)
<1>1. r \in DOMAIN ns
  BY DEF NodeSlot
<1>2. \A s \in DOMAIN ns \ {r} : ms[s] = ns[s]
  BY DEF WithChildren
<1>3. /\ DOMAIN ms = DOMAIN ns
      /\ ms[r].children = m /\ ms[r].terminal = ns[r].terminal
      /\ Linked(ms, K, <<>>) /\ SlotsKept(ns, K, ms, K)
  BY HoleFilled
<1>4. SlotOK(ns, K, r, path) /\ IsInner(r)
  BY <1>1, LinkedTypes, RefKinds DEF SlotOK, Closing
<1>5. SlotOK(ms, K, r, path) /\ NodeSlot(ms, K, r, path)
  <2>1. SlotOK(ms, K, r, path)
    BY <1>3, <1>4 DEF SlotsKept
  <2> QED BY <1>3, <1>4, <2>1, LinkedTypes, SlotKinds
<1>6. SameBeside(ns, K, ms, K, path)
  BY <1>2, <1>3 DEF SameBeside, NodeSlot
<1>7. IsSlot(ms, path)
  BY <1>3 DEF IsSlot
<1> QED BY <1>2, <1>3, <1>5, <1>6, <1>7, AnyHole DEF Filled

-----------------------------------------------------------------------------
(***************************************************************************)
(* What one slot of a node r hides is rebuilt: r stays.                    *)
(***************************************************************************)
\* Beside a slot nothing changes, through two changes.
LEMMA BesideTwice ==
  ASSUME NEW ns, NEW K, NEW ms, NEW J, NEW os, NEW L, NEW path,
         SameBeside(ns, K, ms, J, path), SameBeside(ms, J, os, L, path)
  PROVE  SameBeside(ns, K, os, L, path)
<1>1. ASSUME NEW k \in Path, ~ Starts(path, k) PROVE k \in L <=> k \in K
  BY <1>1 DEF SameBeside
<1>2. ASSUME NEW r \in InnerRefs, ~ Starts(path, r.at)
      PROVE  /\ r \in DOMAIN os <=> r \in DOMAIN ns
             /\ r \in DOMAIN ns => os[r] = ns[r]
  BY <1>2 DEF SameBeside
<1> QED BY <1>1, <1>2 DEF SameBeside

\* What is beside a slot is beside the slots behind it.
LEMMA BesideAbove ==
  ASSUME NEW ns, NEW K, NEW ms, NEW J, NEW path \in Path, NEW here \in Path,
         Starts(path, here), SameBeside(ns, K, ms, J, here)
  PROVE  SameBeside(ns, K, ms, J, path)
<1>1. \A q \in Path : ~ Starts(path, q) => ~ Starts(here, q)
  BY StartsOrder
<1>2. \A r \in InnerRefs : r.at \in Path
  BY RefKinds
<1> QED BY <1>1, <1>2 DEF SameBeside

\* r holds its place behind the slot at path, and so does the slot.
Stays(ns, K, ms, J, r, path) ==
  /\ r \in DOMAIN ns /\ r \in DOMAIN ms /\ ms[r] = ns[r] /\ (r.at \in J <=> r.at \in K)
  /\ NodeSlot(ms, J, r, path) /\ IsSlot(ms, path)
  /\ SameBeside(ns, K, ms, J, path)

\* What is rebuilt behind an edge of r does not concern r.
LEMMA ParentStays ==
  ASSUME NEW ns, NEW K \in SUBSET Path, NEW ms, NEW J \in SUBSET Path,
         NEW path \in Path, IsSlot(ns, path), NEW hole, Linked(ns, K, hole),
         NEW r, NodeSlot(ns, K, r, path), NEW b \in Byte,
         NEW here, here = Append(r.at, b), NEW c, Rebuilt(ns, K, ms, J, here, c)
  PROVE  Stays(ns, K, ms, J, r, path)
<1>1. DOMAIN ns \subseteq InnerRefs /\ DOMAIN ms \subseteq InnerRefs
  BY LinkedTypes DEF Rebuilt
<1>2. r \in DOMAIN ns /\ r \in InnerRefs /\ r.at \in Path /\ Starts(path, r.at) /\ IsInner(r)
  BY <1>1, RefKinds DEF NodeSlot
<1>3. /\ here # path /\ here \in Path /\ Starts(path, here)
      /\ Starts(r.at, here) /\ Len(here) = Len(r.at) + 1
  BY <1>2, Deeper
<1>4. ~ Starts(here, r.at) /\ ~ Starts(here, path)
  BY ONLY path \in Path, <1>2, <1>3, StartsOrder, Lengths
<1>5. SameBeside(ns, K, ms, J, here)
  BY DEF Rebuilt
<1>6. r \in DOMAIN ms /\ ms[r] = ns[r] /\ (r.at \in J <=> r.at \in K)
  BY <1>2, <1>4, <1>5 DEF SameBeside
<1>7. IsSlot(ns, here)
  BY <1>2 DEF IsSlot
<1>8. SlotOK(ns, K, r, path)
  BY <1>2 DEF SlotOK
<1>9. SlotOK(ms, J, r, path)
  BY <1>1, <1>3, <1>4, <1>5, <1>7, <1>8, SlotElsewhere
<1>10. NodeSlot(ms, J, r, path)
  BY <1>1, <1>2, <1>9, SlotKinds
<1>11. SameBeside(ns, K, ms, J, path)
  BY <1>3, <1>5, BesideAbove
<1>12. IsSlot(ms, path)
  <2>1. CASE path = <<>>
    BY <2>1 DEF IsSlot
  <2>2. ASSUME NEW s \in DOMAIN ns, NEW e \in Byte, path = Append(s.at, e)
        PROVE  IsSlot(ms, path)
    <3>1. s.at \in Path /\ s \in InnerRefs
      BY <1>1, RefKinds
    <3>2. ~ Starts(path, s.at) /\ Starts(path, here)
      <4>1. Len(path) = Len(s.at) + 1 /\ Len(s.at) \in Nat
        BY <2>2, <3>1, Deeper, StartsOrder, Lengths
      <4> QED BY <1>3, <3>1, <4>1, StartsOrder, Lengths
    <3>3. ~ Starts(here, s.at)
      BY <1>3, <3>1, <3>2, StartsOrder
    <3>4. s \in DOMAIN ms
      BY <1>5, <3>1, <3>3 DEF SameBeside
    <3> QED BY <2>2, <3>4 DEF IsSlot
  <2> QED BY <2>1, <2>2 DEF IsSlot
<1> QED BY <1>2, <1>6, <1>10, <1>11, <1>12 DEF Stays

\* The edge b of r gets what its slot has to hold.
LEMMA EdgeSet ==
  ASSUME NEW ns, NEW K \in SUBSET Path, NEW r \in DOMAIN ns, NEW b \in Byte,
         NEW here, here = Append(r.at, b), Linked(ns, K, here),
         NEW c, c # nil, SlotOK(ns, K, c, here),
         NEW m, m = With(ns[r].children, b, c)
  PROVE  Closing(ns, K, r, b, m)
<1>1. NodeOK(ns, K, r)
  BY DEF Linked
<1>2. /\ DOMAIN m = DOMAIN ns[r].children \cup {b} /\ m[b] = c
      /\ \A e \in DOMAIN m \ {b} : m[e] = ns[r].children[e]
  BY DEF With
<1>3. EdgeMap(m)
  BY <1>1, <1>2, HeapsAreMaps DEF EdgeMap, NodeOK
<1>4. SameEdges(m, ns[r].children, b)
  BY <1>2 DEF SameEdges
<1>5. EdgeOf(m, b) = c
  BY <1>2 DEF EdgeOf
<1> QED BY <1>2, <1>3, <1>4, <1>5 DEF Closing

\* The edge b of r goes, for nothing is left behind it.
LEMMA EdgeCut ==
  ASSUME NEW ns, NEW K \in SUBSET Path, NEW r \in DOMAIN ns, NEW b \in Byte,
         NEW here, here = Append(r.at, b), Linked(ns, K, here),
         SlotOK(ns, K, nil, here),
         NEW m, m = Without(ns[r].children, b)
  PROVE  Closing(ns, K, r, b, m)
<1>1. NodeOK(ns, K, r)
  BY DEF Linked
<1>2. /\ DOMAIN m = DOMAIN ns[r].children \ {b}
      /\ \A e \in DOMAIN m : m[e] = ns[r].children[e]
  BY DEF Without
<1>3. EdgeMap(m)
  BY <1>1, <1>2, HeapsAreMaps DEF EdgeMap, NodeOK
<1>4. SameEdges(m, ns[r].children, b)
  BY <1>2 DEF SameEdges
<1>5. EdgeOf(m, b) = nil
  BY <1>2 DEF EdgeOf
<1> QED BY <1>2, <1>3, <1>4, <1>5 DEF Closing

\* Storing a child through an existing edge.
StoreChild(ns, r, b, c) == [ns EXCEPT ![r].children[b] = c]

\* Storing a child under an edge replaces one entry of the children.
LEMMA StoredIsWith ==
  ASSUME NEW ns, NEW r \in DOMAIN ns, IsMap(ns[r].children),
         NEW b \in DOMAIN ns[r].children, NEW c
  PROVE  StoreChild(ns, r, b, c) = WithChildren(ns, r, With(ns[r].children, b, c))
<1>1. [ns[r].children EXCEPT ![b] = c] = With(ns[r].children, b, c)
  BY DEF IsMap, With
<1> DEFINE m == With(ns[r].children, b, c)
<1>2. StoreChild(ns, r, b, c) = [ns EXCEPT ![r].children = [ns[r].children EXCEPT ![b] = c]]
  BY DEF StoreChild
<1>3. StoreChild(ns, r, b, c) = [ns EXCEPT ![r].children = m]
  BY <1>1, <1>2
<1> QED BY <1>3 DEF WithChildren

\* A suspended frame of Put or Delete stores what the call below it returned.
LEMMA SlotStored ==
  ASSUME NEW ns, NEW K \in SUBSET Path, NEW path \in Path, IsSlot(ns, path),
         AllFull(ns, K), NEW r, NodeSlot(ns, K, r, path),
         NEW b \in DOMAIN ns[r].children,
         NEW here, here = Append(r.at, b), Linked(ns, K, here),
         NEW c, c # nil, SlotOK(ns, K, c, here),
         NEW ms, ms = StoreChild(ns, r, b, c)
  PROVE  Rebuilt(ns, K, ms, K, path, r) /\ Linked(ms, K, <<>>)
<1> DEFINE m == With(ns[r].children, b, c)
<1>1. r \in DOMAIN ns /\ b \in Byte /\ IsMap(ns[r].children)
  BY DEF NodeSlot, Linked, NodeOK
<1>2. Closing(ns, K, r, b, m)
  BY <1>1, EdgeSet
<1>3. DOMAIN m = DOMAIN ns[r].children
  BY DEF With
<1>4. ms = WithChildren(ns, r, m)
  BY <1>1, StoredIsWith
<1> HIDE DEF m
<1>5. Filled(ns, K, ms, r, m, path)
  BY <1>2, <1>4, SlotFilled
<1>6. /\ DOMAIN ms = DOMAIN ns /\ ms[r].children = m
      /\ \A s \in DOMAIN ns \ {r} : ms[s] = ns[s]
      /\ Linked(ms, K, <<>>) /\ Linked(ms, K, path) /\ NodeSlot(ms, K, r, path)
      /\ SameBeside(ns, K, ms, K, path)
  BY <1>5 DEF Filled
<1>7. AllFull(ms, K)
  BY <1>3, <1>6 DEF AllFull, Full, Inhabited, Count
<1>8. IsMap(ms)
  BY <1>4, HeapsAreMaps DEF WithChildren, IsMap
<1>9. SlotOK(ms, K, r, path)
  BY <1>6 DEF SlotOK
<1> QED BY <1>6, <1>7, <1>8, <1>9 DEF Rebuilt

\* A heap in which r has other children, without r.
LEMMA RestOfHeap ==
  ASSUME NEW ns, NEW r \in DOMAIN ns, NEW m, NEW ms, ms = WithChildren(ns, r, m)
  PROVE  Without(ms, r) = Without(ns, r) /\ ms[r] = [ns[r] EXCEPT !.children = m]
<1>1. /\ DOMAIN ms = DOMAIN ns /\ ms[r] = [ns[r] EXCEPT !.children = m]
      /\ \A s \in DOMAIN ns \ {r} : ms[s] = ns[s]
  BY DEF WithChildren
<1>2. Without(ms, r) = Without(ns, r)
  BY <1>1 DEF Without
<1> QED BY <1>1, <1>2

\* addOrGrow: a key that leaves r with a new byte gets an edge of its own.
LEMMA ChildAdded ==
  ASSUME NEW ns, NEW K \in SUBSET Path, NEW path \in Path, IsSlot(ns, path),
         Linked(ns, K, <<>>), AllFull(ns, K), IsMap(ns), NEW r, NodeSlot(ns, K, r, path),
         NEW b \in Byte, ChildIn(ns, r, b) = nil,
         NEW key \in Path, NEW here, here = Append(r.at, b), Starts(here, key),
         NEW g, g = Grown(ns, r, b, Leaf(key))
  PROVE  key \notin K /\ Rebuilt(ns, K, g.nodes, K \cup {key}, path, g.ref)
<1> DEFINE J == K \cup {key}
           m == With(ns[r].children, b, Leaf(key))
           n == Count(ns[r].children)
           s == [kind |-> GrownKind(r.kind, n), at |-> r.at]
           ms == WithChildren(ns, r, m)
           os == With(Without(ms, r), s, ms[r])
<1>1. /\ r \in DOMAIN ns /\ r \in InnerRefs /\ r.at \in Path /\ r.kind \in InnerKinds
      /\ r = [kind |-> r.kind, at |-> r.at] /\ NodeOK(ns, K, r) /\ DOMAIN ns \subseteq InnerRefs
  <2>1. DOMAIN ns \subseteq InnerRefs /\ r \in DOMAIN ns /\ NodeOK(ns, K, r)
    BY LinkedTypes DEF NodeSlot, Linked
  <2>2. r = [kind |-> r.kind, at |-> r.at]
    BY <2>1 DEF InnerRefs
  <2> QED BY <2>1, <2>2, RefKinds
<1>2. here \in Path /\ IsSlot(ns, here) /\ here # <<>>
  BY <1>1, Deeper, StartsOrder DEF IsSlot, NodeSlot
<1>3. EmptySlot(ns, K, here)
  <2>1. SlotOK(ns, K, nil, here)
    BY <1>1, <1>2 DEF Linked
  <2> QED BY <1>1, <1>2, <2>1, SlotKinds
<1>4. key \notin K /\ J \in SUBSET Path /\ Rebuilt(ns, K, ns, J, here, Leaf(key))
  BY <1>2, <1>3, AnyHole, LeafPut
<1> HIDE DEF J
<1>5. NodeSlot(ns, J, r, path) /\ SameBeside(ns, K, ns, J, path)
  <2>1. Stays(ns, K, ns, J, r, path)
    BY <1>4, ParentStays
  <2> QED BY <2>1 DEF Stays
<1>6. Closing(ns, J, r, b, m)
  BY <1>1, <1>4, RefKinds, EdgeSet DEF Rebuilt
<1>7. /\ DOMAIN m = DOMAIN ns[r].children \cup {b}
      /\ b \notin DOMAIN ns[r].children /\ DOMAIN ns[r].children \subseteq Byte
  <2>1. b \notin DOMAIN ns[r].children
    BY <1>1 DEF ChildIn, NodeOK
  <2> QED BY <1>1, <2>1 DEF With, NodeOK
<1> HIDE DEF m
<1>8. Filled(ns, J, ms, r, m, path)
  BY <1>4, <1>5, <1>6, SlotFilled
<1>9. s \in InnerRefs /\ KindFits(s.kind, n + 1) /\ Count(m) = n + 1 /\ n \in Nat /\ n # 0
  <2>1. IsFiniteSet(DOMAIN ns[r].children) /\ n \in Nat
    BY <1>7, CountType
  <2>2. Count(m) = n + 1 /\ n + 1 <= node256Capacity
    <3>1. DOMAIN m \subseteq Byte
      BY <1>7
    <3>2. Cardinality(DOMAIN ns[r].children \cup {b}) = Cardinality(DOMAIN ns[r].children) + 1
      BY <1>7, <2>1, FS_AddElement
    <3> QED BY <1>7, <3>1, <3>2, CountType DEF Count
  <2>3. KindFits(r.kind, n) /\ n # 0
    BY <1>1 DEF AllFull, Full
  <2> QED BY <1>1, <2>1, <2>2, <2>3, GrownFits DEF InnerRefs
<1>10. g.ref = s /\ g.nodes = os
  <2>1. [r EXCEPT !.kind = GrownKind(r.kind, n)] = s
    BY <1>1
  <2>2. Without(ms, r) = Without(ns, r) /\ ms[r] = [ns[r] EXCEPT !.children = m]
    BY <1>1, RestOfHeap
  <2>3. [ns[r] EXCEPT !.children = With(@, b, Leaf(key))] = [ns[r] EXCEPT !.children = m]
    BY DEF m
  <2> QED BY <2>1, <2>2, <2>3 DEF Grown
<1> HIDE DEF ms, s
<1>11. /\ DOMAIN ms = DOMAIN ns /\ ms[r].children = m
       /\ \A t \in DOMAIN ns \ {r} : ms[t] = ns[t]
       /\ Linked(ms, J, path) /\ NodeSlot(ms, J, r, path)
       /\ SameBeside(ns, J, ms, J, path) /\ IsSlot(ms, path)
  BY <1>8 DEF Filled
<1>12. /\ DOMAIN os = (DOMAIN ms \ {r}) \cup {s} /\ os[s] = ms[r]
       /\ \A t \in DOMAIN ms \ {r} : os[t] = ms[t]
       /\ Linked(os, J, path) /\ SlotOK(os, J, s, path)
  <2>1. s.at = r.at
    BY DEF s
  <2> QED BY <1>4, <1>9, <1>11, <2>1, Rekinded
<1>13. IsMap(os)
  BY HeapsAreMaps
<1> HIDE DEF os
<1>14. s.at = r.at /\ Starts(path, r.at)
  BY <1>5 DEF s, NodeSlot
<1>15. SameBeside(ns, K, os, J, path)
  <2>1. SameBeside(ms, J, os, J, path)
    BY <1>12, <1>14 DEF SameBeside
  <2> QED BY <1>5, <1>11, <2>1, BesideTwice
<1>16. AllFull(os, J)
  <2>1. K \subseteq J
    BY DEF J
  <2>2. ASSUME NEW t \in DOMAIN os, t # s
        PROVE  Full(os, J, t) /\ Inhabited(J, t)
    <3>1. t \in DOMAIN ns /\ os[t].children = ns[t].children
      BY <1>11, <1>12, <2>2
    <3> QED BY <2>1, <3>1, StaysFull DEF AllFull
  <2>3. Full(os, J, s) /\ Inhabited(J, s)
    <3>1. Count(os[s].children) = n + 1 /\ n + 1 # 1 /\ n + 1 # 0
      BY <1>9, <1>11, <1>12
    <3>2. Full(os, J, s)
      BY <1>9, <3>1 DEF Full
    <3>3. Inhabited(J, s)
      BY <1>1, <1>14, <2>1 DEF AllFull, Inhabited
    <3> QED BY <3>2, <3>3
  <2> QED BY <2>2, <2>3 DEF AllFull
<1> QED BY <1>4, <1>10, <1>12, <1>13, <1>15, <1>16 DEF Rebuilt, J

\* A new node beside a change of r's children: the order does not matter.
LEMMA StoredBeside ==
  ASSUME NEW ns, NEW r \in DOMAIN ns, NEW f, f \notin DOMAIN ns, NEW x,
         NEW b, NEW c, NEW ns1, ns1 = With(ns, f, x)
  PROVE  StoreChild(ns1, r, b, c) = With(StoreChild(ns, r, b, c), f, x)
<1>1. /\ DOMAIN ns1 = DOMAIN ns \cup {f} /\ ns1[f] = x /\ f # r
      /\ \A s \in DOMAIN ns : ns1[s] = ns[s]
      /\ IsMap(ns1)
  BY DEF With, IsMap
<1> DEFINE left == StoreChild(ns1, r, b, c)
           old == StoreChild(ns, r, b, c)
           right == With(old, f, x)
<1>2. /\ IsMap(left) /\ DOMAIN left = DOMAIN ns1
      /\ left[r] = [ns1[r] EXCEPT !.children[b] = c]
      /\ \A s \in DOMAIN ns1 \ {r} : left[s] = ns1[s]
  BY <1>1 DEF StoreChild, IsMap
<1>3. /\ DOMAIN old = DOMAIN ns
      /\ old[r] = [ns[r] EXCEPT !.children[b] = c]
      /\ \A s \in DOMAIN ns \ {r} : old[s] = ns[s]
  BY DEF StoreChild
<1> HIDE DEF old
<1>4. /\ IsMap(right) /\ DOMAIN right = DOMAIN old \cup {f} /\ right[f] = x
      /\ \A s \in DOMAIN old \ {f} : right[s] = old[s]
  BY DEF With, IsMap
<1> HIDE DEF left, right
<1>5. left[r] = right[r]
  <2>1. ns1[r] = ns[r]
    BY <1>1
  <2>2. right[r] = old[r]
    BY <1>1, <1>3, <1>4
  <2> QED BY <1>2, <1>3, <2>1, <2>2
<1>6. DOMAIN left = DOMAIN right /\ \A s \in DOMAIN left : left[s] = right[s]
  BY <1>1, <1>2, <1>3, <1>4, <1>5
<1>7. left = right
  BY <1>2, <1>4, <1>6 DEF IsMap
<1> QED BY <1>7 DEF left, right, old

\* The leaf of old, behind the edge b of r, gives way to a fork f.
ForkedChild(ns, r, b, old, key, here, f, ms) ==
  /\ ChildIn(ns, r, b) = Leaf(old) /\ here = Append(r.at, b)
  /\ f = ForkRef(old, key, Len(here))
  /\ ms = With(StoreChild(ns, r, b, f), f, ForkNode(old, key, Len(here)))

\* newNode4With behind an edge: the leaf there gives way to a fork.
LEMMA ChildForked ==
  ASSUME NEW ns, NEW K \in SUBSET Path, NEW path \in Path, IsSlot(ns, path),
         Linked(ns, K, <<>>), AllFull(ns, K), IsMap(ns), NEW r, NodeSlot(ns, K, r, path),
         NEW b \in Byte, NEW old \in Path, NEW key \in Path, old # key,
         NEW here, Starts(here, key), NEW f, NEW ms,
         ForkedChild(ns, r, b, old, key, here, f, ms)
  PROVE  /\ ~ ForkPanics(old, key, Len(here)) /\ key \notin K
         /\ Rebuilt(ns, K, ms, K \cup {key}, path, r)
<1> /\ ChildIn(ns, r, b) = Leaf(old) /\ here = Append(r.at, b)
    /\ f = ForkRef(old, key, Len(here))
    /\ ms = With(StoreChild(ns, r, b, f), f, ForkNode(old, key, Len(here)))
  BY DEF ForkedChild
<1> DEFINE J == K \cup {key}
           x == ForkNode(old, key, Len(here))
           os == With(ns, f, x)
<1>1. /\ r \in DOMAIN ns /\ r \in InnerRefs /\ r.at \in Path
      /\ NodeOK(ns, K, r) /\ DOMAIN ns \subseteq InnerRefs
  <2>1. DOMAIN ns \subseteq InnerRefs /\ r \in DOMAIN ns /\ NodeOK(ns, K, r)
    BY LinkedTypes DEF NodeSlot, Linked
  <2> QED BY <2>1, RefKinds
<1>2. here \in Path /\ IsSlot(ns, here) /\ here # <<>>
  BY <1>1, Deeper, StartsOrder DEF IsSlot, NodeSlot
<1>3. LeafSlot(ns, K, old, here)
  <2>1. SlotOK(ns, K, Leaf(old), here)
    BY <1>1, <1>2 DEF Linked
  <2>2. IsLeaf(Leaf(old)) /\ Leaf(old).at = old
    BY RefKinds
  <2> QED BY <1>1, <1>2, <2>1, <2>2, SlotKinds
<1>4. /\ ~ ForkPanics(old, key, Len(here)) /\ key \notin K
      /\ Rebuilt(ns, K, os, J, here, f)
      /\ f \notin DOMAIN ns /\ f \in InnerRefs
  <2>1. Linked(ns, K, here)
    BY AnyHole
  <2>2. Starts(here, key) /\ os = With(ns, f, ForkNode(old, key, Len(here)))
    OBVIOUS
  <2> HIDE DEF os
  <2> QED BY ONLY K \in SUBSET Path, <1>2, <1>3, <2>1, <2>2, AllFull(ns, K), key \in Path,
                  old # key, f = ForkRef(old, key, Len(here)), Forked
<1>5. J \in SUBSET Path
  OBVIOUS
<1> HIDE DEF J, os
<1>6. NodeSlot(os, J, r, path) /\ SameBeside(ns, K, os, J, path) /\ IsSlot(os, path)
      /\ os[r] = ns[r] /\ r \in DOMAIN os
  <2>1. Stays(ns, K, os, J, r, path)
    BY <1>4, <1>5, ParentStays
  <2> QED BY <2>1 DEF Stays
<1>7. b \in DOMAIN os[r].children
  <2>1. b \in DOMAIN ns[r].children
    BY <1>3, RefKinds DEF ChildIn
  <2> QED BY <1>6, <2>1
<1>8. Linked(os, J, here) /\ AllFull(os, J) /\ SlotOK(os, J, f, here) /\ f # nil
  BY <1>4, RefKinds DEF Rebuilt
<1>9. ms = StoreChild(os, r, b, f)
  BY <1>1, <1>4, StoredBeside DEF os
<1>10. Rebuilt(os, J, ms, J, path, r)
  BY <1>5, <1>6, <1>7, <1>8, <1>9, SlotStored
<1>11. Rebuilt(ns, K, ms, J, path, r)
  <2>1. SameBeside(ns, K, ms, J, path)
    BY <1>6, <1>10, BesideTwice DEF Rebuilt
  <2> QED BY <1>10, <2>1 DEF Rebuilt
<1> QED BY <1>4, <1>11 DEF J

-----------------------------------------------------------------------------
(***************************************************************************)
(* splitPrefixedInner.                                                     *)
(***************************************************************************)
\* Where the key leaves the prefix of r: the place of the new node.
LEMMA SplitPlace ==
  ASSUME NEW path \in Path, NEW key \in Path, Starts(path, key),
         NEW r, r.at \in Path, Starts(path, r.at),
         NEW prefix, prefix = From(r.at, Len(path)),
         NEW split, split = SharedLen(From(key, Len(path)), prefix), split < Len(prefix),
         NEW e, e = Upto(key, Len(path) + split)
  PROVE  /\ split \in Nat /\ e \in Path /\ Len(e) = Len(path) + split
         /\ Starts(path, e) /\ Starts(e, r.at) /\ Starts(e, key)
         /\ Len(e) < Len(r.at) /\ ~ Starts(r.at, key)
         /\ Upto(prefix, split) = From(e, Len(path))
         /\ prefix[split + 1] = r.at[Len(e) + 1] /\ prefix[split + 1] \in Byte
         /\ From(prefix, split + 1) = From(r.at, Len(e) + 1)
         /\ Len(e) < Len(key) =>
              /\ key[Len(e) + 1] \in Byte /\ key[Len(e) + 1] # r.at[Len(e) + 1]
<1> DEFINE at == r.at
           d == Len(path)
           o == Upto(at, d + split)
<1>1. /\ d \in Nat /\ Len(at) \in Nat /\ Len(key) \in Nat /\ at \in Path
      /\ d <= Len(at) /\ d <= Len(key) /\ d \in 0 .. Len(at) /\ Starts(path, at)
  BY Lengths, StartsOrder
<1> HIDE DEF at
<1>2. /\ split \in Nat /\ split <= Len(key) - d
      /\ o \in Path /\ Len(o) = d + split
      /\ Starts(path, o) /\ Starts(o, key) /\ Starts(o, at)
      /\ Len(o) < Len(key) /\ Len(o) < Len(at) => key[Len(o) + 1] # at[Len(o) + 1]
  <2> DEFINE i == SharedLen(From(key, Len(path)), From(at, Len(path)))
             u == Upto(at, Len(path) + i)
  <2>1. at \in Path /\ Starts(path, at)
    BY <1>1
  <2>2. /\ i \in Nat /\ i <= Len(key) - Len(path)
        /\ u \in Path /\ Len(u) = Len(path) + i
        /\ Starts(path, u) /\ Starts(u, key) /\ Starts(u, at)
        /\ Len(u) < Len(key) /\ Len(u) < Len(at) => key[Len(u) + 1] # at[Len(u) + 1]
    BY ONLY path \in Path, key \in Path, Starts(path, key), <2>1, MeetAt
  <2>3. split = i
    BY DEF at
  <2> HIDE DEF i
  <2>4. o = u
    BY <2>3
  <2> HIDE DEF o, u
  <2> QED BY <2>2, <2>3, <2>4 DEF d
<1> HIDE DEF o
<1>3. e = o
  BY <1>2, UptoOfStart DEF d
<1>4. prefix \in Path /\ Len(prefix) = Len(at) - d /\ \A j \in 1 .. Len(at) - d : prefix[j] = at[d + j]
  BY <1>1, FromBytes DEF at
<1>5. Len(e) < Len(at) /\ Len(e) = d + split /\ e \in Path
  BY <1>1, <1>2, <1>3, <1>4
<1>6. prefix[split + 1] = at[Len(e) + 1] /\ at[Len(e) + 1] \in Byte
  <2>1. split + 1 \in 1 .. Len(at) - d /\ d + (split + 1) = Len(e) + 1
    BY <1>1, <1>2, <1>5
  <2>2. prefix[split + 1] \in Byte
    BY <1>4, <2>1, Lengths
  <2>3. prefix[split + 1] = at[d + (split + 1)]
    BY <1>4, <2>1
  <2> QED BY <2>1, <2>2, <2>3
<1>7. Len(e) < Len(key) => key[Len(e) + 1] \in Byte /\ key[Len(e) + 1] # at[Len(e) + 1]
  <2>1. Len(e) < Len(key) => Len(e) + 1 \in 1 .. Len(key)
    BY <1>1, <1>2, <1>5
  <2> QED BY <1>2, <1>3, <1>5, <2>1, Lengths
<1>8. ~ Starts(at, key)
  <2> SUFFICES ASSUME Starts(at, key) PROVE FALSE
    OBVIOUS
  <2>1. Len(at) <= Len(key) /\ Len(e) + 1 \in 1 .. Len(at)
    BY <1>1, <1>2, <1>5, StartsOrder
  <2>2. at[Len(e) + 1] = key[Len(e) + 1]
    BY <1>1, <2>1, StartsBytewise
  <2> QED BY <1>1, <1>5, <1>7, <2>1, <2>2
<1>9. Upto(prefix, split) = From(e, d)
  <2>1. Upto(From(at, Len(path)), Len(o) - Len(path)) = From(o, Len(path))
    BY <1>1, <1>2, UptoOfFrom
  <2>2. Len(o) - Len(path) = split
    BY <1>1, <1>2 DEF d
  <2> QED BY <1>3, <2>1, <2>2 DEF at, d
<1>10. From(prefix, split + 1) = From(at, Len(e) + 1)
  <2>1. d \in 0 .. Len(at) /\ split + 1 \in 0 .. Len(at) - d /\ d + (split + 1) = Len(e) + 1
    BY <1>1, <1>2, <1>5
  <2>2. From(From(at, d), split + 1) = From(at, d + (split + 1))
    BY <1>1, <2>1, FromOfFrom
  <2> QED BY <2>1, <2>2 DEF at, d
<1> QED BY <1>2, <1>3, <1>5, <1>6, <1>7, <1>8, <1>9, <1>10 DEF at, d

\* What splitPrefixedInner leaves of the prefix of r.
CutPrefix(ns, r, n) == [ns EXCEPT ![r].prefix = From(@, n)]

\* The edges of the new node above r: one to r, and one to the leaf of the key.
Branches(m, e, r, key) ==
  \A b \in Byte : LET here == Append(e, b) IN
    /\ EdgeOf(m, b) = IF Starts(here, r.at) THEN r
                      ELSE IF Starts(here, key) THEN Leaf(key) ELSE nil
    /\ ~ (Starts(here, r.at) /\ Starts(here, key))

\* The bytes of at and of key after e.
Part(e, at, key) == Len(e) < Len(key) => at[Len(e) + 1] # key[Len(e) + 1]

\* The children that splitPrefixedInner gives the new node.
SplitChildren(e, r, key) ==
  LET old == [b \in {r.at[Len(e) + 1]} |-> r]
  IN  IF Len(e) = Len(key) THEN old ELSE With(old, key[Len(e) + 1], Leaf(key))

\* The edges of the new node: one to the old, and one to the leaf of the key
\* unless the key ends there.
LEMMA SplitEdges ==
  ASSUME NEW e \in Path, NEW r, r.at \in Path, r # nil, NEW key \in Path,
         Starts(e, r.at), Starts(e, key), Len(e) < Len(r.at), Part(e, r.at, key),
         NEW m, m = SplitChildren(e, r, key)
  PROVE  /\ EdgeMap(m) /\ Count(m) \in {1, 2} /\ (Count(m) = 1 => e = key)
         /\ Branches(m, e, r, key)
<1> DEFINE x == r.at[Len(e) + 1]
           y == key[Len(e) + 1]
           old == [b \in {x} |-> r]
<1>1. /\ Len(e) \in Nat /\ Len(r.at) \in Nat /\ Len(key) \in Nat /\ Len(e) <= Len(key)
      /\ (Len(e) = Len(key) <=> e = key)
      /\ x \in Byte /\ (Len(e) < Len(key) => y \in Byte)
  BY StartsOrder, Lengths
<1>6. m = IF Len(e) = Len(key) THEN old ELSE With(old, y, Leaf(key))
  BY DEF SplitChildren
<1>2. ASSUME NEW b \in Byte
      PROVE  /\ Starts(Append(e, b), r.at) <=> b = x
             /\ Starts(Append(e, b), key) <=> Len(e) < Len(key) /\ b = y
  BY AppendStarts
<1>3. DOMAIN old = {x} /\ old[x] = r /\ IsMap(old)
  BY DEF IsMap
<1>7. Len(e) < Len(key) => x # y
  BY DEF Part
<1> HIDE DEF x, y, old
<1>4. CASE Len(e) = Len(key)
  <2>1. m = old
    BY <1>4, <1>6
  <2>2. EdgeMap(m)
    BY <1>1, <1>3, <2>1 DEF EdgeMap
  <2>3. Count(m) = 1 /\ e = key
    BY <1>1, <1>3, <1>4, <2>1, FS_Singleton DEF Count
  <2>4. ASSUME NEW b \in Byte
        PROVE  EdgeOf(m, b) = IF b = x THEN r ELSE nil
    BY <1>3, <2>1 DEF EdgeOf
  <2> QED BY <1>1, <1>2, <1>4, <2>2, <2>3, <2>4 DEF Branches
<1>5. CASE Len(e) # Len(key)
  <2>1. Len(e) < Len(key) /\ x # y /\ y \in Byte /\ e # key
    BY <1>1, <1>5, <1>7
  <2>2. m = With(old, y, Leaf(key))
    BY <1>5, <1>6
  <2>3. DOMAIN m = {x, y} /\ m[x] = r /\ m[y] = Leaf(key) /\ IsMap(m)
    <3>1. IsMap(m)
      BY <2>2, HeapsAreMaps
    <3>2. DOMAIN m = DOMAIN old \cup {y} /\ m[y] = Leaf(key)
      BY ONLY <2>2 DEF With
    <3>3. m[x] = old[x]
      BY ONLY <1>3, <2>1, <2>2 DEF With
    <3> QED BY ONLY <1>3, <3>1, <3>2, <3>3
  <2>4. EdgeMap(m)
    BY <1>1, <2>1, <2>3, RefKinds DEF EdgeMap
  <2>5. Count(m) = 2
    <3>1. Cardinality({x}) = 1 /\ IsFiniteSet({x}) /\ {x} \cup {y} = {x, y} /\ y \notin {x}
      BY <2>1, FS_Singleton
    <3>2. Cardinality({x} \cup {y}) = Cardinality({x}) + 1
      BY <3>1, FS_AddElement
    <3>3. DOMAIN m = {x} \cup {y}
      BY <2>3, <3>1
    <3>4. Cardinality(DOMAIN m) = 1 + 1
      BY ONLY <3>1, <3>2, <3>3
    <3> QED BY ONLY <3>4 DEF Count
  <2>6. ASSUME NEW b \in Byte
        PROVE  EdgeOf(m, b) = IF b = x THEN r ELSE IF b = y THEN Leaf(key) ELSE nil
    BY <2>1, <2>3 DEF EdgeOf
  <2> QED BY <1>2, <2>1, <2>4, <2>5, <2>6 DEF Branches
<1> QED BY <1>4, <1>5

\* A key that leaves the prefix of r part-way: the prefix is split.
LEMMA KeySplit ==
  ASSUME NEW K \in SUBSET Path, NEW path \in Path, IsSlot(nodes, path),
         Linked(nodes, K, <<>>), AllFull(nodes, K), IsMap(nodes),
         NEW r, NodeSlot(nodes, K, r, path),
         NEW key \in Path, Starts(path, key),
         NEW split, split = SharedLen(From(key, Len(path)), nodes[r].prefix),
         split < Len(nodes[r].prefix),
         NEW s, s = [kind |-> "node4", at |-> Upto(key, Len(path) + split)],
         NEW ms, ms = With(CutPrefix(nodes, r, split + 1), s,
                           SplitNode(r, key, Len(path), split))
  PROVE  key \notin K /\ Rebuilt(nodes, K, ms, K \cup {key}, path, s)
<1> DEFINE J == K \cup {key}
           prefix == nodes[r].prefix
           e == Upto(key, Len(path) + split)
           m == SplitNode(r, key, Len(path), split)
           x == r.at[Len(e) + 1]
           y == key[Len(e) + 1]
           new == SplitChildren(e, r, key)
<1>1. /\ r \in DOMAIN nodes /\ r.at \in Path /\ r # nil /\ NodeOK(nodes, K, r)
      /\ DOMAIN nodes \subseteq InnerRefs
      /\ Starts(path, r.at) /\ prefix = From(r.at, Len(path))
  <2>1. DOMAIN nodes \subseteq InnerRefs /\ r \in DOMAIN nodes /\ NodeOK(nodes, K, r)
    BY LinkedTypes DEF NodeSlot, Linked
  <2> QED BY <2>1, RefKinds DEF NodeSlot
<1>2. /\ split \in Nat /\ e \in Path /\ Len(e) = Len(path) + split
      /\ Starts(path, e) /\ Starts(e, r.at) /\ Starts(e, key)
      /\ Len(e) < Len(r.at) /\ ~ Starts(r.at, key)
      /\ Upto(prefix, split) = From(e, Len(path))
      /\ prefix[split + 1] = x /\ prefix[split + 1] \in Byte
      /\ From(prefix, split + 1) = From(r.at, Len(e) + 1)
      /\ Len(e) < Len(key) => y \in Byte /\ y # x
  <2>1. prefix = From(r.at, Len(path)) /\ split = SharedLen(From(key, Len(path)), prefix)
        /\ split < Len(prefix)
    BY <1>1
  <2> HIDE DEF prefix
  <2> QED BY ONLY path \in Path, key \in Path, Starts(path, key), <1>1, <2>1, SplitPlace
<1>3. s.at = e /\ s.kind = "node4" /\ s \in InnerRefs
  BY <1>2 DEF InnerRefs, InnerKinds
<1>4. /\ m.prefix = From(e, Len(path))
      /\ m.terminal = IF Len(e) = Len(key) THEN Leaf(key) ELSE nil
      /\ m.children = new
      /\ m = [prefix |-> m.prefix, terminal |-> m.terminal, children |-> m.children]
  <2>1. Len(path) + split = Len(e) /\ prefix[split + 1] = x
        /\ Upto(prefix, split) = From(e, Len(path))
    BY <1>2
  <2> HIDE DEF e
  <2> QED BY <2>1 DEF SplitNode, SplitChildren, x
<1> HIDE DEF m, e
<1>5. /\ EdgeMap(new) /\ Count(new) \in {1, 2} /\ (Count(new) = 1 => e = key)
      /\ Branches(new, e, r, key)
  <2>1. Part(e, r.at, key)
    BY <1>2 DEF Part
  <2> QED BY <1>1, <1>2, <2>1, SplitEdges
<1> HIDE DEF new, x, y
<1>6. /\ From(e, Len(path)) \in Path
      /\ m.terminal = IF e = key THEN Leaf(key) ELSE nil
  <2>1. From(e, Len(path)) \in Path
    BY <1>2, StartsOrder, Between
  <2>2. Len(e) = Len(key) <=> e = key
    BY <1>2, StartsOrder
  <2> QED BY <1>4, <2>1, <2>2
<1>7. CutPrefix(nodes, r, split + 1) = Cut(nodes, r, Len(e) + 1)
  <2>1. From(prefix, split + 1) = From(r.at, Len(e) + 1)
    BY <1>2
  <2> QED BY <2>1 DEF CutPrefix, Cut
<1>8. ms = With(Cut(nodes, r, Len(s.at) + 1), s, m)
  BY <1>3, <1>7 DEF m
<1>9. ms[s] = m /\ s \in DOMAIN ms
  BY <1>8 DEF With
<1>10. e \notin K
  <2>1. Len(e) \in Nat /\ Len(r.at) \in Nat
    BY <1>1, <1>2, Lengths
  <2>2. ~ Starts(r.at, e)
    BY <1>1, <1>2, <2>1, StartsOrder
  <2> QED BY <1>2, <2>2 DEF NodeSlot
<1>11. NodeOK(ms, J, s)
  <2>1. m.terminal = IF s.at \in J THEN Leaf(s.at) ELSE nil
    BY <1>3, <1>6, <1>10
  <2>2. ms[s].children = new /\ ms[s].prefix \in Path
    BY <1>4, <1>6, <1>9
  <2> HIDE DEF J
  <2> QED BY <1>3, <1>4, <1>5, <1>9, <2>1, <2>2 DEF NodeOK, EdgeMap
<1>12. Adopts(ms, s, r, key)
  <2>1. ms[s].children = new
    BY <1>4, <1>9
  <2>2. \A b \in Byte : ChildIn(ms, s, b) = EdgeOf(new, b)
    BY <2>1 DEF ChildIn, EdgeOf
  <2> QED BY <1>3, <1>5, <2>2 DEF Adopts, Branches
<1>13. key \notin K /\ Planting(nodes, K, ms, J, path, s)
  <2>1. m.prefix = From(s.at, Len(path)) /\ Linked(nodes, K, path)
    BY <1>3, <1>4, AnyHole
  <2>2. Starts(path, s.at) /\ Starts(s.at, r.at) /\ Starts(s.at, key) /\ Len(s.at) < Len(r.at)
    BY <1>2, <1>3
  <2> QED BY ONLY K \in SUBSET Path, path \in Path, IsSlot(nodes, path),
                  NodeSlot(nodes, K, r, path), key \in Path, Starts(path, key),
                  <1>2, <1>3, <1>8, <1>11, <1>12, <2>1, <2>2, Adopted
<1>14. AllFull(ms, J)
  <2>1. K \subseteq J /\ key \in J
    OBVIOUS
  <2>2. ASSUME NEW t \in DOMAIN nodes
        PROVE  Full(ms, J, t) /\ Inhabited(J, t)
    BY <1>13, <2>1, StaysFull DEF AllFull, Planting
  <2>3. Full(ms, J, s) /\ Inhabited(J, s)
    <3>1. Count(ms[s].children) \in {1, 2} /\ (Count(ms[s].children) = 1 => s.at \in J)
      BY <1>3, <1>4, <1>5, <1>9, <2>1
    <3>2. KindFits(s.kind, Count(ms[s].children))
      BY <1>3, <3>1, FewFit
    <3>3. Full(ms, J, s)
      BY <3>1, <3>2 DEF Full
    <3>4. Inhabited(J, s)
      BY <1>2, <1>3, <2>1 DEF Inhabited
    <3> QED BY <3>3, <3>4
  <2> QED BY <1>13, <2>2, <2>3 DEF AllFull, Planting
<1>15. IsMap(ms)
  BY HeapsAreMaps
<1> QED BY <1>13, <1>14, <1>15 DEF Rebuilt, Planting

-----------------------------------------------------------------------------
(***************************************************************************)
(* Deletion: the leaf goes, and the nodes above it are reshaped.           *)
(***************************************************************************)
\* The leaf behind a slot is dropped: its slot is to hold nothing.
LEMMA LeafDrop ==
  ASSUME NEW ns, NEW K \in SUBSET Path, NEW path \in Path, IsSlot(ns, path),
         Linked(ns, K, <<>>), AllFull(ns, K), IsMap(ns),
         NEW key \in Path, LeafSlot(ns, K, key, path)
  PROVE  key \in K /\ Rebuilt(ns, K, ns, K \ {key}, path, nil)
<1> DEFINE J == K \ {key}
<1>1. key \in K /\ Starts(path, key) /\ J \in SUBSET Path
  BY DEF LeafSlot
<1>2. Linked(ns, K, path)
  BY AnyHole
<1>3. Linked(ns, J, path) /\ SlotOK(ns, J, nil, path)
  BY <1>2, LeafDropped
<1>4. SameBeside(ns, K, ns, J, path)
  BY <1>1 DEF SameBeside
<1>5. ASSUME NEW r \in DOMAIN ns
      PROVE  Full(ns, J, r) /\ Inhabited(J, r)
  <2>1. r.at # key
    BY <1>1 DEF LeafSlot
  <2>2. Full(ns, J, r)
    BY <2>1 DEF AllFull, Full
  <2>3. Inhabited(J, r)
    BY StillInhabited
  <2> QED BY <2>2, <2>3
<1> HIDE DEF J
<1>6. Rebuilt(ns, K, ns, J, path, nil)
  BY <1>3, <1>4, <1>5 DEF Rebuilt, AllFull
<1> QED BY <1>1, <1>6 DEF J

\* All nodes but r have the type their count allows; r has the one for its
\* count, or for one child more.
Reshapable(ns, K, r) ==
  /\ \A s \in DOMAIN ns \ {r} : Full(ns, K, s)
  /\ \A s \in DOMAIN ns : Inhabited(K, s)
  /\ \E n \in Nat : KindFits(r.kind, n) /\ Count(ns[r].children) \in {n, n - 1}

\* Of the nodes of a tree that stay, each keeps its type.
LEMMA StayFull ==
  ASSUME NEW ns, NEW K, NEW r, Reshapable(ns, K, r), NEW ms, NEW path, NEW c,
         GivesWay(ns, K, ms, r, path, c), IsMap(ms)
  PROVE  Rebuilt(ns, K, ms, K, path, c)
<1>1. AllFull(ms, K)
  <2> SUFFICES ASSUME NEW s \in DOMAIN ms PROVE Full(ms, K, s) /\ Inhabited(K, s)
    BY DEF AllFull
  <2>1. s \in DOMAIN ns \ {r} /\ ms[s].children = ns[s].children
    BY DEF GivesWay
  <2> QED BY <2>1 DEF Reshapable, Full
<1> QED BY <1>1 DEF Rebuilt, GivesWay

\* reshape: whatever it does, the slot refers to a tree of the right shape.
LEMMA Reshaping ==
  ASSUME NEW ns, NEW K \in SUBSET Path, NEW path \in Path, IsSlot(ns, path),
         Linked(ns, K, path), IsMap(ns), NEW r, NodeSlot(ns, K, r, path),
         Reshapable(ns, K, r), NEW s, s = Reshaped(ns, r)
  PROVE  Rebuilt(ns, K, s.nodes, K, path, s.ref)
<1> DEFINE m == ns[r]
           live == DOMAIN m.children
           e == CHOOSE x \in live : TRUE
           c == m.children[e]
           merges == r.kind = "node4" /\ m.terminal = nil /\ Cardinality(live) = 1
           g == [r EXCEPT !.kind = ReshapedKind(r.kind, Cardinality(live))]
           ms == With(Without(ns, r), g, m)
<1>1. /\ r \in DOMAIN ns /\ r \in InnerRefs /\ r.at \in Path /\ r.kind \in InnerKinds
      /\ r = [kind |-> r.kind, at |-> r.at] /\ NodeOK(ns, K, r) /\ DOMAIN ns \subseteq InnerRefs
  <2>1. DOMAIN ns \subseteq InnerRefs /\ r \in DOMAIN ns /\ NodeOK(ns, K, r)
    BY LinkedTypes DEF NodeSlot, Linked
  <2>2. r = [kind |-> r.kind, at |-> r.at]
    BY <2>1 DEF InnerRefs
  <2> QED BY <2>1, <2>2, RefKinds
<1>2. /\ live \subseteq Byte /\ \A b \in live : m.children[b] # nil
      /\ m.terminal = IF r.at \in K THEN Leaf(r.at) ELSE nil
      /\ IsFiniteSet(live) /\ Cardinality(live) \in Nat
  <2>1. /\ live \subseteq Byte /\ \A b \in live : m.children[b] # nil
        /\ m.terminal = IF r.at \in K THEN Leaf(r.at) ELSE nil
    BY <1>1 DEF NodeOK
  <2> QED BY <2>1, CountType DEF Count
<1>3. CASE live = {}
  <2>1. s.ref = m.terminal /\ s.nodes = Without(ns, r)
    BY <1>3 DEF Reshaped
  <2>2. NoEdges(ns, r)
    BY <1>3 DEF NoEdges, ChildIn
  <2>3. GivesWay(ns, K, s.nodes, r, path, s.ref)
    BY <2>1, <2>2, Uprooted
  <2> QED BY <2>1, <2>3, StayFull, HeapsAreMaps
<1>4. CASE live # {} /\ merges
  <2>1. /\ live = {e} /\ e \in Byte /\ c = ChildIn(ns, r, e) /\ OneEdge(ns, r, e)
        /\ c # nil /\ r.at \notin K
    <3>1. PICK x \in live : live = {x}
      BY <1>2, <1>4, Singled
    <3>2. live = {e}
      BY <3>1
    <3>3. c = ChildIn(ns, r, e) /\ e \in Byte /\ c # nil
      BY <1>2, <3>2 DEF ChildIn
    <3>4. \A b \in Byte \ {e} : ChildIn(ns, r, b) = nil
      BY <3>2 DEF ChildIn
    <3>5. r.at \notin K
      BY <1>1, <1>2, <1>4, RefKinds
    <3> HIDE DEF e, c
    <3> QED BY <3>2, <3>3, <3>4, <3>5 DEF OneEdge
  <2>2. s.ref = c /\ s.nodes = Merged(ns, r, e, c)
    BY <1>4 DEF Reshaped
  <2>3. SlotOK(ns, K, c, Append(r.at, e))
    <3> HIDE DEF c, e
    <3>1. OneEdge(ns, r, e) => e \in Byte /\ \A b \in Byte \ {e} : ChildIn(ns, r, b) = nil
      BY DEF OneEdge
    <3>2. SlotOK(ns, K, ChildIn(ns, r, e), Append(r.at, e))
      BY <2>1, <3>1, OnlyBranch
    <3> QED BY <2>1, <3>2
  <2>4. IsLeaf(c) \/ IsInner(c)
    BY <2>1 DEF IsLeaf, IsInner
  <2> HIDE DEF c, e, m
  <2>5. CASE IsLeaf(c)
    <3>1. s.nodes = Without(ns, r)
      BY <2>2, <2>5 DEF Merged
    <3>2. GivesWay(ns, K, s.nodes, r, path, c)
      BY <2>1, <2>5, <3>1, LeafMerged
    <3> QED BY <2>2, <3>1, <3>2, StayFull, HeapsAreMaps
  <2>6. CASE IsInner(c)
    <3>1. ~ IsLeaf(c)
      BY <2>6 DEF IsLeaf, IsInner
    <3>2. s.nodes = Joined(ns, r, e, c)
      BY <2>2, <3>1 DEF Merged, Joined
    <3>3. GivesWay(ns, K, s.nodes, r, path, c)
      BY <2>1, <2>6, <3>2, NodeMerged
    <3>4. IsMap(s.nodes)
      BY <3>2, HeapsAreMaps DEF Joined, IsMap
    <3> QED BY <2>2, <3>3, <3>4, StayFull
  <2> QED BY <2>4, <2>5, <2>6
<1>5. CASE live # {} /\ ~ merges
  <2>1. s.ref = g /\ s.nodes = ms
    BY <1>5 DEF Reshaped
  <2>2. PICK n \in Nat : KindFits(r.kind, n) /\ Count(m.children) \in {n, n - 1}
    BY DEF Reshapable
  <2>3. /\ g \in InnerRefs /\ g.at = r.at /\ KindFits(g.kind, Count(m.children))
        /\ Count(m.children) # 0 /\ (Count(m.children) = 1 => r.at \in K)
    <3> DEFINE n1 == Cardinality(live)
    <3>1. n1 = Count(m.children)
      BY DEF Count
    <3>2. /\ ReshapedKind(r.kind, n1) \in InnerKinds /\ KindFits(ReshapedKind(r.kind, n1), n1)
          /\ n1 = 1 => r.kind = "node4"
      <4>1. n1 \in Nat /\ (n1 = n \/ n1 = n - 1)
        BY <1>2, <2>2, <3>1
      <4> HIDE DEF n1
      <4> QED BY <1>1, <2>2, <4>1, ReshapedFits
    <3>3. g = [kind |-> ReshapedKind(r.kind, n1), at |-> r.at]
      BY <1>1
    <3>4. n1 # 0
      BY <1>2, <1>5, Singled
    <3>5. n1 = 1 => r.at \in K
      BY <1>2, <1>5, <3>2
    <3> HIDE DEF n1, g
    <3> QED BY <1>1, <3>1, <3>2, <3>3, <3>4, <3>5 DEF InnerRefs
  <2> HIDE DEF g
  <2>4. /\ DOMAIN ms = (DOMAIN ns \ {r}) \cup {g} /\ ms[g] = ns[r]
        /\ \A t \in DOMAIN ns \ {r} : ms[t] = ns[t]
        /\ Linked(ms, K, path) /\ SlotOK(ms, K, g, path)
    BY <2>3, Rekinded
  <2>5. IsMap(ms)
    BY HeapsAreMaps
  <2> HIDE DEF ms
  <2>6. SameBeside(ns, K, ms, K, path)
    <3>1. Starts(path, r.at)
      BY DEF NodeSlot
    <3> QED BY <2>3, <2>4, <3>1 DEF SameBeside
  <2>7. ASSUME NEW t \in DOMAIN ms
        PROVE  Full(ms, K, t) /\ Inhabited(K, t)
    <3>1. CASE t = g
      <4>1. Full(ms, K, g)
        BY <2>3, <2>4 DEF Full
      <4>2. Inhabited(K, g)
        BY <1>1, <2>3 DEF Reshapable, Inhabited
      <4> QED BY <3>1, <4>1, <4>2
    <3>2. CASE t # g
      BY <2>4, <3>2 DEF Reshapable, Full
    <3> QED BY <3>1, <3>2
  <2> QED BY <2>1, <2>4, <2>5, <2>6, <2>7 DEF Rebuilt, AllFull
<1> QED BY <1>3, <1>4, <1>5

\* clearTerminalIfMatches and reshape: the key of a node is dropped.
LEMMA TerminalDropped ==
  ASSUME NEW ns, NEW K \in SUBSET Path, NEW path \in Path, IsSlot(ns, path),
         Linked(ns, K, <<>>), AllFull(ns, K), NEW r, NodeSlot(ns, K, r, path),
         r.at \in K, NEW J, J = K \ {r.at},
         NEW cut, cut = WithTerminal(ns, r, J),
         NEW s, s = Reshaped(cut, r)
  PROVE  Rebuilt(ns, K, s.nodes, J, path, s.ref)
<1>1. DOMAIN ns \subseteq InnerRefs /\ r \in DOMAIN ns /\ r.at \in Path /\ J \in SUBSET Path
  BY LinkedTypes, RefKinds DEF NodeSlot
<1>2. r.at \notin J /\ SameKeysBut(K, J, r.at) /\ Linked(ns, K, path)
  BY AnyHole DEF SameKeysBut
<1>3. Retermed(ns, K, cut, J, r) /\ Linked(cut, J, path)
  BY <1>1, <1>2, TerminalSet
<1>4. /\ DOMAIN cut = DOMAIN ns /\ cut[r].children = ns[r].children
      /\ \A t \in DOMAIN ns \ {r} : cut[t] = ns[t]
      /\ \A c, q : q \in Path /\ SlotOK(ns, K, c, q) => SlotOK(cut, J, c, q)
  BY <1>3 DEF Retermed
<1>5. IsMap(cut)
  BY DEF IsMap, WithTerminal
<1>6. NodeSlot(cut, J, r, path)
  <2>1. SlotOK(cut, J, r, path)
    BY <1>4 DEF SlotOK
  <2>2. DOMAIN cut \subseteq InnerRefs /\ IsInner(r)
    BY <1>1, <1>4, RefKinds
  <2> QED BY <1>1, <2>1, <2>2, SlotKinds
<1>7. Reshapable(cut, J, r)
  <2>1. ASSUME NEW t \in DOMAIN ns \ {r} PROVE Full(cut, J, t)
    <3>1. t.at # r.at /\ t.at \in Path
      BY <1>1, RefKinds DEF Linked
    <3> QED BY <1>2, <1>4, <3>1 DEF AllFull, Full, SameKeysBut
  <2>2. ASSUME NEW t \in DOMAIN ns PROVE Inhabited(J, t)
    <3>1. Inhabited(K \ {r.at}, t)
      BY <1>1, StillInhabited
    <3> QED BY <3>1
  <2>3. KindFits(r.kind, Count(ns[r].children)) /\ Count(ns[r].children) \in Nat
    <3>1. DOMAIN ns[r].children \subseteq Byte
      BY <1>1 DEF Linked, NodeOK
    <3> QED BY <1>1, <3>1, CountType DEF AllFull, Full
  <2> QED BY <1>4, <2>1, <2>2, <2>3 DEF Reshapable
<1>8. IsSlot(cut, path)
  BY <1>4 DEF IsSlot
<1>9. SameBeside(ns, K, cut, J, path)
  BY <1>2, <1>4 DEF SameBeside, NodeSlot, SameKeysBut
<1>10. Rebuilt(cut, J, s.nodes, J, path, s.ref)
  BY ONLY <1>1, <1>3, <1>5, <1>6, <1>7, <1>8, path \in Path, s = Reshaped(cut, r), Reshaping
<1>11. SameBeside(ns, K, s.nodes, J, path)
  BY <1>9, <1>10, BesideTwice DEF Rebuilt
<1> QED BY <1>10, <1>11 DEF Rebuilt

\* The heap in which a frame of Delete has stored what the call below returned.
CutChild(ns, r, b, c) ==
  IF c = nil THEN [ns EXCEPT ![r].children = Without(@, b)] ELSE StoreChild(ns, r, b, c)

\* The frame of Delete whose child changed stores it and reshapes its node.
LEMMA ChildResumed ==
  ASSUME NEW ns, NEW K \in SUBSET Path, NEW path \in Path, IsSlot(ns, path),
         AllFull(ns, K), NEW r, NodeSlot(ns, K, r, path),
         NEW b \in DOMAIN ns[r].children,
         NEW here, here = Append(r.at, b), Linked(ns, K, here),
         NEW c, SlotOK(ns, K, c, here),
         NEW cut, cut = CutChild(ns, r, b, c),
         NEW s, s = Reshaped(cut, r)
  PROVE  Rebuilt(ns, K, s.nodes, K, path, s.ref)
<1> DEFINE m == IF c = nil THEN Without(ns[r].children, b) ELSE With(ns[r].children, b, c)
           n == Count(ns[r].children)
<1>1. /\ r \in DOMAIN ns /\ b \in Byte /\ IsMap(ns[r].children)
      /\ DOMAIN ns[r].children \subseteq Byte
  BY DEF NodeSlot, Linked, NodeOK
<1>2. IsFiniteSet(DOMAIN ns[r].children) /\ n \in Nat /\ KindFits(r.kind, n)
  BY <1>1, CountType DEF AllFull, Full
<1>3. Closing(ns, K, r, b, m) /\ cut = WithChildren(ns, r, m) /\ Count(m) \in {n, n - 1}
  <2>1. CASE c = nil
    <3>1. m = Without(ns[r].children, b) /\ SlotOK(ns, K, nil, here)
      BY <2>1
    <3>2. Closing(ns, K, r, b, m)
      BY <1>1, <3>1, EdgeCut
    <3>3. cut = WithChildren(ns, r, m)
      BY <2>1, <3>1 DEF CutChild, WithChildren
    <3>4. Count(m) = n - 1
      <4>1. Cardinality(DOMAIN ns[r].children \ {b}) = Cardinality(DOMAIN ns[r].children) - 1
        BY <1>2, FS_RemoveElement
      <4>2. DOMAIN m = DOMAIN ns[r].children \ {b}
        BY <3>1 DEF Without
      <4> QED BY <4>1, <4>2 DEF Count
    <3> QED BY <3>2, <3>3, <3>4
  <2>2. CASE c # nil
    <3>1. m = With(ns[r].children, b, c)
      BY <2>2
    <3>2. Closing(ns, K, r, b, m)
      BY <1>1, <2>2, <3>1, EdgeSet
    <3>3. cut = WithChildren(ns, r, m)
      BY <1>1, <2>2, <3>1, StoredIsWith DEF CutChild
    <3>4. DOMAIN m = DOMAIN ns[r].children
      BY <3>1 DEF With
    <3> QED BY <3>2, <3>3, <3>4 DEF Count
  <2> QED BY <2>1, <2>2
<1> HIDE DEF m, n
<1>4. Filled(ns, K, cut, r, m, path)
  BY <1>3, SlotFilled
<1>5. /\ DOMAIN cut = DOMAIN ns /\ cut[r].children = m
      /\ \A t \in DOMAIN ns \ {r} : cut[t] = ns[t]
      /\ Linked(cut, K, path) /\ NodeSlot(cut, K, r, path)
      /\ SameBeside(ns, K, cut, K, path) /\ IsSlot(cut, path)
  BY <1>4 DEF Filled
<1>6. Reshapable(cut, K, r)
  <2>1. \A t \in DOMAIN ns \ {r} : Full(cut, K, t)
    BY <1>5 DEF AllFull, Full
  <2>2. \A t \in DOMAIN ns : Inhabited(K, t)
    BY DEF AllFull
  <2> QED BY <1>2, <1>3, <1>5, <2>1, <2>2 DEF Reshapable
<1>7. IsMap(cut)
  BY <1>3, HeapsAreMaps DEF WithChildren, IsMap
<1>8. Rebuilt(cut, K, s.nodes, K, path, s.ref)
  BY <1>5, <1>6, <1>7, Reshaping
<1>9. SameBeside(ns, K, s.nodes, K, path)
  BY <1>5, <1>8, BesideTwice DEF Rebuilt
<1> QED BY <1>8, <1>9 DEF Rebuilt

\* The hole is closed by what is there.
LEMMA HoleClosed ==
  ASSUME NEW ns, NEW K, NEW r \in DOMAIN ns, r.at \in Path, NEW b \in Byte,
         NEW here, here = Append(r.at, b), Linked(ns, K, here),
         SlotOK(ns, K, ChildIn(ns, r, b), here)
  PROVE  Linked(ns, K, <<>>)
<1>1. ASSUME NEW s \in DOMAIN ns, NEW e \in Byte
      PROVE  SlotOK(ns, K, ChildIn(ns, s, e), Append(s.at, e))
  <2>1. CASE s.at = r.at /\ e = b
    BY <2>1 DEF Linked
  <2>2. CASE ~ (s.at = r.at /\ e = b)
    <3>1. Append(s.at, e) # here
      <4>1. s.at \in Path
        BY LinkedTypes, RefKinds
      <4>2. ASSUME Append(s.at, e) = Append(r.at, b) PROVE s.at = r.at /\ e = b
        <5>1. Len(Append(s.at, e)) = Len(s.at) + 1 /\ Append(s.at, e)[Len(s.at) + 1] = e
          BY <4>1, AppendStarts
        <5>2. Len(Append(r.at, b)) = Len(r.at) + 1 /\ Append(r.at, b)[Len(r.at) + 1] = b
          BY AppendStarts
        <5>3. Len(s.at) = Len(r.at) /\ e = b
          BY <4>1, <4>2, <5>1, <5>2, Lengths
        <5>4. Starts(s.at, Append(s.at, e)) /\ Starts(r.at, Append(r.at, b))
              /\ Append(r.at, b) \in Path
          BY <4>1, AppendStarts
        <5>5. Starts(s.at, r.at)
          BY <4>1, <4>2, <5>3, <5>4, StartsOrder, Lengths
        <5> QED BY <4>1, <5>3, <5>5, StartsOrder
      <4> QED BY <2>2, <4>2
    <3> QED BY <3>1 DEF Linked
  <2> QED BY <2>1, <2>2
<1> QED BY <1>1 DEF Linked

-----------------------------------------------------------------------------
(***************************************************************************)
(* The suspended frames of a call.  Each stands at a node and has taken an *)
(* edge of it; the first is the deepest.  The slot of its edge is where    *)
(* the active frame of the call is at work.                                *)
(***************************************************************************)
\* The frames of a call.
Frames == [node : InnerRefs, branch : Byte]

\* The place of the slot that the deepest suspended frame has gone through.
HolePath(stack) ==
  IF stack = <<>> THEN <<>> ELSE Append(stack[1].node.at, stack[1].branch)

\* What that slot refers to.
HoleContent(ns, top, stack) ==
  IF stack = <<>> THEN top ELSE ChildIn(ns, stack[1].node, stack[1].branch)

\* The frame f on its way to key: it holds what its slot refers to, content.
FrameOK(ns, f, content, key) ==
  /\ f.node \in DOMAIN ns /\ f.branch \in DOMAIN ns[f.node].children
  /\ Starts(Append(f.node.at, f.branch), key) /\ f.node = content

\* The suspended frames of a call for key, each at an edge of the one above.
Chained(ns, top, stack, key) ==
  /\ stack \in Seq(Frames)
  /\ \A i \in 1 .. Len(stack) :
       FrameOK(ns, stack[i], IF i = Len(stack) THEN top
                             ELSE ChildIn(ns, stack[i + 1].node, stack[i + 1].branch), key)
  /\ \A i, j \in 1 .. Len(stack) :
       i < j => Len(stack[j].node.at) < Len(stack[i].node.at)

\* A frame is a node and a byte.
LEMMA FrameTypes ==
  ASSUME NEW stack \in Seq(Frames), NEW i \in 1 .. Len(stack)
  PROVE  /\ stack[i] \in Frames /\ stack[i].node \in InnerRefs /\ stack[i].branch \in Byte
         /\ stack[i].node.at \in Path /\ Len(stack[i].node.at) \in Nat
<1>1. stack[i] \in Frames
  OBVIOUS
<1>2. stack[i].node \in InnerRefs /\ stack[i].branch \in Byte
  BY <1>1 DEF Frames
<1> QED BY <1>1, <1>2, RefKinds, Lengths

\* The slot of the first frame's edge, and the frames that stand above it.
LEMMA ChainIsSlot ==
  ASSUME NEW ns, NEW top, NEW stack, NEW key \in Path, Chained(ns, top, stack, key)
  PROVE  /\ HolePath(stack) \in Path /\ IsSlot(ns, HolePath(stack))
         /\ Starts(HolePath(stack), key)
         /\ \A i \in 1 .. Len(stack) : Len(stack[i].node.at) < Len(HolePath(stack))
<1>1. stack \in Seq(Frames) /\ Len(stack) \in Nat
  BY DEF Chained
<1>2. CASE stack = <<>>
  BY <1>2, StartsOrder DEF HolePath, IsSlot
<1>3. CASE stack # <<>>
  <2> DEFINE f == stack[1]
  <2>1. 1 \in 1 .. Len(stack)
    BY <1>1, <1>3
  <2>2. f.node \in InnerRefs /\ f.branch \in Byte /\ f.node.at \in Path
    BY <1>1, <2>1, FrameTypes
  <2>3. f.node \in DOMAIN ns /\ Starts(Append(f.node.at, f.branch), key)
    BY <2>1 DEF Chained, FrameOK
  <2>4. HolePath(stack) = Append(f.node.at, f.branch)
    BY <1>3 DEF HolePath
  <2>5. /\ Append(f.node.at, f.branch) \in Path
        /\ Len(Append(f.node.at, f.branch)) = Len(f.node.at) + 1
    BY <2>2, AppendStarts
  <2>6. IsSlot(ns, HolePath(stack))
    BY <2>2, <2>3, <2>4 DEF IsSlot
  <2>7. ASSUME NEW i \in 1 .. Len(stack)
        PROVE  Len(stack[i].node.at) < Len(HolePath(stack))
    <3>1. Len(stack[i].node.at) \in Nat /\ Len(f.node.at) \in Nat
      BY <1>1, <2>1, FrameTypes
    <3>2. i = 1 \/ 1 < i
      OBVIOUS
    <3>3. Len(stack[i].node.at) <= Len(f.node.at)
      BY <2>1, <3>1, <3>2 DEF Chained
    <3> QED BY <2>4, <2>5, <3>1, <3>3
  <2> QED BY <2>3, <2>4, <2>5, <2>6, <2>7
<1> QED BY <1>2, <1>3

\* What is rebuilt behind the slot of the active frame leaves the suspended
\* frames, and the root unless it is that slot, as they were.
LEMMA ChainKept ==
  ASSUME NEW ns, NEW K \in SUBSET Path, NEW ms, NEW J \in SUBSET Path,
         DOMAIN ns \subseteq InnerRefs, NEW top, NEW stack, NEW key \in Path,
         Chained(ns, top, stack, key),
         NEW hole, hole = HolePath(stack), NEW c, Rebuilt(ns, K, ms, J, hole, c)
  PROVE  /\ Chained(ms, top, stack, key)
         /\ stack # <<>> /\ SlotOK(ns, K, top, <<>>) => SlotOK(ms, J, top, <<>>)
<1>1. /\ hole \in Path /\ IsSlot(ns, hole)
      /\ \A i \in 1 .. Len(stack) : Len(stack[i].node.at) < Len(hole)
  BY ChainIsSlot
<1>2. stack \in Seq(Frames) /\ Len(stack) \in Nat
  BY DEF Chained
<1>3. ASSUME NEW i \in 1 .. Len(stack)
      PROVE  stack[i].node \in DOMAIN ms /\ ms[stack[i].node] = ns[stack[i].node]
  <2>1. stack[i].node \in InnerRefs /\ stack[i].node.at \in Path
    BY <1>2, FrameTypes
  <2>2. ~ Starts(hole, stack[i].node.at)
    BY <1>1, <2>1, Lengths, StartsOrder
  <2>3. stack[i].node \in DOMAIN ns
    BY DEF Chained, FrameOK
  <2> QED BY <2>1, <2>2, <2>3 DEF Rebuilt, SameBeside
<1>4. Chained(ms, top, stack, key)
  <2>1. ASSUME NEW i \in 1 .. Len(stack)
        PROVE  FrameOK(ms, stack[i], IF i = Len(stack) THEN top
                                     ELSE ChildIn(ms, stack[i + 1].node, stack[i + 1].branch), key)
    <3>1. FrameOK(ns, stack[i], IF i = Len(stack) THEN top
                                ELSE ChildIn(ns, stack[i + 1].node, stack[i + 1].branch), key)
      BY DEF Chained
    <3>2. i # Len(stack) => i + 1 \in 1 .. Len(stack)
      BY <1>2
    <3> QED BY <1>3, <3>1, <3>2 DEF FrameOK, ChildIn
  <2> QED BY <2>1 DEF Chained
<1>5. ASSUME stack # <<>>, SlotOK(ns, K, top, <<>>)
      PROVE  SlotOK(ms, J, top, <<>>)
  <2>1. 1 \in 1 .. Len(stack)
    BY <1>2, <1>5
  <2>2. Len(stack[1].node.at) \in Nat /\ Len(stack[1].node.at) < Len(hole)
    BY <1>1, <1>2, <2>1, FrameTypes
  <2>3. /\ <<>> \in Path /\ <<>> # hole /\ ~ Starts(hole, <<>>)
    BY <1>1, <2>2, StartsOrder, Lengths
  <2>4. DOMAIN ms \subseteq InnerRefs /\ SameBeside(ns, K, ms, J, hole)
    BY LinkedTypes DEF Rebuilt
  <2> QED BY <1>1, <1>5, <2>3, <2>4, SlotElsewhere
<1> QED BY <1>4, <1>5

\* Without a hole, the slot of the active frame holds what it should.
LEMMA HoleSlotOK ==
  ASSUME NEW ns, NEW K \in SUBSET Path, NEW top, NEW stack, NEW key \in Path,
         Chained(ns, top, stack, key), Linked(ns, K, <<>>), SlotOK(ns, K, top, <<>>)
  PROVE  SlotOK(ns, K, HoleContent(ns, top, stack), HolePath(stack))
<1>1. CASE stack = <<>>
  BY <1>1 DEF HoleContent, HolePath
<1>2. CASE stack # <<>>
  <2> DEFINE f == stack[1]
  <2>1. stack \in Seq(Frames) /\ 1 \in 1 .. Len(stack)
    BY <1>2 DEF Chained
  <2>2. f.branch \in Byte /\ f.node.at \in Path
    BY <2>1, FrameTypes
  <2>3. f.node \in DOMAIN ns
    BY <2>1 DEF Chained, FrameOK
  <2>4. Append(f.node.at, f.branch) # <<>>
    BY <2>2, AppendStarts
  <2>5. SlotOK(ns, K, ChildIn(ns, f.node, f.branch), Append(f.node.at, f.branch))
    BY <2>2, <2>3, <2>4 DEF Linked
  <2> QED BY <1>2, <2>5 DEF HoleContent, HolePath
<1> QED BY <1>1, <1>2

\* The slot of the frame that is suspended last, as its frame resumes.
Above(ns, K, top, stack, key, path) ==
  LET f == Head(stack) IN
  /\ Chained(ns, top, Tail(stack), key) /\ path = HolePath(Tail(stack))
  /\ path \in Path /\ IsSlot(ns, path) /\ Starts(path, key)
  /\ f.node \in DOMAIN ns /\ f.node.at \in Path /\ f.branch \in Byte
  /\ f.branch \in DOMAIN ns[f.node].children
  /\ HolePath(stack) = Append(f.node.at, f.branch)
  /\ Tail(stack) # <<>> => SlotOK(ns, K, top, <<>>)
  /\ NodeSlot(ns, K, f.node, path)

\* A chain without its first frame is a chain.
LEMMA Popped ==
  ASSUME NEW ns, NEW top, NEW stack, NEW key \in Path,
         Chained(ns, top, stack, key), stack # <<>>
  PROVE  Chained(ns, top, Tail(stack), key)
<1> DEFINE rest == Tail(stack)
<1>1. stack \in Seq(Frames) /\ Len(stack) \in Nat \ {0}
  BY DEF Chained
<1>2. /\ rest \in Seq(Frames) /\ Len(rest) = Len(stack) - 1
      /\ \A i \in 1 .. Len(rest) : rest[i] = stack[i + 1] /\ i + 1 \in 1 .. Len(stack)
  BY <1>1
<1> HIDE DEF rest
<1>3. ASSUME NEW i \in 1 .. Len(rest)
      PROVE  FrameOK(ns, rest[i], IF i = Len(rest) THEN top
                                  ELSE ChildIn(ns, rest[i + 1].node, rest[i + 1].branch), key)
  <2> DEFINE j == i + 1
  <2>1. j \in 1 .. Len(stack) /\ rest[i] = stack[j] /\ (i = Len(rest) <=> j = Len(stack))
    BY <1>1, <1>2
  <2>2. i # Len(rest) => rest[i + 1] = stack[j + 1]
    BY <1>1, <1>2
  <2> HIDE DEF j
  <2>3. FrameOK(ns, stack[j], IF j = Len(stack) THEN top
                              ELSE ChildIn(ns, stack[j + 1].node, stack[j + 1].branch), key)
    BY <2>1 DEF Chained
  <2> QED BY <2>1, <2>2, <2>3
<1>4. ASSUME NEW i \in 1 .. Len(rest), NEW j \in 1 .. Len(rest), i < j
      PROVE  Len(rest[j].node.at) < Len(rest[i].node.at)
  <2>1. i + 1 < j + 1 /\ i + 1 \in 1 .. Len(stack) /\ j + 1 \in 1 .. Len(stack)
    BY <1>2, <1>4
  <2>2. Len(stack[j + 1].node.at) < Len(stack[i + 1].node.at)
    BY <2>1 DEF Chained
  <2> QED BY <1>2, <2>2
<1> QED BY <1>2, <1>3, <1>4 DEF Chained, rest

\* The slot of a frame lies below the slots of the frames above it.
LEMMA HoleAbove ==
  ASSUME NEW ns, NEW K \in SUBSET Path, NEW top, NEW stack, NEW key \in Path,
         Chained(ns, top, stack, key), stack # <<>>,
         Linked(ns, K, HolePath(stack)), SlotOK(ns, K, top, <<>>)
  PROVE  Above(ns, K, top, stack, key, HolePath(Tail(stack)))
<1> DEFINE rest == Tail(stack)
           f == stack[1]
           hole == HolePath(stack)
<1>1. stack \in Seq(Frames) /\ Len(stack) \in Nat \ {0} /\ Head(stack) = f
  BY DEF Chained
<1>2. /\ Len(rest) = Len(stack) - 1
      /\ rest # <<>> => rest[1] = stack[2] /\ Len(stack) > 1
  BY <1>1
<1>3. Chained(ns, top, rest, key)
  BY Popped
<1>4. 1 \in 1 .. Len(stack)
  BY <1>1
<1>5. /\ f.branch \in Byte /\ f.node.at \in Path /\ f.node \in InnerRefs
      /\ Len(f.node.at) \in Nat
  BY <1>1, <1>4, FrameTypes
<1>6. f.node \in DOMAIN ns /\ f.branch \in DOMAIN ns[f.node].children
  BY <1>4 DEF Chained, FrameOK
<1>7. hole = Append(f.node.at, f.branch)
  BY DEF HolePath
<1>8. Len(hole) = Len(f.node.at) + 1
  BY <1>5, <1>7, AppendStarts
<1>9. DOMAIN ns \subseteq InnerRefs
  BY LinkedTypes
<1> HIDE DEF rest, f
<1>10. HolePath(rest) \in Path /\ IsSlot(ns, HolePath(rest)) /\ Starts(HolePath(rest), key)
  BY <1>3, ChainIsSlot
<1>11. SlotOK(ns, K, f.node, HolePath(rest))
  <2>1. CASE rest = <<>>
    <3>1. Len(stack) = 1
      BY <1>1, <1>2, <2>1
    <3>2. f.node = top
      BY <1>4, <3>1 DEF Chained, FrameOK, f
    <3> QED BY <2>1, <3>2 DEF HolePath
  <2>2. CASE rest # <<>>
    <3> DEFINE g == stack[2]
    <3>1. 2 \in 1 .. Len(stack) /\ Len(stack) # 1
      BY <1>1, <1>2, <2>2
    <3>2. /\ g.branch \in Byte /\ g.node.at \in Path /\ Len(g.node.at) \in Nat
      BY <1>1, <3>1, FrameTypes
    <3>3. f.node = ChildIn(ns, g.node, g.branch)
      BY <1>4, <3>1 DEF Chained, FrameOK, f
    <3>4. g.node \in DOMAIN ns /\ Len(g.node.at) < Len(f.node.at)
      BY <1>4, <3>1 DEF Chained, FrameOK, f
    <3> HIDE DEF g
    <3>5. Append(g.node.at, g.branch) # hole
      <4>1. Len(Append(g.node.at, g.branch)) = Len(g.node.at) + 1
        BY <3>2, AppendStarts
      <4> QED BY <1>5, <1>8, <3>2, <3>4, <4>1
    <3>6. SlotOK(ns, K, ChildIn(ns, g.node, g.branch), Append(g.node.at, g.branch))
      BY <3>2, <3>4, <3>5 DEF Linked
    <3>7. HolePath(rest) = Append(g.node.at, g.branch)
      BY <1>2, <2>2 DEF HolePath, g
    <3> QED BY <3>3, <3>6, <3>7
  <2> QED BY <2>1, <2>2
<1>12. NodeSlot(ns, K, f.node, HolePath(rest))
  BY <1>5, <1>9, <1>10, <1>11, RefKinds, SlotKinds
<1> QED BY <1>1, <1>3, <1>5, <1>6, <1>7, <1>10, <1>12 DEF Above, rest

\* The frame at r takes the edge b towards the key.
Pushes(ns, top, stack, r, b, st) ==
  r = HoleContent(ns, top, stack) /\ st = <<[node |-> r, branch |-> b]>> \o stack

\* The deepest suspended frame has taken the edge b of r.
AtEdge(ns, top, stack, key, r, b) ==
  /\ Chained(ns, top, stack, key) /\ HolePath(stack) = Append(r.at, b)
  /\ HoleContent(ns, top, stack) = ChildIn(ns, r, b)

\* A frame that recurses extends the chain.
LEMMA Pushed ==
  ASSUME NEW ns, NEW K, NEW top, NEW stack, NEW key \in Path,
         Chained(ns, top, stack, key), DOMAIN ns \subseteq InnerRefs,
         NEW r, NodeSlot(ns, K, r, HolePath(stack)),
         NEW b \in Byte, b \in DOMAIN ns[r].children, Starts(Append(r.at, b), key),
         NEW st, Pushes(ns, top, stack, r, b, st)
  PROVE  AtEdge(ns, top, st, key, r, b)
<1> r = HoleContent(ns, top, stack) /\ st = <<[node |-> r, branch |-> b]>> \o stack
  BY DEF Pushes
<1> DEFINE f == [node |-> r, branch |-> b]
<1>1. stack \in Seq(Frames) /\ Len(stack) \in Nat
  BY DEF Chained
<1>2. r \in DOMAIN ns /\ r \in InnerRefs /\ Starts(HolePath(stack), r.at)
  BY DEF NodeSlot
<1>3. f \in Frames /\ f.node = r /\ f.branch = b
  BY <1>2 DEF Frames
<1> HIDE DEF f
<1>4. /\ st \in Seq(Frames) /\ Len(st) = Len(stack) + 1 /\ st[1] = f /\ st # <<>>
      /\ \A i \in 1 .. Len(stack) : st[i + 1] = stack[i]
  <2>1. st = <<f>> \o stack
    BY DEF f
  <2> QED BY ONLY <1>1, <1>3, <2>1
<1>5. ASSUME NEW i \in 1 .. Len(st)
      PROVE  FrameOK(ns, st[i], IF i = Len(st) THEN top
                                ELSE ChildIn(ns, st[i + 1].node, st[i + 1].branch), key)
  <2>1. CASE i = 1
    <3>1. FrameOK(ns, f, r, key)
      BY <1>2, <1>3 DEF FrameOK
    <3>2. CASE stack = <<>>
      <4>1. r = top /\ i = Len(st)
        BY ONLY <2>1, <3>2, <1>4, r = HoleContent(ns, top, stack) DEF HoleContent
      <4> QED BY ONLY <1>4, <2>1, <3>1, <4>1
    <3>3. CASE stack # <<>>
      <4>1. 1 \in 1 .. Len(stack)
        BY ONLY <1>1, <3>3
      <4>2. st[i + 1] = stack[1] /\ i # Len(st)
        BY ONLY <1>1, <1>4, <2>1, <4>1
      <4>3. r = ChildIn(ns, stack[1].node, stack[1].branch)
        BY ONLY <3>3, r = HoleContent(ns, top, stack) DEF HoleContent
      <4> QED BY ONLY <1>4, <2>1, <3>1, <4>2, <4>3
    <3> QED BY <3>2, <3>3
  <2>2. CASE i # 1
    <3> DEFINE j == i - 1
    <3>1. j \in 1 .. Len(stack) /\ i = j + 1
      BY ONLY <1>1, <1>4, <2>2, i \in 1 .. Len(st)
    <3> HIDE DEF j
    <3>2. st[i] = stack[j] /\ (i = Len(st) <=> j = Len(stack))
      BY ONLY <1>1, <1>4, <3>1
    <3>3. j # Len(stack) => st[i + 1] = stack[j + 1]
      BY ONLY <1>1, <1>4, <3>1
    <3>4. FrameOK(ns, stack[j], IF j = Len(stack) THEN top
                                ELSE ChildIn(ns, stack[j + 1].node, stack[j + 1].branch), key)
      BY <3>1 DEF Chained
    <3> QED BY ONLY <3>2, <3>3, <3>4
  <2> QED BY <2>1, <2>2
<1>6. ASSUME NEW i \in 1 .. Len(st), NEW j \in 1 .. Len(st), i < j
      PROVE  Len(st[j].node.at) < Len(st[i].node.at)
  <2> DEFINE n == j - 1
  <2>1. n \in 1 .. Len(stack) /\ j = n + 1
    BY ONLY <1>1, <1>4, <1>6
  <2> HIDE DEF n
  <2>2. st[j] = stack[n]
    BY ONLY <1>4, <2>1
  <2>3. CASE i = 1
    <3>1. Len(stack[n].node.at) < Len(HolePath(stack))
      BY <2>1, ChainIsSlot
    <3>2. Len(HolePath(stack)) <= Len(r.at) /\ Len(HolePath(stack)) \in Nat
      BY <1>2, RefKinds, ChainIsSlot, StartsOrder, Lengths
    <3>3. Len(stack[n].node.at) \in Nat /\ Len(r.at) \in Nat
      BY <1>1, <1>2, <2>1, FrameTypes, RefKinds, Lengths
    <3>4. st[i].node = r
      BY ONLY <1>3, <1>4, <2>3
    <3> QED BY ONLY <2>2, <3>1, <3>2, <3>3, <3>4
  <2>4. CASE i # 1
    <3> DEFINE m == i - 1
    <3>1. m \in 1 .. Len(stack) /\ i = m + 1 /\ m < n
      BY ONLY <1>1, <1>4, <1>6, <2>1, <2>4
    <3> HIDE DEF m
    <3>2. Len(stack[n].node.at) < Len(stack[m].node.at)
      BY <2>1, <3>1 DEF Chained
    <3> QED BY ONLY <1>4, <2>2, <3>1, <3>2
  <2> QED BY <2>3, <2>4
<1>7. Chained(ns, top, st, key)
  BY ONLY <1>4, <1>5, <1>6 DEF Chained
<1> QED BY ONLY <1>3, <1>4, <1>7 DEF AtEdge, HolePath, HoleContent

-----------------------------------------------------------------------------
(***************************************************************************)
(* The inductive invariant.  The tree is whole except while a Put or a     *)
(* Delete is on its way back: then one slot, the hole, is not yet what the *)
(* call is about to store in it.                                           *)
(***************************************************************************)
\* The keys and values, and the counter of Tree.
LeavesOK(lv, n) ==
  /\ IsMap(lv) /\ DOMAIN lv \subseteq Keys /\ \A k \in DOMAIN lv : lv[k] \in Values
  /\ IsFiniteSet(DOMAIN lv) /\ n = Cardinality(DOMAIN lv)

\* The fields of Tree.
HeapOK(top, n, lv, ns) ==
  LeavesOK(lv, n) /\ IsMap(ns) /\ (top = nil \/ top.at \in Path)

\* The fields of a call.
CallShape(c) ==
  c = [phase |-> c.phase, req |-> c.req, cur |-> c.cur, depth |-> c.depth,
       stack |-> c.stack, ret |-> c.ret, before |-> c.before, copy |-> c.copy,
       result |-> c.result]

\* Put and Delete on their way down: the active frame has been given what the
\* slot of the suspended frame refers to, at the depth where that slot is.
Descending(c, top, n, ns) ==
  /\ Chained(ns, top, c.stack, c.req.key)
  /\ c.cur = HoleContent(ns, top, c.stack)
  /\ c.depth = Len(HolePath(c.stack)) /\ c.before = n

\* On their way back: ret is what the suspended frame has to store.
Ascending(c, top, ns, K) ==
  /\ Chained(ns, top, c.stack, c.req.key)
  /\ Linked(ns, K, HolePath(c.stack)) /\ AllFull(ns, K)
  /\ SlotOK(ns, K, c.ret, HolePath(c.stack))
  /\ c.stack # <<>> => SlotOK(ns, K, top, <<>>)
  /\ c.req.op = "Put" => c.ret # nil

\* Get: cur is what a slot on the way to the key refers to.
Searching(c, ns, K) ==
  c.depth <= Len(c.req.key) /\ SlotOK(ns, K, c.cur, Upto(c.req.key, c.depth))

\* A map that is part of another.
SubMap(m, n) == IsMap(m) /\ DOMAIN m \subseteq DOMAIN n /\ \A x \in DOMAIN m : m[x] = n[x]

\* What a sequence holds.
Members(s) == {s[i] : i \in 1 .. Len(s)}
\* The nodes that Clone still has to copy.
Pending(c) == ({c.cur} \cup Members(c.stack)) \ {nil}

\* A node of the tree, or a leaf of it.
Referred(ns, K, x) ==
  x \in DOMAIN ns \/ (x = Leaf(x.at) /\ LeafSlot(ns, K, x.at, x.at))

\* The copy is part of the tree, and whatever is missing from it is at or below
\* one of the nodes S that are still to be copied.
Outstanding(copy, lv, ns, S) ==
  /\ copy = [leaves |-> copy.leaves, nodes |-> copy.nodes]
  /\ SubMap(copy.leaves, lv) /\ SubMap(copy.nodes, ns)
  /\ \A x \in S : Referred(ns, DOMAIN lv, x)
  /\ \A k \in DOMAIN lv \ DOMAIN copy.leaves : \E x \in S : Starts(x.at, k)
  /\ \A r \in DOMAIN ns \ DOMAIN copy.nodes : \E x \in S : Starts(x.at, r.at)

\* Clone at work.
Copying(c, lv, ns) ==
  /\ Outstanding(c.copy, lv, ns, Pending(c))
  /\ c.stack \in Seq(NodeRefs) /\ (c.cur = nil => c.stack = <<>>)

\* What Clone has returned is a tree.
Snapshot(t) ==
  /\ DOMAIN t.leaves \subseteq Path /\ IsMap(t.nodes)
  /\ Whole(t.nodes, DOMAIN t.leaves, t.root) /\ t.size = Cardinality(DOMAIN t.leaves)

\* A call, in a tree with the root top, n keys, the leaves lv and the nodes ns.
CallOK(c, top, n, lv, ns) ==
  /\ CallShape(c) /\ c.depth \in Nat
  /\ c.phase \in {"idle", "enter", "return", "done"}
  /\ c.phase = "idle" => c = Idle
  /\ c.phase # "idle" => c.req \in SM!Calls
  /\ c.phase = "enter" => c.result = none
  /\ c.phase = "enter" /\ c.req.op \in {"Put", "Delete"} => Descending(c, top, n, ns)
  /\ c.phase = "return" => c.req.op \in {"Put", "Delete"} /\ Ascending(c, top, ns, DOMAIN lv)
  /\ c.phase = "enter" /\ c.req.op = "Get" => Searching(c, ns, DOMAIN lv)
  /\ c.phase = "enter" /\ c.req.op = "Clone" => Copying(c, lv, ns)
  /\ c.phase = "done" /\ c.req.op = "Clone" => Snapshot(c.result)

\* A call that changes the tree excludes every other.
Exclusive ==
  \A p, q \in Procs :
    p # q /\ call[p].phase # "idle" /\ call[p].req.op \in SM!Writers
      => call[q].phase = "idle"

\* Somebody is on the way back, with a node not yet stored in its slot.
Returning == \E p \in Procs : call[p].phase = "return"

\* The inductive invariant.
TreeInv ==
  /\ HeapOK(root, size, leaves, nodes)
  /\ IsMap(call) /\ DOMAIN call = Procs
  /\ Exclusive
  /\ ~ Returning => Whole(nodes, DOMAIN leaves, root)
  /\ \A p \in Procs : CallOK(call[p], root, size, leaves, nodes)
-----------------------------------------------------------------------------
(***************************************************************************)
(* Steps of one call.                                                      *)
(***************************************************************************)
\* p's call becomes c, and nobody else's changes.
Becomes(p, c) ==
  /\ IsMap(call') /\ DOMAIN call' = Procs /\ call'[p] = c
  /\ \A q \in Procs \ {p} : call'[q] = call[q]

\* An update of one call, as EXCEPT writes it.
LEMMA CallBecomes ==
  ASSUME TreeInv, NEW p \in Procs, NEW c, call' = [call EXCEPT ![p] = c]
  PROVE  Becomes(p, c)
  BY DEF TreeInv, IsMap, Becomes

\* The call of nobody is in order in any tree.
LEMMA IdleOK ==
  ASSUME NEW top, NEW n, NEW lv, NEW ns
  PROVE  CallOK(Idle, top, n, lv, ns)
  BY DEF CallOK, CallShape, Idle

\* A step of the call of p, which changes the tree or not.
LEMMA WriterStep ==
  ASSUME TreeInv, NEW p \in Procs, call[p].phase # "idle", call[p].req.op \in SM!Writers,
         NEW c, Becomes(p, c), c.req = call[p].req,
         CallOK(c, root', size', leaves', nodes'),
         HeapOK(root', size', leaves', nodes'),
         c.phase # "return" => Whole(nodes', DOMAIN leaves', root')
  PROVE  TreeInv'
<1>1. \A q \in Procs \ {p} : call'[q] = call[q] /\ call[q].phase = "idle"
  BY DEF TreeInv, Exclusive, Becomes
<1>2. \A q \in Procs \ {p} : call'[q] = Idle
  BY <1>1 DEF TreeInv, CallOK
<1>3. \A q \in Procs : CallOK(call'[q], root', size', leaves', nodes')
  BY <1>2, IdleOK DEF Becomes
<1>4. Exclusive'
  <2>1. \A q \in Procs \ {p} : call'[q].phase = "idle"
    BY <1>1
  <2> QED BY <2>1 DEF Exclusive
<1>5. ~ Returning' => c.phase # "return"
  BY DEF Returning, Becomes
<1> QED BY <1>3, <1>4, <1>5 DEF TreeInv, Becomes

\* p may be in the call c beside the calls of the others.
Beside(p, c) ==
  c.phase # "idle" =>
    \A q \in Procs \ {p} :
      call[q].phase # "idle" => c.req.op \notin SM!Writers /\ call[q].req.op \notin SM!Writers

\* A call that has begun may go on beside the others.
LEMMA StaysBeside ==
  ASSUME TreeInv, NEW p \in Procs, NEW c, call[p].phase # "idle",
         c.phase # "idle" => c.req = call[p].req
  PROVE  Beside(p, c)
  BY DEF TreeInv, Exclusive, Beside

\* A step that does not change the tree.
LEMMA ReaderStep ==
  ASSUME TreeInv, NEW p \in Procs, UNCHANGED tree, call[p].phase # "return",
         NEW c, Becomes(p, c), c.phase # "return", Beside(p, c),
         CallOK(c, root, size, leaves, nodes)
  PROVE  TreeInv'
<1>1. root' = root /\ size' = size /\ leaves' = leaves /\ nodes' = nodes
  BY DEF tree
<1>2. \A q \in Procs : CallOK(call'[q], root', size', leaves', nodes')
  BY <1>1 DEF TreeInv, Becomes
<1>3. Exclusive'
  BY DEF TreeInv, Exclusive, Becomes, Beside
<1>4. Returning' <=> Returning
  BY DEF Returning, Becomes
<1> QED BY <1>1, <1>2, <1>3, <1>4 DEF TreeInv, Becomes

-----------------------------------------------------------------------------
(***************************************************************************)
(* The frames of Put and Delete.                                           *)
(***************************************************************************)
\* What a call asks for.
LEMMA RequestTypes ==
  ASSUME NEW req \in SM!Calls
  PROVE  /\ req.op \in {"Put", "Get", "Delete", "Len", "Clear", "Clone"}
         /\ req.op \in {"Put", "Get", "Delete"} => req.key \in Keys /\ req.key \in Path
         /\ req.op = "Put" => req.val \in Values
         /\ req.op \in {"Put", "Delete", "Clear"} <=> req.op \in SM!Writers
  BY KeysAssumption DEF SM!Calls, SM!KeyOps, SM!PlainOps, SM!Writers, Path

\* The active frame of a call for key on its way down: hole is the slot it has
\* come through, in a tree that is whole.
Down(c, K, key, hole) ==
  /\ K \in SUBSET Path /\ key \in Path /\ key \in Keys
  /\ hole = HolePath(c.stack) /\ hole \in Path /\ IsSlot(nodes, hole) /\ Starts(hole, key)
  /\ Chained(nodes, root, c.stack, key) /\ c.depth = Len(hole)
  /\ Linked(nodes, K, <<>>) /\ Linked(nodes, K, hole) /\ AllFull(nodes, K)
  /\ SlotOK(nodes, K, root, <<>>) /\ SlotOK(nodes, K, c.cur, hole)
  /\ IsMap(nodes) /\ DOMAIN nodes \subseteq InnerRefs
  /\ c.cur = HoleContent(nodes, root, c.stack)

\* While somebody is in a Put, Delete or Clear of which no frame has ended, the
\* tree is whole.
LEMMA WholeBeforeWrites ==
  ASSUME TreeInv, NEW p \in Procs, call[p].phase = "enter",
         call[p].req.op \in {"Put", "Delete", "Clear"}
  PROVE  Whole(nodes, DOMAIN leaves, root)
<1>1. call[p].req.op \in SM!Writers
  BY DEF SM!Writers
<1>2. \A q \in Procs : call[q].phase # "return"
  BY <1>1 DEF TreeInv, Exclusive
<1> QED BY <1>2 DEF TreeInv, Returning

\* The active frame of Put or Delete on its way down is at its slot.
LEMMA WayDown ==
  ASSUME TreeInv, NEW p \in Procs, call[p].phase = "enter",
         call[p].req.op \in {"Put", "Delete"}
  PROVE  Down(call[p], DOMAIN leaves, call[p].req.key, HolePath(call[p].stack))
<1> DEFINE c == call[p]
           K == DOMAIN leaves
           key == c.req.key
           hole == HolePath(c.stack)
<1>1. CallOK(c, root, size, leaves, nodes)
  BY DEF TreeInv
<1> HIDE DEF c
<1>2. c.phase = "enter" /\ c.req.op \in {"Put", "Delete"}
  BY DEF c
<1>3. c.req \in SM!Calls /\ Descending(c, root, size, nodes)
  BY <1>1, <1>2 DEF CallOK
<1>4. key \in Keys /\ key \in Path
  BY <1>2, <1>3, RequestTypes
<1>5. K \in SUBSET Path /\ IsMap(nodes)
  BY KeysAssumption DEF TreeInv, HeapOK, LeavesOK, Path
<1>6. Linked(nodes, K, <<>>) /\ AllFull(nodes, K) /\ SlotOK(nodes, K, root, <<>>)
  BY WholeBeforeWrites DEF Whole
<1>7. Linked(nodes, K, hole) /\ DOMAIN nodes \subseteq InnerRefs
  BY <1>6, AnyHole, LinkedTypes
<1>8. Chained(nodes, root, c.stack, key) /\ c.cur = HoleContent(nodes, root, c.stack)
      /\ c.depth = Len(hole)
  BY <1>3 DEF Descending
<1>9. hole \in Path /\ IsSlot(nodes, hole) /\ Starts(hole, key)
  BY <1>4, <1>8, ChainIsSlot
<1>10. SlotOK(nodes, K, c.cur, hole)
  BY <1>4, <1>5, <1>6, <1>8, HoleSlotOK
<1> HIDE DEF K, key, hole
<1>11. hole = HolePath(c.stack)
  BY DEF hole
<1>12. Down(c, K, key, hole)
  BY ONLY <1>4, <1>5, <1>6, <1>7, <1>8, <1>9, <1>10, <1>11 DEF Down
<1> QED BY <1>12 DEF c, K, key, hole

\* The call of a frame that ends, of the one that resumes, and of no frame.
Returned(c, r) == [c EXCEPT !.phase = "return", !.ret = r]
Unwound(c, r) == [c EXCEPT !.stack = Tail(@), !.ret = r]
Ending(req, result) == [Idle EXCEPT !.phase = "done", !.req = req, !.result = result]

\* The fields of a call that goes back, unwinds or ends.
LEMMA ReturnedFields ==
  ASSUME NEW c, CallShape(c), NEW r
  PROVE  LET d == Returned(c, r) IN
         /\ CallShape(d) /\ d.phase = "return" /\ d.ret = r /\ d.req = c.req
         /\ d.stack = c.stack /\ d.depth = c.depth /\ d.result = c.result
         /\ d.before = c.before
<1> DEFINE d == Returned(c, r)
<1>1. d = [c EXCEPT !.phase = "return", !.ret = r]
  BY DEF Returned
<1> HIDE DEF d
<1>2. /\ CallShape(d) /\ d.phase = "return" /\ d.ret = r /\ d.req = c.req
      /\ d.stack = c.stack /\ d.depth = c.depth /\ d.result = c.result
      /\ d.before = c.before
  BY <1>1 DEF CallShape
<1> QED BY <1>2 DEF d

\* The fields of a call after a suspended frame has stored its result.
LEMMA UnwoundFields ==
  ASSUME NEW c, CallShape(c), NEW r
  PROVE  LET d == Unwound(c, r) IN
         /\ CallShape(d) /\ d.phase = c.phase /\ d.ret = r /\ d.req = c.req
         /\ d.stack = Tail(c.stack) /\ d.depth = c.depth /\ d.result = c.result
         /\ d.before = c.before
<1> DEFINE d == Unwound(c, r)
<1>1. d = [c EXCEPT !.stack = Tail(@), !.ret = r]
  BY DEF Unwound
<1> HIDE DEF d
<1>2. /\ CallShape(d) /\ d.phase = c.phase /\ d.ret = r /\ d.req = c.req
      /\ d.stack = Tail(c.stack) /\ d.depth = c.depth /\ d.result = c.result
      /\ d.before = c.before
  BY <1>1 DEF CallShape
<1> QED BY <1>2 DEF d

\* The fields of a call that has its answer.
LEMMA EndingFields ==
  ASSUME NEW req, NEW result
  PROVE  LET d == Ending(req, result) IN
         /\ CallShape(d) /\ d.phase = "done" /\ d.req = req /\ d.result = result
         /\ d.depth = 0
<1> DEFINE d == Ending(req, result)
<1>1. d = [Idle EXCEPT !.phase = "done", !.req = req, !.result = result]
  BY DEF Ending
<1> HIDE DEF d
<1>2. /\ CallShape(d) /\ d.phase = "done" /\ d.req = req /\ d.result = result
      /\ d.depth = 0
  BY <1>1 DEF CallShape, Idle
<1> QED BY <1>2 DEF d

\* The active frame of Put or Delete has rebuilt the tree behind its slot and
\* returns what the slot has to hold, r.
LEMMA FrameReturns ==
  ASSUME TreeInv, NEW p \in Procs, call[p].phase = "enter",
         call[p].req.op \in {"Put", "Delete"},
         NEW r, ReturnNode(p, r), call[p].req.op = "Put" => r # nil,
         root' = root, LeavesOK(leaves', size'),
         Rebuilt(nodes, DOMAIN leaves, nodes', DOMAIN leaves', HolePath(call[p].stack), r)
  PROVE  TreeInv'
<1> DEFINE c == call[p]
           K == DOMAIN leaves
           J == DOMAIN leaves'
           key == c.req.key
           hole == HolePath(c.stack)
           d == Returned(c, r)
<1>1. Down(c, K, key, hole)
  BY WayDown
<1>2. CallShape(c) /\ c.depth \in Nat /\ c.req \in SM!Calls
  BY DEF TreeInv, CallOK
<1>3. Becomes(p, d)
  BY CallBecomes DEF ReturnNode, Returned
<1>4. J \in SUBSET Path
  BY KeysAssumption DEF LeavesOK, Path
<1>5. HeapOK(root', size', leaves', nodes')
  BY DEF TreeInv, HeapOK, Rebuilt
<1>6. c.phase = "enter" /\ c.req.op \in {"Put", "Delete"} /\ (c.req.op = "Put" => r # nil)
  OBVIOUS
<1>7. Rebuilt(nodes, K, nodes', J, hole, r)
  OBVIOUS
<1>8. /\ CallShape(d) /\ d.phase = "return" /\ d.ret = r /\ d.req = c.req
      /\ d.stack = c.stack /\ d.depth = c.depth
  BY <1>2, ReturnedFields
<1> HIDE DEF d, c, K, J, key, hole
<1>9. K \in SUBSET Path /\ key \in Path /\ hole = HolePath(c.stack)
      /\ DOMAIN nodes \subseteq InnerRefs /\ Chained(nodes, root, c.stack, key)
      /\ SlotOK(nodes, K, root, <<>>)
  BY <1>1 DEF Down
<1>10. /\ Chained(nodes', root, c.stack, key)
       /\ c.stack # <<>> => SlotOK(nodes', J, root, <<>>)
  BY <1>4, <1>7, <1>9, ChainKept
<1>11. Ascending(d, root, nodes', J)
  BY <1>6, <1>7, <1>8, <1>9, <1>10 DEF Ascending, Rebuilt, key
<1>12. CallOK(d, root', size', leaves', nodes')
  BY <1>2, <1>6, <1>8, <1>11 DEF CallOK, J
<1>13. c.req.op \in SM!Writers
  BY <1>6 DEF SM!Writers
<1> QED BY <1>3, <1>5, <1>6, <1>8, <1>12, <1>13, WriterStep DEF c

\* The frame of a call on its way back has been given what it has to store.
LEMMA WayBack ==
  ASSUME TreeInv, NEW p \in Procs, call[p].phase = "return"
  PROVE  LET c == call[p]
             K == DOMAIN leaves
         IN  /\ CallShape(c) /\ c.depth \in Nat /\ c.req \in SM!Calls
             /\ c.req.op \in {"Put", "Delete"} /\ c.req.op \in SM!Writers
             /\ c.req.key \in Path /\ K \in SUBSET Path /\ IsMap(nodes)
             /\ DOMAIN nodes \subseteq InnerRefs /\ Ascending(c, root, nodes, K)
<1> DEFINE c == call[p]
           K == DOMAIN leaves
<1>1. CallOK(c, root, size, leaves, nodes) /\ c.phase = "return"
  BY DEF TreeInv
<1>2. /\ CallShape(c) /\ c.depth \in Nat /\ c.req \in SM!Calls
      /\ c.req.op \in {"Put", "Delete"} /\ Ascending(c, root, nodes, K)
  BY <1>1 DEF CallOK
<1>3. c.req.key \in Path /\ c.req.op \in SM!Writers
  BY <1>2, RequestTypes
<1>4. K \in SUBSET Path /\ IsMap(nodes)
  BY KeysAssumption DEF TreeInv, HeapOK, LeavesOK, Path
<1>5. DOMAIN nodes \subseteq InnerRefs
  BY <1>2, LinkedTypes DEF Ascending
<1> QED BY <1>2, <1>3, <1>4, <1>5

\* A suspended frame has stored what the one below it returned, and returns r.
LEMMA FrameResumes ==
  ASSUME TreeInv, NEW p \in Procs, call[p].phase = "return", call[p].stack # <<>>,
         NEW r, Unwind(p, r), call[p].req.op = "Put" => r # nil,
         root' = root, size' = size, leaves' = leaves,
         Rebuilt(nodes, DOMAIN leaves, nodes', DOMAIN leaves, HolePath(Tail(call[p].stack)), r)
  PROVE  TreeInv'
<1> DEFINE c == call[p]
           K == DOMAIN leaves
           key == c.req.key
           path == HolePath(Tail(c.stack))
           d == Unwound(c, r)
<1>1. /\ CallShape(c) /\ c.depth \in Nat /\ c.req \in SM!Calls
      /\ c.req.op \in {"Put", "Delete"} /\ c.req.op \in SM!Writers
      /\ key \in Path /\ K \in SUBSET Path /\ IsMap(nodes)
      /\ DOMAIN nodes \subseteq InnerRefs /\ Ascending(c, root, nodes, K)
  BY WayBack
<1>2. c.phase = "return" /\ (c.req.op = "Put" => r # nil) /\ c.stack # <<>>
  OBVIOUS
<1>3. Becomes(p, d)
  BY CallBecomes DEF Unwind, Unwound
<1>4. HeapOK(root', size', leaves', nodes')
  BY DEF TreeInv, HeapOK, Rebuilt
<1>5. Rebuilt(nodes, K, nodes', K, path, r) /\ path = HolePath(Tail(c.stack))
  OBVIOUS
<1>6. /\ CallShape(d) /\ d.phase = c.phase /\ d.ret = r /\ d.req = c.req
      /\ d.stack = Tail(c.stack) /\ d.depth = c.depth
  BY <1>1, UnwoundFields
<1> HIDE DEF d, c, K, path
<1>7. Chained(nodes, root, c.stack, key) /\ SlotOK(nodes, K, root, <<>>)
  BY <1>1, <1>2 DEF Ascending
<1> HIDE DEF key
<1>8. Chained(nodes, root, Tail(c.stack), key)
  BY <1>1, <1>2, <1>7, Popped
<1>9. /\ Chained(nodes', root, Tail(c.stack), key)
      /\ Tail(c.stack) # <<>> => SlotOK(nodes', K, root, <<>>)
  BY <1>1, <1>5, <1>7, <1>8, ChainKept
<1>10. Ascending(d, root, nodes', K)
  BY <1>2, <1>5, <1>6, <1>9 DEF Ascending, Rebuilt, key
<1>11. CallOK(d, root', size', leaves', nodes')
  BY <1>1, <1>2, <1>6, <1>10 DEF CallOK, K
<1> QED BY <1>1, <1>2, <1>3, <1>4, <1>6, <1>11, WriterStep DEF c

\* The last frame has ended: what it returned becomes the root.
LEMMA CallFinishes ==
  ASSUME TreeInv, NEW p \in Procs, call[p].phase = "return", call[p].stack = <<>>,
         NEW result, Done(p, result), root' = call[p].ret,
         size' = size, leaves' = leaves, nodes' = nodes
  PROVE  TreeInv'
<1> DEFINE c == call[p]
           K == DOMAIN leaves
           d == Ending(c.req, result)
<1>1. /\ c.req \in SM!Calls /\ c.req.op \in {"Put", "Delete"} /\ c.req.op \in SM!Writers
      /\ K \in SUBSET Path /\ IsMap(nodes)
      /\ DOMAIN nodes \subseteq InnerRefs /\ Ascending(c, root, nodes, K)
  BY WayBack
<1>2. Becomes(p, d)
  BY CallBecomes DEF Done, Ending
<1>3. Linked(nodes, K, <<>>) /\ AllFull(nodes, K) /\ SlotOK(nodes, K, c.ret, <<>>)
  BY <1>1 DEF Ascending, HolePath
<1>4. c.ret = nil \/ c.ret.at \in Path
  BY <1>1, <1>3, RefKinds DEF SlotOK, LeafSlot, NodeSlot
<1>5. HeapOK(root', size', leaves', nodes')
  BY <1>4 DEF TreeInv, HeapOK
<1>6. Whole(nodes', DOMAIN leaves', root')
  BY <1>3 DEF Whole
<1>7. c.phase = "return"
  OBVIOUS
<1>8. CallShape(d) /\ d.phase = "done" /\ d.req = c.req /\ d.depth = 0
  BY EndingFields
<1> HIDE DEF c, d
<1>9. CallOK(d, root', size', leaves', nodes')
  BY <1>1, <1>8 DEF CallOK
<1> QED BY <1>1, <1>2, <1>5, <1>6, <1>7, <1>8, <1>9, WriterStep DEF c

-----------------------------------------------------------------------------
(***************************************************************************)
(* What the callers see of a step.                                         *)
(***************************************************************************)
\* A call c in a tree that counts n keys, as its caller sees it.
ClientOf(c, n) ==
  [phase  |-> CASE c.phase = "enter" -> "pending"
                [] c.phase \in {"return", "done"} -> "applied"
                [] OTHER -> c.phase,
   req    |-> c.req,
   result |-> CASE c.phase = "return" ->
                     IF c.req.op = "Put" THEN "ok" ELSE c.before # n
                [] c.phase = "done" /\ c.req.op = "Clone" -> c.result.leaves
                [] OTHER -> c.result]

\* A call as its caller sees it.
Seen(phase, req, result) == [phase |-> phase, req |-> req, result |-> result]

\* TreeClient, call by call.
LEMMA Clients ==
  /\ TreeClient = [p \in Procs |-> ClientOf(call[p], size)]
  /\ TreeClient' = [p \in Procs |-> ClientOf(call'[p], size')]
  BY DEF TreeClient, ClientOf

\* What a caller sees in each phase.
LEMMA ClientPhases ==
  ASSUME NEW c, NEW n
  PROVE  /\ c.phase = "enter" => ClientOf(c, n) = Seen("pending", c.req, c.result)
         /\ c.phase = "return" =>
              ClientOf(c, n) = Seen("applied", c.req,
                                    IF c.req.op = "Put" THEN "ok" ELSE c.before # n)
         /\ c.phase = "done" =>
              ClientOf(c, n) = Seen("applied", c.req,
                                    IF c.req.op = "Clone" THEN c.result.leaves ELSE c.result)
         /\ c = Idle => ClientOf(c, n) = SM!IdleClient
<1>1. c.phase = "enter" => ClientOf(c, n) = Seen("pending", c.req, c.result)
  BY DEF ClientOf, Seen
<1>2. c.phase = "return" =>
        ClientOf(c, n) = Seen("applied", c.req,
                              IF c.req.op = "Put" THEN "ok" ELSE c.before # n)
  BY DEF ClientOf, Seen
<1>3. c.phase = "done" =>
        ClientOf(c, n) = Seen("applied", c.req,
                              IF c.req.op = "Clone" THEN c.result.leaves ELSE c.result)
  BY DEF ClientOf, Seen
<1>4. c = Idle => ClientOf(c, n) = SM!IdleClient
  <2>1. Idle.phase = "idle" /\ Idle.req = none /\ Idle.result = none
    BY DEF Idle
  <2> QED BY <2>1 DEF ClientOf, SM!IdleClient
<1> QED BY <1>1, <1>2, <1>3, <1>4

\* The others see nothing of a step of p.
LEMMA OthersSame ==
  ASSUME TreeInv, NEW p \in Procs, NEW c, Becomes(p, c), call[p].phase # "idle",
         size' = size \/ call[p].req.op \in SM!Writers
  PROVE  TreeClient' = [TreeClient EXCEPT ![p] = ClientOf(c, size')]
<1>1. ASSUME NEW q \in Procs \ {p}
      PROVE  ClientOf(call'[q], size') = ClientOf(call[q], size)
  <2>1. call'[q] = call[q]
    BY DEF Becomes
  <2>2. CASE size' = size
    BY <2>1, <2>2
  <2>3. CASE call[p].req.op \in SM!Writers
    <3>1. call[q] = Idle
      BY <2>3 DEF TreeInv, Exclusive, CallOK
    <3> QED BY <2>1, <3>1, ClientPhases
  <2> QED BY <2>2, <2>3
<1>2. call'[p] = c
  BY DEF Becomes
<1> QED BY <1>1, <1>2, Clients

\* A step inside a call that nobody sees.
LEMMA Unseen ==
  ASSUME TreeInv, NEW p \in Procs, NEW c, Becomes(p, c), call[p].phase # "idle",
         size' = size, leaves' = leaves, ClientOf(c, size) = ClientOf(call[p], size)
  PROVE  UNCHANGED SM!smVars
<1>1. TreeClient' = [TreeClient EXCEPT ![p] = ClientOf(c, size)]
  BY OthersSame
<1>2. TreeClient[p] = ClientOf(call[p], size)
  BY Clients
<1>3. [TreeClient EXCEPT ![p] = TreeClient[p]] = TreeClient
  BY Clients
<1> QED BY <1>1, <1>2, <1>3 DEF SM!smVars

\* The step at which a call takes effect.
LEMMA TakesEffect ==
  ASSUME TreeInv, NEW p \in Procs, NEW c, Becomes(p, c), call[p].phase = "enter",
         size' = size \/ call[p].req.op \in SM!Writers,
         ClientOf(c, size') = Seen("applied", call[p].req, SM!Answered(call[p].req)),
         leaves' = SM!Effect(call[p].req)
  PROVE  SM!SMApply(p)
<1> DEFINE req == call[p].req
<1>1. TreeClient' = [TreeClient EXCEPT ![p] = Seen("applied", req, SM!Answered(req))]
  BY OthersSame
<1>2. call[p].result = none
  BY DEF TreeInv, CallOK
<1>3. TreeClient[p] = Seen("pending", req, none)
  BY <1>2, Clients, ClientPhases
<1> HIDE DEF req
<1>4. TreeClient[p].phase = "pending" /\ TreeClient[p].req = req
  BY <1>3 DEF Seen
<1>5. [TreeClient EXCEPT ![p].phase = "applied", ![p].result = SM!Answered(req)]
        = [TreeClient EXCEPT ![p] = Seen("applied", req, SM!Answered(req))]
  <2> DEFINE s == TreeClient[p]
             x == SM!Answered(req)
  <2>1. s = [phase |-> s.phase, req |-> s.req, result |-> s.result] /\ s.req = req
    BY <1>3 DEF Seen
  <2> HIDE DEF s, x
  <2> DEFINE u == [s EXCEPT !.phase = "applied", !.result = x]
  <2>4. u = [s EXCEPT !.phase = "applied", !.result = x]
    OBVIOUS
  <2> HIDE DEF u
  <2>5. /\ u = [phase |-> u.phase, req |-> u.req, result |-> u.result]
        /\ u.phase = "applied" /\ u.req = s.req /\ u.result = x
    BY ONLY <2>1, <2>4
  <2>2. u = Seen("applied", req, x)
    BY ONLY <2>1, <2>5 DEF Seen
  <2>3. [TreeClient EXCEPT ![p].phase = "applied", ![p].result = x]
          = [TreeClient EXCEPT ![p] = [s EXCEPT !.phase = "applied", !.result = x]]
    BY Clients DEF s
  <2> QED BY <2>2, <2>3 DEF x, u
<1> QED BY <1>1, <1>4, <1>5 DEF SM!SMApply, req

\* Frames of Put and Delete that end or resume.
LEMMA PutTakesEffect ==
  ASSUME TreeInv, NEW p \in Procs, call[p].phase = "enter", call[p].req.op = "Put",
         NEW r, ReturnNode(p, r),
         leaves' = With(leaves, call[p].req.key, call[p].req.val)
  PROVE  SM!SMApply(p)
<1> DEFINE c == call[p]
           d == Returned(c, r)
<1>1. Becomes(p, d)
  BY CallBecomes DEF ReturnNode, Returned
<1>2. CallShape(c)
  BY DEF TreeInv, CallOK
<1>3. d.phase = "return" /\ d.req = c.req
  BY <1>2, ReturnedFields
<1> HIDE DEF d
<1>4. ClientOf(d, size') = Seen("applied", c.req, "ok")
  BY <1>3, ClientPhases
<1>5. SM!Answered(c.req) = "ok"
  BY DEF SM!Answered
<1>6. leaves' = SM!Effect(c.req)
  BY DEF SM!Effect, SM!With, With
<1>7. c.req.op \in SM!Writers
  BY DEF SM!Writers
<1> QED BY <1>1, <1>4, <1>5, <1>6, <1>7, TakesEffect

\* Delete takes effect when the leaf is dropped: from then on the count differs
\* from the one it began with.
LEMMA DeleteTakesEffect ==
  ASSUME TreeInv, NEW p \in Procs, call[p].phase = "enter", call[p].req.op = "Delete",
         NEW r, ReturnNode(p, r), leaves' = Without(leaves, call[p].req.key),
         size' # size <=> call[p].req.key \in DOMAIN leaves
  PROVE  SM!SMApply(p)
<1> DEFINE c == call[p]
           d == Returned(c, r)
<1>1. Becomes(p, d)
  BY CallBecomes DEF ReturnNode, Returned
<1>2. CallShape(c) /\ c.before = size
  BY DEF TreeInv, CallOK, Descending
<1>3. d.phase = "return" /\ d.req = c.req /\ d.before = size
  BY <1>2, ReturnedFields
<1> HIDE DEF d
<1>4. ClientOf(d, size') = Seen("applied", c.req, size # size')
  BY <1>3, ClientPhases
<1>5. SM!Answered(c.req) = (c.req.key \in DOMAIN leaves)
  BY DEF SM!Answered
<1>6. (size # size') = (c.req.key \in DOMAIN leaves)
  OBVIOUS
<1>7. leaves' = SM!Effect(c.req)
  BY DEF SM!Effect, SM!Without, Without
<1>8. c.req.op \in SM!Writers
  BY DEF SM!Writers
<1> QED BY <1>1, <1>4, <1>5, <1>6, <1>7, <1>8, TakesEffect

\* Storing a returned node is seen by nobody.
LEMMA ResumeUnseen ==
  ASSUME TreeInv, NEW p \in Procs, call[p].phase = "return", NEW r, Unwind(p, r),
         size' = size, leaves' = leaves
  PROVE  UNCHANGED SM!smVars
<1> DEFINE c == call[p]
           d == Unwound(c, r)
<1>1. Becomes(p, d)
  BY CallBecomes DEF Unwind, Unwound
<1>2. CallShape(c)
  BY DEF TreeInv, CallOK
<1>3. d.phase = "return" /\ d.req = c.req /\ d.before = c.before
  BY <1>2, UnwoundFields
<1> HIDE DEF d
<1>4. ClientOf(d, size) = ClientOf(c, size)
  BY <1>3, ClientPhases
<1> QED BY <1>1, <1>4, Unseen
-----------------------------------------------------------------------------
(***************************************************************************)
(* Put.                                                                    *)
(***************************************************************************)
\* A key is counted as its leaf is allocated, and discounted as it is dropped.
LEMMA LeafCounted ==
  ASSUME NEW lv, NEW n, LeavesOK(lv, n), NEW key \in Keys, key \notin DOMAIN lv,
         NEW val \in Values
  PROVE  /\ LeavesOK(With(lv, key, val), n + 1)
         /\ DOMAIN With(lv, key, val) = DOMAIN lv \cup {key}
<1> DEFINE mv == With(lv, key, val)
<1>1. /\ IsMap(mv) /\ DOMAIN mv = DOMAIN lv \cup {key}
      /\ \A k \in DOMAIN mv : mv[k] = IF k = key THEN val ELSE lv[k]
  BY DEF With, IsMap
<1> HIDE DEF mv
<1>2. IsFiniteSet(DOMAIN mv) /\ Cardinality(DOMAIN mv) = Cardinality(DOMAIN lv) + 1
  BY <1>1, FS_AddElement DEF LeavesOK
<1> QED BY <1>1, <1>2 DEF LeavesOK, mv

\* Overwriting a value keeps the count.
LEMMA LeafOverwritten ==
  ASSUME NEW lv, NEW n, LeavesOK(lv, n), NEW key \in DOMAIN lv, NEW val \in Values
  PROVE  /\ LeavesOK(With(lv, key, val), n) /\ DOMAIN With(lv, key, val) = DOMAIN lv
<1> DEFINE mv == With(lv, key, val)
<1>1. /\ IsMap(mv) /\ DOMAIN mv = DOMAIN lv
      /\ \A k \in DOMAIN mv : mv[k] = IF k = key THEN val ELSE lv[k]
  BY DEF With, IsMap
<1> QED BY <1>1 DEF LeavesOK

\* A key is discounted when its leaf is dropped.
LEMMA LeafDiscounted ==
  ASSUME NEW lv, NEW n, LeavesOK(lv, n), NEW key \in DOMAIN lv
  PROVE  /\ LeavesOK(Without(lv, key), n - 1) /\ n - 1 # n
         /\ DOMAIN Without(lv, key) = DOMAIN lv \ {key}
<1> DEFINE mv == Without(lv, key)
<1>1. /\ IsMap(mv) /\ DOMAIN mv = DOMAIN lv \ {key}
      /\ \A k \in DOMAIN mv : mv[k] = lv[k]
  BY DEF Without, IsMap
<1> HIDE DEF mv
<1>2. IsFiniteSet(DOMAIN mv) /\ Cardinality(DOMAIN mv) = Cardinality(DOMAIN lv) - 1
  BY <1>1, FS_RemoveElement DEF LeavesOK
<1>3. n \in Nat
  BY FS_CardinalityType DEF LeavesOK
<1> QED BY <1>1, <1>2, <1>3 DEF LeavesOK, mv

\* A call that leaves the heap alone returns what its slot holds.
LEMMA NothingRebuilt ==
  ASSUME NEW ns, NEW K, NEW hole, IsMap(ns), Linked(ns, K, hole), AllFull(ns, K),
         NEW c, SlotOK(ns, K, c, hole)
  PROVE  Rebuilt(ns, K, ns, K, hole, c)
  BY DEF Rebuilt, SameBeside

\* cur is what the slot at path refers to, which is on the way to key.
Visiting(c, K, key, path) ==
  /\ K \in SUBSET Path /\ DOMAIN nodes \subseteq InnerRefs /\ key \in Path /\ key = c.req.key
  /\ path \in Path /\ Starts(path, key) /\ c.depth = Len(path)
  /\ SlotOK(nodes, K, c.cur, path)

\* cur is an inner node: what of the key has been consumed past its prefix.
LEMMA AtInner ==
  ASSUME NEW c, NEW K, NEW key, NEW hole, Visiting(c, K, key, hole), IsInner(c.cur)
  PROVE  /\ NodeSlot(nodes, K, c.cur, hole) /\ c.cur.at \in Path /\ c.cur \in DOMAIN nodes
         /\ Starts(hole, c.cur.at) /\ nodes[c.cur].prefix = From(c.cur.at, Len(hole))
         /\ Past(c) = Len(c.cur.at)
         /\ Matches(c) <=> Starts(c.cur.at, key)
         /\ SplitPoint(c) = Len(nodes[c.cur].prefix) => Starts(c.cur.at, key)
<1> key = c.req.key
  BY DEF Visiting
<1> DEFINE r == c.cur
           at == r.at
<1>1. /\ K \in SUBSET Path /\ DOMAIN nodes \subseteq InnerRefs /\ hole \in Path /\ key \in Path
      /\ SlotOK(nodes, K, r, hole) /\ Starts(hole, key) /\ c.depth = Len(hole)
  BY DEF Visiting
<1>2. NodeSlot(nodes, K, r, hole)
  BY <1>1, SlotKinds
<1>3. r \in DOMAIN nodes /\ at \in Path /\ Starts(hole, at)
      /\ nodes[r].prefix = From(at, Len(hole))
  BY <1>1, <1>2, RefKinds DEF NodeSlot
<1> HIDE DEF at
<1>4. /\ Consumes(From(at, Len(hole)), key, Len(hole)) <=> Starts(at, key)
      /\ Len(hole) + Len(From(at, Len(hole))) = Len(at)
  BY <1>1, <1>3, ConsumesIff
<1>5. Past(c) = Len(at) /\ (Matches(c) <=> Starts(at, key))
  BY <1>1, <1>3, <1>4 DEF Past, Matches
<1>6. ASSUME SplitPoint(c) = Len(nodes[r].prefix)
      PROVE  Starts(at, key)
  <2> DEFINE i == SharedLen(From(key, Len(hole)), From(at, Len(hole)))
             e == Upto(at, Len(hole) + i)
  <2>1. i = Len(From(at, Len(hole)))
    BY <1>1, <1>3, <1>6 DEF SplitPoint
  <2>5. /\ i = SharedLen(From(key, Len(hole)), From(at, Len(hole)))
        /\ e = Upto(at, Len(hole) + i)
    OBVIOUS
  <2> HIDE DEF e, i
  <2>2. /\ e \in Path /\ Len(e) = Len(hole) + i /\ Starts(e, at) /\ Starts(e, key)
    BY ONLY <1>1, <1>3, <2>5, MeetAt
  <2>3. Len(e) = Len(at)
    BY <1>4, <2>1, <2>2
  <2>4. e = at
    BY <1>3, <2>2, <2>3, StartsOrder
  <2> QED BY <2>2, <2>4
<1> QED BY <1>2, <1>3, <1>5, <1>6 DEF at

\* The same for the active frame of Put or Delete.
LEMMA AtNode ==
  ASSUME NEW c, NEW K, NEW key, key = c.req.key, NEW hole, Down(c, K, key, hole),
         IsInner(c.cur)
  PROVE  /\ NodeSlot(nodes, K, c.cur, hole) /\ c.cur.at \in Path /\ c.cur \in DOMAIN nodes
         /\ Starts(hole, c.cur.at) /\ nodes[c.cur].prefix = From(c.cur.at, Len(hole))
         /\ Past(c) = Len(c.cur.at)
         /\ Matches(c) <=> Starts(c.cur.at, key)
         /\ SplitPoint(c) = Len(nodes[c.cur].prefix) => Starts(c.cur.at, key)
<1>1. Visiting(c, K, key, hole)
  BY DEF Down, Visiting
<1> QED BY <1>1, AtInner

\* Put at an empty slot.
LEMMA PutNilStep ==
  ASSUME TreeInv, NEW p \in Procs, PutNil(p)
  PROVE  TreeInv' /\ SM!SMApply(p)
<1> DEFINE c == call[p]
           K == DOMAIN leaves
           key == c.req.key
           hole == HolePath(c.stack)
<1>1. c.phase = "enter" /\ c.req.op = "Put" /\ c.cur = nil /\ nodes' = nodes /\ root' = root
      /\ ReturnNode(p, Leaf(key)) /\ leaves' = With(leaves, key, c.req.val) /\ size' = size + 1
  BY DEF PutNil, Entered, InsertLeaf
<1>2. Down(c, K, key, hole)
  BY <1>1, WayDown
<1>3. c.req.val \in Values /\ LeavesOK(leaves, size)
  BY <1>1, RequestTypes DEF TreeInv, CallOK, HeapOK
<1> HIDE DEF c, K, key, hole
<1>4. /\ K \in SUBSET Path /\ DOMAIN nodes \subseteq InnerRefs /\ hole \in Path /\ key \in Path
      /\ SlotOK(nodes, K, c.cur, hole) /\ Starts(hole, key) /\ key \in Keys
      /\ Linked(nodes, K, hole) /\ AllFull(nodes, K) /\ IsMap(nodes) /\ IsSlot(nodes, hole)
  BY <1>2 DEF Down
<1>5. EmptySlot(nodes, K, hole)
  BY <1>1, <1>4, SlotKinds
<1>6. key \notin K /\ Rebuilt(nodes, K, nodes, K \cup {key}, hole, Leaf(key))
  BY <1>4, <1>5, LeafPut
<1>7. LeavesOK(leaves', size') /\ DOMAIN leaves' = K \cup {key}
  BY <1>1, <1>3, <1>4, <1>6, LeafCounted DEF K
<1>8. Leaf(key) # nil
  BY <1>4, RefKinds
<1>9. Rebuilt(nodes, K, nodes', DOMAIN leaves', hole, Leaf(key))
  BY <1>1, <1>6, <1>7
<1>10. TreeInv'
  BY <1>1, <1>7, <1>8, <1>9, FrameReturns DEF c, K, hole
<1>11. SM!SMApply(p)
  BY <1>1, PutTakesEffect DEF c, key
<1> QED BY <1>10, <1>11

\* Put at a leaf: overwritten, or forked off.
LEMMA PutLeafStep ==
  ASSUME TreeInv, NEW p \in Procs, PutLeaf(p)
  PROVE  TreeInv' /\ SM!SMApply(p)
<1> DEFINE c == call[p]
           K == DOMAIN leaves
           key == c.req.key
           hole == HolePath(c.stack)
           old == c.cur.at
<1>1. c.phase = "enter" /\ c.req.op = "Put" /\ IsLeaf(c.cur)
  BY DEF PutLeaf, Entered
<1>2. Down(c, K, key, hole)
  BY <1>1, WayDown
<1>3. c.req.val \in Values /\ LeavesOK(leaves, size)
  BY <1>1, RequestTypes DEF TreeInv, CallOK, HeapOK
<1>4. \/ /\ old = key /\ ReturnNode(p, c.cur) /\ nodes' = nodes /\ root' = root
         /\ leaves' = With(leaves, old, c.req.val) /\ size' = size
      \/ /\ old # key /\ root' = root
         /\ ReturnNode(p, ForkRef(old, key, c.depth))
         /\ nodes' = With(nodes, ForkRef(old, key, c.depth), ForkNode(old, key, c.depth))
         /\ leaves' = With(leaves, key, c.req.val) /\ size' = size + 1
      \/ old # key /\ ForkPanics(old, key, c.depth)
  BY DEF PutLeaf, Overwrite, InsertLeaf
<1> HIDE DEF c, K, key, hole, old
<1>5. /\ K \in SUBSET Path /\ DOMAIN nodes \subseteq InnerRefs /\ hole \in Path /\ key \in Path
      /\ SlotOK(nodes, K, c.cur, hole) /\ Starts(hole, key) /\ key \in Keys
      /\ Linked(nodes, K, hole) /\ AllFull(nodes, K) /\ IsMap(nodes) /\ IsSlot(nodes, hole)
      /\ c.depth = Len(hole)
  BY <1>2 DEF Down
<1>6. c.cur = Leaf(old) /\ LeafSlot(nodes, K, old, hole)
  BY <1>1, <1>5, SlotKinds DEF old
<1>7. CASE old = key
  <2>1. key \in K
    BY <1>6, <1>7 DEF LeafSlot
  <2>2. LeavesOK(leaves', size') /\ DOMAIN leaves' = K
    BY <1>3, <1>4, <1>7, <2>1, LeafOverwritten DEF K
  <2>3. Rebuilt(nodes, K, nodes', DOMAIN leaves', hole, c.cur)
    BY <1>4, <1>5, <1>7, <2>2, NothingRebuilt
  <2>4. c.cur # nil
    BY <1>1 DEF IsLeaf
  <2>5. TreeInv'
    BY <1>1, <1>4, <1>7, <2>2, <2>3, <2>4, FrameReturns DEF c, K, hole
  <2>6. SM!SMApply(p)
    BY <1>1, <1>4, <1>7, PutTakesEffect DEF c, key
  <2> QED BY <2>5, <2>6
<1>8. CASE old # key
  <2> DEFINE f == ForkRef(old, key, Len(hole))
             ms == With(nodes, f, ForkNode(old, key, Len(hole)))
  <2>1. f = ForkRef(old, key, Len(hole)) /\ ms = With(nodes, f, ForkNode(old, key, Len(hole)))
    OBVIOUS
  <2> HIDE DEF f, ms
  <2>2. /\ ~ ForkPanics(old, key, Len(hole)) /\ key \notin K
        /\ Rebuilt(nodes, K, ms, K \cup {key}, hole, f) /\ f \in InnerRefs
    BY ONLY <1>5, <1>6, <1>8, <2>1, Forked
  <2>3. /\ ReturnNode(p, f) /\ nodes' = ms /\ root' = root
        /\ leaves' = With(leaves, key, c.req.val) /\ size' = size + 1
    BY <1>4, <1>5, <1>8, <2>1, <2>2
  <2>4. LeavesOK(leaves', size') /\ DOMAIN leaves' = K \cup {key}
    BY <1>3, <1>5, <2>2, <2>3, LeafCounted DEF K
  <2>5. Rebuilt(nodes, K, nodes', DOMAIN leaves', hole, f) /\ f # nil
    BY <2>2, <2>3, <2>4, RefKinds
  <2>6. TreeInv'
    BY <1>1, <2>3, <2>4, <2>5, FrameReturns DEF c, K, hole
  <2>7. SM!SMApply(p)
    BY <1>1, <2>3, PutTakesEffect DEF c, key
  <2> QED BY <2>6, <2>7
<1> QED BY <1>7, <1>8

\* Put at a node whose prefix the key leaves part-way.
LEMMA PutSplitStep ==
  ASSUME TreeInv, NEW p \in Procs, PutSplit(p)
  PROVE  TreeInv' /\ SM!SMApply(p)
<1> DEFINE c == call[p]
           K == DOMAIN leaves
           key == c.req.key
           hole == HolePath(c.stack)
           r == c.cur
           split == SplitPoint(c)
           s == [kind |-> "node4", at |-> Upto(key, c.depth + split)]
           ms == With(CutPrefix(nodes, r, split + 1), s, SplitNode(r, key, c.depth, split))
<1>1. c.phase = "enter" /\ c.req.op = "Put" /\ IsInner(r)
  BY DEF PutSplit, Entered
<1>2. Down(c, K, key, hole) /\ key = c.req.key
  BY <1>1, WayDown
<1>3. c.req.val \in Values /\ LeavesOK(leaves, size)
  BY <1>1, RequestTypes DEF TreeInv, CallOK, HeapOK
<1>4. /\ split < Len(nodes[r].prefix) /\ nodes' = ms /\ ReturnNode(p, s) /\ root' = root
      /\ leaves' = With(leaves, key, c.req.val) /\ size' = size + 1
  BY DEF PutSplit, InsertLeaf, CutPrefix
<1>5. /\ s = [kind |-> "node4", at |-> Upto(key, c.depth + split)]
      /\ ms = With(CutPrefix(nodes, r, split + 1), s, SplitNode(r, key, c.depth, split))
  OBVIOUS
<1>6. split = SharedLen(From(key, c.depth), nodes[r].prefix)
  BY DEF SplitPoint
<1> HIDE DEF c, K, key, hole, r, split, s, ms
<1>7. /\ K \in SUBSET Path /\ hole \in Path /\ key \in Path /\ key \in Keys
      /\ Starts(hole, key) /\ Linked(nodes, K, <<>>) /\ AllFull(nodes, K) /\ IsMap(nodes)
      /\ IsSlot(nodes, hole) /\ c.depth = Len(hole)
  BY <1>2 DEF Down
<1>8. NodeSlot(nodes, K, r, hole)
  BY <1>1, <1>2, AtNode DEF r
<1>9. /\ s = [kind |-> "node4", at |-> Upto(key, Len(hole) + split)]
      /\ ms = With(CutPrefix(nodes, r, split + 1), s, SplitNode(r, key, Len(hole), split))
      /\ split = SharedLen(From(key, Len(hole)), nodes[r].prefix)
  BY <1>5, <1>6, <1>7
<1>10. key \notin K /\ Rebuilt(nodes, K, ms, K \cup {key}, hole, s)
  BY ONLY <1>4, <1>7, <1>8, <1>9, KeySplit
<1>11. LeavesOK(leaves', size') /\ DOMAIN leaves' = K \cup {key}
  BY <1>3, <1>4, <1>7, <1>10, LeafCounted DEF K
<1>12. s # nil
  <2>1. s \in DOMAIN ms
    BY <1>5 DEF With
  <2>2. s \in InnerRefs
    BY <1>10, <2>1, LinkedTypes DEF Rebuilt
  <2> QED BY <2>2, RefKinds
<1>13. Rebuilt(nodes, K, nodes', DOMAIN leaves', hole, s)
  BY <1>4, <1>10, <1>11
<1>14. TreeInv'
  BY <1>1, <1>4, <1>11, <1>12, <1>13, FrameReturns DEF c, K, hole
<1>15. SM!SMApply(p)
  BY <1>1, <1>4, PutTakesEffect DEF c, key
<1> QED BY <1>14, <1>15

\* The key goes on past the prefix of the active frame's node.
LEMMA Onward ==
  ASSUME NEW c, NEW key \in Path, key = c.req.key, NEW at \in Path, at = c.cur.at,
         Starts(at, key), Past(c) = Len(at), Past(c) # Len(key)
  PROVE  /\ Branch(c) \in Byte /\ Append(at, Branch(c)) \in Path
         /\ Len(Append(at, Branch(c))) = Past(c) + 1
         /\ Starts(Append(at, Branch(c)), key)
<1>1. Branch(c) = key[Len(at) + 1]
  BY DEF Branch
<1>2. at # key
  OBVIOUS
<1>3. Branch(c) \in Byte /\ Starts(Append(at, Branch(c)), key)
  BY <1>1, <1>2, NextByte
<1> QED BY <1>3, AppendStarts

\* Put at the node where the key ends.
LEMMA PutTerminalStep ==
  ASSUME TreeInv, NEW p \in Procs, PutTerminal(p)
  PROVE  TreeInv' /\ SM!SMApply(p)
<1> DEFINE c == call[p]
           K == DOMAIN leaves
           key == c.req.key
           hole == HolePath(c.stack)
           r == c.cur
           t == nodes[r].terminal
           J == K \cup {r.at}
           ms == WithTerminal(nodes, r, J)
<1>1. /\ c.phase = "enter" /\ c.req.op = "Put" /\ IsInner(r) /\ Past(c) = Len(key)
      /\ SplitPoint(c) = Len(nodes[r].prefix) /\ root' = root /\ ReturnNode(p, r)
  BY DEF PutTerminal, InPutInner, Entered
<1>2. Down(c, K, key, hole) /\ key = c.req.key
  BY <1>1, WayDown
<1>3. c.req.val \in Values /\ LeavesOK(leaves, size)
  BY <1>1, RequestTypes DEF TreeInv, CallOK, HeapOK
<1>4. \/ /\ t # nil /\ nodes' = nodes
         /\ leaves' = With(leaves, t.at, c.req.val) /\ size' = size
      \/ /\ t = nil /\ nodes' = [nodes EXCEPT ![r].terminal = Leaf(key)]
         /\ leaves' = With(leaves, key, c.req.val) /\ size' = size + 1
  BY DEF PutTerminal, Overwrite, InsertLeaf
<1>5. ms = WithTerminal(nodes, r, J) /\ J = K \cup {r.at}
  OBVIOUS
<1>6. r = c.cur
  OBVIOUS
<1> HIDE DEF c, K, key, hole, r, t, J, ms
<1>7. /\ K \in SUBSET Path /\ hole \in Path /\ key \in Path /\ key \in Keys
      /\ Linked(nodes, K, hole) /\ AllFull(nodes, K) /\ IsMap(nodes)
      /\ IsSlot(nodes, hole) /\ SlotOK(nodes, K, r, hole)
  BY <1>2, <1>6 DEF Down
<1>8. /\ NodeSlot(nodes, K, r, hole) /\ r \in DOMAIN nodes /\ r.at \in Path
      /\ Past(c) = Len(r.at) /\ Starts(r.at, key)
  BY <1>1, <1>2, <1>6, AtNode
<1>9. r.at = key
  BY <1>1, <1>7, <1>8, StartsOrder
<1>10. t = IF key \in K THEN Leaf(key) ELSE nil
  <2>1. NodeOK(nodes, K, r)
    BY <1>7, <1>8 DEF Linked
  <2>2. nodes[r].terminal = IF r.at \in K THEN Leaf(r.at) ELSE nil
    BY <2>1 DEF NodeOK
  <2> QED BY <1>9, <2>2 DEF t
<1>11. Leaf(key) # nil /\ Leaf(key).at = key /\ r # nil
  BY <1>1, <1>7, RefKinds DEF IsInner
<1>12. /\ LeavesOK(leaves', size') /\ leaves' = With(leaves, key, c.req.val)
       /\ Rebuilt(nodes, K, nodes', DOMAIN leaves', hole, r)
  <2>1. CASE key \in K
    <3>1. t = Leaf(key)
      BY <1>10, <2>1
    <3>2. nodes' = nodes /\ leaves' = With(leaves, key, c.req.val) /\ size' = size
      BY <1>4, <1>11, <3>1
    <3>3. LeavesOK(leaves', size') /\ DOMAIN leaves' = K
      BY <1>3, <2>1, <3>2, LeafOverwritten DEF K
    <3>4. Rebuilt(nodes, K, nodes, K, hole, r)
      BY <1>7, NothingRebuilt
    <3> QED BY <3>2, <3>3, <3>4
  <2>2. CASE key \notin K
    <3>1. t = nil
      BY <1>10, <2>2
    <3>2. /\ nodes' = [nodes EXCEPT ![r].terminal = Leaf(key)] /\ size' = size + 1
          /\ leaves' = With(leaves, key, c.req.val)
      BY <1>4, <3>1
    <3>3. nodes' = ms
      BY <1>5, <1>9, <3>2 DEF WithTerminal
    <3>4. r.at \notin K
      BY <1>9, <2>2
    <3>5. Rebuilt(nodes, K, ms, J, hole, r)
      BY ONLY <1>5, <1>7, <1>8, <3>4, TerminalPut
    <3>6. LeavesOK(leaves', size') /\ DOMAIN leaves' = J
      BY <1>3, <1>5, <1>7, <1>9, <2>2, <3>2, LeafCounted DEF K
    <3> QED BY <3>2, <3>3, <3>5, <3>6
  <2> QED BY <2>1, <2>2
<1>13. TreeInv'
  BY <1>1, <1>11, <1>12, FrameReturns DEF c, K, hole
<1>14. SM!SMApply(p)
  BY <1>1, <1>12, PutTakesEffect DEF c, key
<1> QED BY <1>13, <1>14

\* Put at a node without an edge for the key.
LEMMA PutAbsentStep ==
  ASSUME TreeInv, NEW p \in Procs, PutAbsent(p)
  PROVE  TreeInv' /\ SM!SMApply(p)
<1> DEFINE c == call[p]
           K == DOMAIN leaves
           key == c.req.key
           hole == HolePath(c.stack)
           r == c.cur
           b == Branch(c)
           here == Append(r.at, b)
           g == Grown(nodes, r, b, Leaf(key))
<1>1. /\ c.phase = "enter" /\ c.req.op = "Put" /\ IsInner(r) /\ Past(c) # Len(key)
      /\ SplitPoint(c) = Len(nodes[r].prefix) /\ root' = root /\ ChildIn(nodes, r, b) = nil
      /\ leaves' = With(leaves, key, c.req.val) /\ size' = size + 1
      /\ nodes' = g.nodes /\ ReturnNode(p, g.ref)
  BY DEF PutAbsent, InPutInner, Entered, InsertLeaf, Child, ChildIn
<1>2. Down(c, K, key, hole) /\ key = c.req.key
  BY <1>1, WayDown
<1>3. c.req.val \in Values /\ LeavesOK(leaves, size)
  BY <1>1, RequestTypes DEF TreeInv, CallOK, HeapOK
<1>4. r = c.cur /\ here = Append(r.at, b) /\ g = Grown(nodes, r, b, Leaf(key)) /\ b = Branch(c)
  OBVIOUS
<1> HIDE DEF c, K, key, hole, r, b, here, g
<1>5. /\ K \in SUBSET Path /\ hole \in Path /\ key \in Path /\ key \in Keys
      /\ Linked(nodes, K, <<>>) /\ AllFull(nodes, K) /\ IsMap(nodes) /\ IsSlot(nodes, hole)
  BY <1>2 DEF Down
<1>6. /\ NodeSlot(nodes, K, r, hole) /\ r.at \in Path
      /\ Past(c) = Len(r.at) /\ Starts(r.at, key)
  BY <1>1, <1>2, <1>4, AtNode
<1>7. b \in Byte /\ Starts(here, key)
  BY <1>1, <1>2, <1>4, <1>5, <1>6, Onward
<1>8. key \notin K /\ Rebuilt(nodes, K, g.nodes, K \cup {key}, hole, g.ref)
  BY ONLY <1>1, <1>4, <1>5, <1>6, <1>7, ChildAdded
<1>9. LeavesOK(leaves', size') /\ DOMAIN leaves' = K \cup {key}
  BY <1>1, <1>3, <1>5, <1>8, LeafCounted DEF K
<1>10. g.ref # nil
  <2>1. g.ref \in DOMAIN g.nodes
    BY <1>4 DEF Grown, With
  <2>2. g.ref \in InnerRefs
    BY <1>8, <2>1, LinkedTypes DEF Rebuilt
  <2> QED BY <2>2, RefKinds
<1>11. Rebuilt(nodes, K, nodes', DOMAIN leaves', hole, g.ref)
  BY <1>1, <1>8, <1>9
<1>12. TreeInv'
  BY <1>1, <1>9, <1>10, <1>11, FrameReturns DEF c, K, hole
<1>13. SM!SMApply(p)
  BY <1>1, PutTakesEffect DEF c, key
<1> QED BY <1>12, <1>13

\* What the slot of an edge of the active frame's node refers to.
LEMMA EdgeHolds ==
  ASSUME NEW ns, NEW K \in SUBSET Path, Linked(ns, K, <<>>), NEW r \in DOMAIN ns,
         NEW b \in Byte
  PROVE  /\ Append(r.at, b) \in Path /\ r.at \in Path
         /\ SlotOK(ns, K, ChildIn(ns, r, b), Append(r.at, b))
<1>1. r.at \in Path
  BY LinkedTypes, RefKinds
<1>2. Append(r.at, b) \in Path /\ Append(r.at, b) # <<>>
  BY <1>1, AppendStarts
<1>3. SlotOK(ns, K, ChildIn(ns, r, b), Append(r.at, b))
  BY <1>2 DEF Linked
<1> QED BY <1>1, <1>2, <1>3

\* Put at a node whose edge leads to a leaf.
LEMMA PutBesideLeafStep ==
  ASSUME TreeInv, NEW p \in Procs, PutBesideLeaf(p)
  PROVE  TreeInv' /\ SM!SMApply(p)
<1> DEFINE c == call[p]
           K == DOMAIN leaves
           key == c.req.key
           hole == HolePath(c.stack)
           r == c.cur
           b == Branch(c)
           here == Append(r.at, b)
           l == ChildIn(nodes, r, b)
           old == l.at
           f == ForkRef(old, key, Past(c) + 1)
           x == ForkNode(old, key, Past(c) + 1)
           ms == With(StoreChild(nodes, r, b, f), f, x)
<1>1. /\ c.phase = "enter" /\ c.req.op = "Put" /\ IsInner(r) /\ Past(c) # Len(key)
      /\ SplitPoint(c) = Len(nodes[r].prefix) /\ IsLeaf(l)
  BY DEF PutBesideLeaf, InPutInner, Entered, Child, ChildIn
<1>2. \/ /\ old = key /\ ReturnNode(p, r) /\ nodes' = nodes /\ root' = root
         /\ leaves' = With(leaves, old, c.req.val) /\ size' = size
      \/ /\ old # key /\ ReturnNode(p, r) /\ nodes' = ms /\ root' = root
         /\ leaves' = With(leaves, key, c.req.val) /\ size' = size + 1
      \/ old # key /\ ForkPanics(old, key, Past(c) + 1)
  BY DEF PutBesideLeaf, Overwrite, InsertLeaf, Child, ChildIn, StoreChild
<1>3. Down(c, K, key, hole) /\ key = c.req.key
  BY <1>1, WayDown
<1>4. c.req.val \in Values /\ LeavesOK(leaves, size)
  BY <1>1, RequestTypes DEF TreeInv, CallOK, HeapOK
<1>5. /\ r = c.cur /\ here = Append(r.at, b) /\ b = Branch(c) /\ l = ChildIn(nodes, r, b)
      /\ old = l.at /\ f = ForkRef(old, key, Past(c) + 1)
      /\ x = ForkNode(old, key, Past(c) + 1) /\ ms = With(StoreChild(nodes, r, b, f), f, x)
  OBVIOUS
<1> HIDE DEF c, K, key, hole, r, b, here, l, old, f, x, ms
<1>6. /\ K \in SUBSET Path /\ hole \in Path /\ key \in Path /\ key \in Keys
      /\ Linked(nodes, K, <<>>) /\ Linked(nodes, K, hole) /\ AllFull(nodes, K)
      /\ IsMap(nodes) /\ IsSlot(nodes, hole) /\ DOMAIN nodes \subseteq InnerRefs
      /\ SlotOK(nodes, K, r, hole)
  BY <1>3, <1>5 DEF Down
<1>7. /\ NodeSlot(nodes, K, r, hole) /\ r.at \in Path /\ r \in DOMAIN nodes
      /\ Past(c) = Len(r.at) /\ Starts(r.at, key)
  BY <1>1, <1>3, <1>5, AtNode
<1>8. b \in Byte /\ Starts(here, key) /\ Len(here) = Past(c) + 1
  BY <1>1, <1>3, <1>5, <1>6, <1>7, Onward
<1>9. l = Leaf(old) /\ LeafSlot(nodes, K, old, here)
  <2>1. SlotOK(nodes, K, l, here) /\ here \in Path
    BY <1>5, <1>6, <1>7, <1>8, EdgeHolds
  <2> QED BY <1>1, <1>5, <1>6, <2>1, SlotKinds
<1>10. r # nil
  BY <1>1 DEF IsInner
<1>11. CASE old = key
  <2>1. key \in K
    BY <1>9, <1>11 DEF LeafSlot
  <2>2. LeavesOK(leaves', size') /\ DOMAIN leaves' = K
    BY <1>2, <1>4, <1>11, <2>1, LeafOverwritten DEF K
  <2>3. Rebuilt(nodes, K, nodes', DOMAIN leaves', hole, r)
    BY <1>2, <1>6, <1>11, <2>2, NothingRebuilt
  <2>4. TreeInv'
    BY <1>1, <1>2, <1>10, <1>11, <2>2, <2>3, FrameReturns DEF c, K, hole
  <2>5. SM!SMApply(p)
    BY <1>1, <1>2, <1>11, PutTakesEffect DEF c, key
  <2> QED BY <2>4, <2>5
<1>12. CASE old # key
  <2>1. old \in Path /\ b \in Byte /\ Starts(here, key)
    BY <1>6, <1>8, <1>9 DEF LeafSlot
  <2>2. ForkedChild(nodes, r, b, old, key, here, f, ms)
    BY <1>5, <1>8, <1>9 DEF ForkedChild
  <2>3. /\ ~ ForkPanics(old, key, Len(here)) /\ key \notin K
        /\ Rebuilt(nodes, K, ms, K \cup {key}, hole, r)
    BY ONLY <1>6, <1>7, <1>12, <2>1, <2>2, ChildForked
  <2>4. /\ ReturnNode(p, r) /\ nodes' = ms /\ root' = root
        /\ leaves' = With(leaves, key, c.req.val) /\ size' = size + 1
    BY <1>2, <1>8, <1>12, <2>3
  <2>5. LeavesOK(leaves', size') /\ DOMAIN leaves' = K \cup {key}
    BY <1>4, <1>6, <2>3, <2>4, LeafCounted DEF K
  <2>6. Rebuilt(nodes, K, nodes', DOMAIN leaves', hole, r)
    BY <2>3, <2>4, <2>5
  <2>7. TreeInv'
    BY <1>1, <1>10, <2>4, <2>5, <2>6, FrameReturns DEF c, K, hole
  <2>8. SM!SMApply(p)
    BY <1>1, <2>4, PutTakesEffect DEF c, key
  <2> QED BY <2>7, <2>8
<1> QED BY <1>11, <1>12

\* The call of a frame that recurses.
Pushing(c, st, child, depth) == [c EXCEPT !.stack = st, !.cur = child, !.depth = depth]

\* The fields of a call that recurses.
LEMMA PushingFields ==
  ASSUME NEW c, CallShape(c), NEW st, NEW child, NEW depth
  PROVE  LET d == Pushing(c, st, child, depth) IN
         /\ CallShape(d) /\ d.phase = c.phase /\ d.req = c.req /\ d.stack = st
         /\ d.cur = child /\ d.depth = depth /\ d.result = c.result
         /\ d.before = c.before
<1> DEFINE d == Pushing(c, st, child, depth)
<1>1. d = [c EXCEPT !.stack = st, !.cur = child, !.depth = depth]
  BY DEF Pushing
<1> HIDE DEF d
<1>2. /\ CallShape(d) /\ d.phase = c.phase /\ d.req = c.req /\ d.stack = st
      /\ d.cur = child /\ d.depth = depth /\ d.result = c.result
      /\ d.before = c.before
  BY <1>1 DEF CallShape
<1> QED BY <1>2 DEF d

\* Put and Delete go on behind an edge of the active frame's node.
LEMMA FrameRecurses ==
  ASSUME TreeInv, NEW p \in Procs, call[p].phase = "enter",
         call[p].req.op \in {"Put", "Delete"}, IsInner(call[p].cur),
         Starts(call[p].cur.at, call[p].req.key), Past(call[p]) # Len(call[p].req.key),
         NEW b, b = Branch(call[p]), ChildIn(nodes, call[p].cur, b) # nil,
         Recurse(p, b, ChildIn(nodes, call[p].cur, b), Past(call[p]) + 1), UNCHANGED tree
  PROVE  TreeInv' /\ UNCHANGED SM!smVars
<1> DEFINE c == call[p]
           K == DOMAIN leaves
           key == c.req.key
           hole == HolePath(c.stack)
           r == c.cur
           child == ChildIn(nodes, r, b)
           here == Append(r.at, b)
           st == <<[node |-> r, branch |-> b]>> \o c.stack
           d == Pushing(c, st, child, Past(c) + 1)
<1>1. Down(c, K, key, hole) /\ key = c.req.key
  BY WayDown
<1>2. /\ CallShape(c) /\ c.req \in SM!Calls /\ c.result = none
      /\ c.phase = "enter" /\ c.req.op \in {"Put", "Delete"} /\ Descending(c, root, size, nodes)
  BY DEF TreeInv, CallOK
<1>3. Becomes(p, d)
  BY CallBecomes DEF Recurse, Pushing
<1>4. size' = size /\ leaves' = leaves
  BY DEF tree
<1>5. /\ IsInner(r) /\ Starts(r.at, key) /\ Past(c) # Len(key) /\ child # nil
      /\ r = c.cur /\ child = ChildIn(nodes, r, b) /\ here = Append(r.at, b) /\ b = Branch(c)
      /\ hole = HolePath(c.stack)
  OBVIOUS
<1>7. st = <<[node |-> r, branch |-> b]>> \o c.stack
  OBVIOUS
<1> HIDE DEF c, K, key, hole, r, child, here, st
<1>6. /\ CallShape(d) /\ d.phase = c.phase /\ d.req = c.req /\ d.stack = st
      /\ d.cur = child /\ d.depth = Past(c) + 1 /\ d.result = c.result
      /\ d.before = c.before
  BY <1>2, PushingFields
<1> HIDE DEF d
<1>8. /\ K \in SUBSET Path /\ hole \in Path /\ key \in Path
      /\ Linked(nodes, K, <<>>) /\ DOMAIN nodes \subseteq InnerRefs
      /\ Chained(nodes, root, c.stack, key) /\ r = HoleContent(nodes, root, c.stack)
  BY <1>1, <1>5 DEF Down
<1>9. /\ NodeSlot(nodes, K, r, HolePath(c.stack)) /\ r.at \in Path /\ r \in DOMAIN nodes
      /\ Past(c) = Len(r.at)
  BY <1>1, <1>5, AtNode
<1>10. b \in Byte /\ Starts(Append(r.at, b), key) /\ Len(here) = Past(c) + 1
       /\ Len(here) \in Nat
  <2>1. r.at = c.cur.at /\ Past(c) # Len(key) /\ Starts(r.at, key) /\ key = c.req.key
    BY <1>1, <1>5
  <2>2. /\ Branch(c) \in Byte /\ Append(r.at, Branch(c)) \in Path
        /\ Len(Append(r.at, Branch(c))) = Past(c) + 1
        /\ Starts(Append(r.at, Branch(c)), key)
    BY ONLY <1>8, <1>9, <2>1, Onward
  <2>3. b = Branch(c) /\ here = Append(r.at, Branch(c))
    BY <1>5
  <2> QED BY <2>2, <2>3, Lengths
<1>11. b \in DOMAIN nodes[r].children
  BY <1>5 DEF ChildIn
<1>12. /\ Chained(nodes, root, st, key) /\ HolePath(st) = Append(r.at, b)
       /\ HoleContent(nodes, root, st) = ChildIn(nodes, r, b)
  <2>1. Pushes(nodes, root, c.stack, r, b, st)
    BY <1>7, <1>8 DEF Pushes
  <2>2. key \in Path /\ Chained(nodes, root, c.stack, key) /\ DOMAIN nodes \subseteq InnerRefs
    BY <1>8
  <2>3. NodeSlot(nodes, K, r, HolePath(c.stack)) /\ b \in Byte /\ Starts(Append(r.at, b), key)
    BY <1>9, <1>10
  <2>4. AtEdge(nodes, root, st, key, r, b)
    BY ONLY <1>11, <2>1, <2>2, <2>3, Pushed
  <2> QED BY <2>4 DEF AtEdge
<1>13. Descending(d, root, size, nodes)
  BY <1>2, <1>5, <1>6, <1>10, <1>12 DEF Descending, key
<1>14. CallOK(d, root, size, leaves, nodes)
  BY <1>2, <1>6, <1>10, <1>13 DEF CallOK
<1>15. d.phase # "return" /\ c.phase # "idle" /\ c.phase # "return"
  BY <1>2, <1>6
<1>16. Beside(p, d)
  BY <1>6, <1>15, StaysBeside DEF c
<1>17. TreeInv'
  BY <1>3, <1>14, <1>15, <1>16, ReaderStep DEF c
<1>18. ClientOf(d, size) = ClientOf(c, size)
  BY <1>2, <1>6, ClientPhases
<1>19. UNCHANGED SM!smVars
  BY <1>3, <1>4, <1>15, <1>18, Unseen DEF c
<1> QED BY <1>17, <1>19

\* Put at a node whose edge leads to a node.
LEMMA PutRecurseStep ==
  ASSUME TreeInv, NEW p \in Procs, PutRecurse(p)
  PROVE  TreeInv' /\ UNCHANGED SM!smVars
<1> DEFINE c == call[p]
           b == Branch(c)
<1>1. /\ c.phase = "enter" /\ c.req.op = "Put" /\ IsInner(c.cur) /\ Past(c) # Len(c.req.key)
      /\ SplitPoint(c) = Len(nodes[c.cur].prefix) /\ UNCHANGED tree
      /\ IsInner(ChildIn(nodes, c.cur, b))
      /\ Recurse(p, b, ChildIn(nodes, c.cur, b), Past(c) + 1)
  BY DEF PutRecurse, InPutInner, Entered, Child, ChildIn
<1>2. ChildIn(nodes, c.cur, b) # nil
  BY <1>1 DEF IsInner
<1>3. Starts(c.cur.at, c.req.key)
  BY <1>1, WayDown, AtNode
<1> QED BY <1>1, <1>2, <1>3, FrameRecurses

\* A suspended frame of Put stores the child it is given.
LEMMA PutResumeStep ==
  ASSUME TreeInv, NEW p \in Procs, PutResume(p)
  PROVE  TreeInv' /\ UNCHANGED SM!smVars
<1> DEFINE c == call[p]
           K == DOMAIN leaves
           key == c.req.key
           hole == HolePath(c.stack)
           path == HolePath(Tail(c.stack))
           f == Head(c.stack)
           r == f.node
           b == f.branch
<1>1. /\ c.phase = "return" /\ c.req.op = "Put" /\ c.stack # <<>>
      /\ nodes' = StoreChild(nodes, r, b, c.ret) /\ Unwind(p, r)
      /\ root' = root /\ size' = size /\ leaves' = leaves
  BY DEF PutResume, Ended, StoreChild
<1>2. /\ K \in SUBSET Path /\ key \in Path /\ DOMAIN nodes \subseteq InnerRefs
      /\ Ascending(c, root, nodes, K)
  BY <1>1, WayBack
<1>3. /\ Chained(nodes, root, c.stack, key) /\ Linked(nodes, K, hole) /\ AllFull(nodes, K)
      /\ SlotOK(nodes, K, c.ret, hole) /\ SlotOK(nodes, K, root, <<>>) /\ c.ret # nil
  BY <1>1, <1>2 DEF Ascending
<1>4. Above(nodes, K, root, c.stack, key, path)
  BY <1>1, <1>2, <1>3, HoleAbove
<1>5. /\ path \in Path /\ IsSlot(nodes, path) /\ NodeSlot(nodes, K, r, path)
      /\ b \in DOMAIN nodes[r].children /\ hole = Append(r.at, b)
  BY <1>4 DEF Above
<1> HIDE DEF c, K, key, hole, path, f, r, b
<1>6. Rebuilt(nodes, K, nodes', K, path, r)
  BY <1>1, <1>2, <1>3, <1>5, SlotStored
<1>7. r # nil
  BY <1>2, <1>5, RefKinds DEF NodeSlot
<1>8. TreeInv'
  BY <1>1, <1>6, <1>7, FrameResumes DEF c, K, path
<1>9. UNCHANGED SM!smVars
  BY <1>1, ResumeUnseen DEF c
<1> QED BY <1>8, <1>9

\* The caller has its answer already.
LEMMA FinishUnseen ==
  ASSUME TreeInv, NEW p \in Procs, call[p].phase = "return",
         Done(p, IF call[p].req.op = "Put" THEN "ok" ELSE call[p].before # size),
         size' = size, leaves' = leaves
  PROVE  UNCHANGED SM!smVars
<1> DEFINE c == call[p]
           answer == IF c.req.op = "Put" THEN "ok" ELSE c.before # size
           d == Ending(c.req, answer)
<1>1. Becomes(p, d)
  BY CallBecomes DEF Done, Ending
<1>2. d.phase = "done" /\ d.req = c.req /\ d.result = answer
  BY EndingFields
<1>3. c.req.op \in {"Put", "Delete"}
  BY WayBack
<1> HIDE DEF d, answer
<1>4. ClientOf(d, size) = Seen("applied", c.req, answer)
  BY <1>2, <1>3, ClientPhases
<1>5. ClientOf(c, size) = Seen("applied", c.req, answer)
  BY ClientPhases DEF answer
<1> QED BY <1>1, <1>4, <1>5, Unseen

\* Put stores the root.
LEMMA PutFinishStep ==
  ASSUME TreeInv, NEW p \in Procs, PutFinish(p)
  PROVE  TreeInv' /\ UNCHANGED SM!smVars
<1>1. /\ call[p].phase = "return" /\ call[p].req.op = "Put" /\ call[p].stack = <<>>
      /\ root' = call[p].ret /\ Done(p, "ok")
      /\ size' = size /\ leaves' = leaves /\ nodes' = nodes
  BY DEF PutFinish, Ended
<1>2. TreeInv'
  BY <1>1, CallFinishes
<1>3. UNCHANGED SM!smVars
  BY <1>1, FinishUnseen
<1> QED BY <1>2, <1>3

-----------------------------------------------------------------------------
(***************************************************************************)
(* Delete.                                                                 *)
(***************************************************************************)
\* What a slot on the way to a key says of the key.
LEMMA WhatIsHere ==
  ASSUME NEW ns, NEW K \in SUBSET Path, Linked(ns, K, <<>>), NEW path \in Path,
         NEW key \in Path, Starts(path, key), NEW r, SlotOK(ns, K, r, path)
  PROVE  /\ r = nil => key \notin K
         /\ IsLeaf(r) => (r.at = key <=> key \in K)
         /\ IsInner(r) /\ ~ Starts(r.at, key) => key \notin K
         /\ IsInner(r) /\ Starts(r.at, key) /\ Len(r.at) = Len(key) =>
              r.at = key /\ ns[r].terminal = IF key \in K THEN Leaf(key) ELSE nil
         /\ \A b \in Byte :
              IsInner(r) /\ ChildIn(ns, r, b) = nil /\ Starts(Append(r.at, b), key) =>
                key \notin K
<1>1. DOMAIN ns \subseteq InnerRefs
  BY LinkedTypes
<1>2. r = nil => key \notin K
  BY <1>1, SlotKinds DEF EmptySlot
<1>3. IsLeaf(r) => (r.at = key <=> key \in K)
  BY <1>1, SlotKinds DEF LeafSlot
<1>4. IsInner(r) => /\ r \in DOMAIN ns /\ r.at \in Path /\ NodeOK(ns, K, r)
                    /\ \A k \in K : Starts(path, k) => Starts(r.at, k)
  <2>1. IsInner(r) => NodeSlot(ns, K, r, path)
    BY <1>1, SlotKinds
  <2> QED BY <1>1, <2>1, RefKinds DEF NodeSlot, Linked
<1>5. IsInner(r) /\ Starts(r.at, key) /\ Len(r.at) = Len(key) => r.at = key
  BY <1>4, StartsOrder
<1>6. IsInner(r) => ns[r].terminal = IF r.at \in K THEN Leaf(r.at) ELSE nil
  BY <1>4 DEF NodeOK
<1>7. ASSUME NEW b \in Byte, IsInner(r), ChildIn(ns, r, b) = nil, Starts(Append(r.at, b), key)
      PROVE  key \notin K
  <2>1. SlotOK(ns, K, nil, Append(r.at, b)) /\ Append(r.at, b) \in Path
    BY <1>4, <1>7, EdgeHolds
  <2>2. EmptySlot(ns, K, Append(r.at, b))
    BY <1>1, <2>1, SlotKinds
  <2> QED BY <1>7, <2>2 DEF EmptySlot
<1> QED BY <1>2, <1>3, <1>4, <1>5, <1>6, <1>7

\* Delete at the leaf of its key.
LEMMA DeleteLeafStep ==
  ASSUME TreeInv, NEW p \in Procs, DeleteLeaf(p)
  PROVE  TreeInv' /\ SM!SMApply(p)
<1> DEFINE c == call[p]
           K == DOMAIN leaves
           key == c.req.key
           hole == HolePath(c.stack)
           r == c.cur
<1>1. /\ c.phase = "enter" /\ c.req.op = "Delete" /\ IsLeaf(r) /\ r.at = key
      /\ leaves' = Without(leaves, key) /\ size' = size - 1
      /\ ReturnNode(p, nil) /\ root' = root /\ nodes' = nodes /\ c.req.op # "Put"
  BY DEF DeleteLeaf, Entered, DropLeaf
<1>2. Down(c, K, key, hole)
  BY <1>1, WayDown
<1>3. LeavesOK(leaves, size)
  BY DEF TreeInv, HeapOK
<1>4. r = c.cur
  OBVIOUS
<1> HIDE DEF c, K, key, hole, r
<1>5. /\ K \in SUBSET Path /\ hole \in Path /\ key \in Path /\ DOMAIN nodes \subseteq InnerRefs
      /\ Linked(nodes, K, <<>>) /\ AllFull(nodes, K) /\ IsMap(nodes) /\ IsSlot(nodes, hole)
      /\ SlotOK(nodes, K, r, hole)
  BY <1>2, <1>4 DEF Down
<1>6. LeafSlot(nodes, K, key, hole)
  BY <1>1, <1>5, SlotKinds
<1>7. key \in K /\ Rebuilt(nodes, K, nodes, K \ {key}, hole, nil)
  BY <1>5, <1>6, LeafDrop
<1>8. LeavesOK(leaves', size') /\ size' # size /\ DOMAIN leaves' = K \ {key}
  BY <1>1, <1>3, <1>7, LeafDiscounted DEF K
<1>9. Rebuilt(nodes, K, nodes', DOMAIN leaves', hole, nil)
  BY <1>1, <1>7, <1>8
<1>10. TreeInv'
  BY <1>1, <1>8, <1>9, FrameReturns DEF c, K, hole
<1>11. SM!SMApply(p)
  BY <1>1, <1>7, <1>8, DeleteTakesEffect DEF c, key, K
<1> QED BY <1>10, <1>11

\* Delete at the node where its key ends: the terminal goes, the node is reshaped.
LEMMA DeleteTerminalStep ==
  ASSUME TreeInv, NEW p \in Procs, DeleteTerminal(p)
  PROVE  TreeInv' /\ SM!SMApply(p)
<1> DEFINE c == call[p]
           K == DOMAIN leaves
           key == c.req.key
           hole == HolePath(c.stack)
           r == c.cur
           cut == [nodes EXCEPT ![r].terminal = nil]
           J == K \ {r.at}
           s == Reshaped(cut, r)
<1>1. /\ c.phase = "enter" /\ c.req.op = "Delete" /\ IsInner(r) /\ Matches(c)
      /\ Past(c) = Len(key) /\ nodes[r].terminal # nil
      /\ leaves' = Without(leaves, key) /\ size' = size - 1
      /\ nodes' = s.nodes /\ ReturnNode(p, s.ref) /\ root' = root /\ c.req.op # "Put"
  BY DEF DeleteTerminal, Entered, DropLeaf, IsLeaf
<1>2. Down(c, K, key, hole) /\ key = c.req.key
  BY <1>1, WayDown
<1>3. LeavesOK(leaves, size)
  BY DEF TreeInv, HeapOK
<1>4. /\ r = c.cur /\ cut = [nodes EXCEPT ![r].terminal = nil] /\ J = K \ {r.at}
      /\ s = Reshaped(cut, r)
  OBVIOUS
<1> HIDE DEF c, K, key, hole, r, cut, J, s
<1>5. /\ K \in SUBSET Path /\ hole \in Path /\ key \in Path /\ Starts(hole, key)
      /\ Linked(nodes, K, <<>>) /\ AllFull(nodes, K) /\ IsSlot(nodes, hole)
      /\ SlotOK(nodes, K, r, hole)
  BY <1>2, <1>4 DEF Down
<1>6. /\ NodeSlot(nodes, K, r, hole) /\ r.at \in Path
      /\ Past(c) = Len(r.at) /\ Starts(r.at, key)
  BY <1>1, <1>2, <1>4, AtNode
<1>7. r.at = key /\ key \in K
  BY <1>1, <1>5, <1>6, WhatIsHere
<1>8. cut = WithTerminal(nodes, r, J)
  BY <1>4 DEF WithTerminal
<1>9. Rebuilt(nodes, K, s.nodes, J, hole, s.ref)
  <2>1. r.at \in K /\ J = K \ {r.at} /\ s = Reshaped(cut, r)
    BY <1>4, <1>7
  <2> QED BY ONLY <1>5, <1>6, <1>8, <2>1, TerminalDropped
<1>10. LeavesOK(leaves', size') /\ size' # size /\ DOMAIN leaves' = J
  BY <1>1, <1>3, <1>4, <1>7, LeafDiscounted DEF K
<1>11. Rebuilt(nodes, K, nodes', DOMAIN leaves', hole, s.ref)
  BY <1>1, <1>9, <1>10
<1>12. TreeInv'
  BY <1>1, <1>10, <1>11, FrameReturns DEF c, K, hole
<1>13. SM!SMApply(p)
  BY <1>1, <1>7, <1>10, DeleteTakesEffect DEF c, key, K
<1> QED BY <1>12, <1>13

\* Delete where its key is not.
LEMMA DeleteMissStep ==
  ASSUME TreeInv, NEW p \in Procs, DeleteMiss(p)
  PROVE  TreeInv' /\ SM!SMApply(p)
<1> DEFINE c == call[p]
           K == DOMAIN leaves
           key == c.req.key
           hole == HolePath(c.stack)
           r == c.cur
           b == Branch(c)
<1>1. /\ c.phase = "enter" /\ c.req.op = "Delete" /\ ReturnNode(p, r) /\ c.req.op # "Put"
      /\ root' = root /\ size' = size /\ leaves' = leaves /\ nodes' = nodes
  BY DEF DeleteMiss, Entered, tree
<1>2. \/ r = nil
      \/ IsLeaf(r) /\ r.at # key
      \/ IsInner(r) /\ ~ Matches(c)
      \/ IsInner(r) /\ Matches(c) /\ Past(c) = Len(key) /\ nodes[r].terminal # Leaf(key)
      \/ IsInner(r) /\ Matches(c) /\ Past(c) # Len(key) /\ ChildIn(nodes, r, b) = nil
  BY DEF DeleteMiss, Child, ChildIn
<1>3. Down(c, K, key, hole) /\ key = c.req.key
  BY <1>1, WayDown
<1>4. LeavesOK(leaves, size)
  BY DEF TreeInv, HeapOK
<1>5. r = c.cur /\ b = Branch(c)
  OBVIOUS
<1> HIDE DEF c, K, key, hole, r, b
<1>6. /\ K \in SUBSET Path /\ hole \in Path /\ key \in Path /\ Starts(hole, key)
      /\ Linked(nodes, K, <<>>) /\ Linked(nodes, K, hole) /\ AllFull(nodes, K)
      /\ SlotOK(nodes, K, r, hole) /\ IsMap(nodes)
  BY <1>3, <1>5 DEF Down
<1>7. IsInner(r) => /\ r.at \in Path /\ Past(c) = Len(r.at)
                    /\ Matches(c) <=> Starts(r.at, key)
  BY <1>3, <1>5, AtNode
<1>8. key \notin K
  <2>1. CASE r = nil \/ (IsLeaf(r) /\ r.at # key) \/ (IsInner(r) /\ ~ Matches(c))
    BY <1>6, <1>7, <2>1, WhatIsHere
  <2>2. CASE IsInner(r) /\ Matches(c) /\ Past(c) = Len(key) /\ nodes[r].terminal # Leaf(key)
    BY <1>6, <1>7, <2>2, WhatIsHere
  <2>3. CASE IsInner(r) /\ Matches(c) /\ Past(c) # Len(key) /\ ChildIn(nodes, r, b) = nil
    <3>1. b \in Byte /\ Starts(Append(r.at, b), key)
      BY <1>3, <1>5, <1>6, <1>7, <2>3, Onward
    <3> QED BY <1>6, <2>3, <3>1, WhatIsHere
  <2> QED BY <1>2, <2>1, <2>2, <2>3
<1>9. leaves' = Without(leaves, key)
  BY <1>1, <1>4, <1>8 DEF LeavesOK, IsMap, Without, K
<1>10. Rebuilt(nodes, K, nodes', DOMAIN leaves', hole, r)
  <2>1. Rebuilt(nodes, K, nodes, K, hole, r)
    BY <1>6, NothingRebuilt
  <2> QED BY <1>1, <2>1 DEF K
<1>11. LeavesOK(leaves', size')
  BY <1>1, <1>4
<1>12. TreeInv'
  BY <1>1, <1>10, <1>11, FrameReturns DEF c, K, hole
<1>13. SM!SMApply(p)
  BY <1>1, <1>8, <1>9, DeleteTakesEffect DEF c, key, K
<1> QED BY <1>12, <1>13

\* Delete at a node with an edge for the key.
LEMMA DeleteRecurseStep ==
  ASSUME TreeInv, NEW p \in Procs, DeleteRecurse(p)
  PROVE  TreeInv' /\ UNCHANGED SM!smVars
<1> DEFINE c == call[p]
           b == Branch(c)
<1>1. /\ c.phase = "enter" /\ c.req.op = "Delete" /\ IsInner(c.cur) /\ Past(c) # Len(c.req.key)
      /\ Matches(c) /\ UNCHANGED tree /\ ChildIn(nodes, c.cur, b) # nil
      /\ Recurse(p, b, ChildIn(nodes, c.cur, b), Past(c) + 1)
  BY DEF DeleteRecurse, Entered, Child, ChildIn
<1>2. Starts(c.cur.at, c.req.key)
  BY <1>1, WayDown, AtNode
<1> QED BY <1>1, <1>2, FrameRecurses

\* A suspended frame of Delete drops or stores its child and reshapes its node,
\* or leaves it alone when the child is what it was.
LEMMA DeleteResumeStep ==
  ASSUME TreeInv, NEW p \in Procs, DeleteResume(p)
  PROVE  TreeInv' /\ UNCHANGED SM!smVars
<1> DEFINE c == call[p]
           K == DOMAIN leaves
           key == c.req.key
           hole == HolePath(c.stack)
           path == HolePath(Tail(c.stack))
           f == Head(c.stack)
           r == f.node
           b == f.branch
           cut == CutChild(nodes, r, b, c.ret)
           s == Reshaped(cut, r)
<1>1. /\ c.phase = "return" /\ c.req.op = "Delete" /\ c.stack # <<>> /\ c.req.op # "Put"
      /\ root' = root /\ size' = size /\ leaves' = leaves
      /\ \/ c.ret = ChildIn(nodes, r, b) /\ Unwind(p, r) /\ nodes' = nodes
         \/ nodes' = s.nodes /\ Unwind(p, s.ref)
  BY DEF DeleteResume, Ended, Child, ChildIn, CutChild, StoreChild
<1>2. /\ K \in SUBSET Path /\ key \in Path /\ DOMAIN nodes \subseteq InnerRefs
      /\ Ascending(c, root, nodes, K) /\ IsMap(nodes)
  BY <1>1, WayBack
<1>3. /\ Chained(nodes, root, c.stack, key) /\ Linked(nodes, K, hole) /\ AllFull(nodes, K)
      /\ SlotOK(nodes, K, c.ret, hole) /\ SlotOK(nodes, K, root, <<>>)
  BY <1>1, <1>2 DEF Ascending
<1>4. Above(nodes, K, root, c.stack, key, path)
  BY <1>1, <1>2, <1>3, HoleAbove
<1>5. /\ path \in Path /\ IsSlot(nodes, path) /\ NodeSlot(nodes, K, r, path) /\ r.at \in Path
      /\ r \in DOMAIN nodes /\ b \in Byte /\ b \in DOMAIN nodes[r].children
      /\ hole = Append(r.at, b)
  BY <1>4 DEF Above
<1>6. cut = CutChild(nodes, r, b, c.ret) /\ s = Reshaped(cut, r)
  OBVIOUS
<1> HIDE DEF c, K, key, hole, path, f, r, b, cut, s
<1>7. CASE c.ret = ChildIn(nodes, r, b) /\ Unwind(p, r) /\ nodes' = nodes
  <2>1. Linked(nodes, K, <<>>)
    BY <1>3, <1>5, <1>7, HoleClosed
  <2>2. Linked(nodes, K, path) /\ SlotOK(nodes, K, r, path)
    BY <1>5, <2>1, AnyHole DEF SlotOK
  <2>3. Rebuilt(nodes, K, nodes', K, path, r)
    BY <1>2, <1>3, <1>7, <2>2, NothingRebuilt
  <2>4. TreeInv'
    BY <1>1, <1>7, <2>3, FrameResumes DEF c, K, path
  <2>5. UNCHANGED SM!smVars
    BY <1>1, <1>7, ResumeUnseen DEF c
  <2> QED BY <2>4, <2>5
<1>8. CASE nodes' = s.nodes /\ Unwind(p, s.ref)
  <2>1. Rebuilt(nodes, K, s.nodes, K, path, s.ref)
    BY ONLY <1>2, <1>3, <1>5, <1>6, ChildResumed
  <2>2. Rebuilt(nodes, K, nodes', K, path, s.ref)
    BY <1>8, <2>1
  <2>3. TreeInv'
    BY <1>1, <1>8, <2>2, FrameResumes DEF c, K, path
  <2>4. UNCHANGED SM!smVars
    BY <1>1, <1>8, ResumeUnseen DEF c
  <2> QED BY <2>3, <2>4
<1> QED BY <1>1, <1>7, <1>8

\* Delete stores the root.
LEMMA DeleteFinishStep ==
  ASSUME TreeInv, NEW p \in Procs, DeleteFinish(p)
  PROVE  TreeInv' /\ UNCHANGED SM!smVars
<1> DEFINE result == size # call[p].before
<1>1. /\ call[p].phase = "return" /\ call[p].req.op = "Delete" /\ call[p].stack = <<>>
      /\ root' = call[p].ret /\ Done(p, result)
      /\ size' = size /\ leaves' = leaves /\ nodes' = nodes
  BY DEF DeleteFinish, Ended
<1>2. result = (call[p].before # size)
  OBVIOUS
<1>3. Done(p, IF call[p].req.op = "Put" THEN "ok" ELSE call[p].before # size)
  BY <1>1, <1>2
<1> HIDE DEF result
<1>4. TreeInv'
  BY <1>1, CallFinishes
<1>5. UNCHANGED SM!smVars
  BY <1>1, <1>3, FinishUnseen
<1> QED BY <1>4, <1>5
-----------------------------------------------------------------------------
(***************************************************************************)
(* Get, Len and Clear.                                                     *)
(***************************************************************************)
\* While somebody reads, nobody writes: the tree is whole.
LEMMA WholeForReaders ==
  ASSUME TreeInv, NEW p \in Procs, call[p].phase = "enter"
  PROVE  /\ Whole(nodes, DOMAIN leaves, root) /\ IsMap(nodes) /\ LeavesOK(leaves, size)
         /\ DOMAIN leaves \in SUBSET Path /\ CallOK(call[p], root, size, leaves, nodes)
<1>1. ASSUME NEW q \in Procs, call[q].phase = "return"
      PROVE  FALSE
  <2>1. call[q].req.op \in SM!Writers
    BY <1>1, WayBack
  <2> QED BY <1>1, <2>1 DEF TreeInv, Exclusive
<1>2. Whole(nodes, DOMAIN leaves, root)
  BY <1>1 DEF TreeInv, Returning
<1> QED BY <1>2, KeysAssumption DEF TreeInv, HeapOK, LeavesOK, Path

\* A call that does not change the tree has its answer.
LEMMA CallAnswers ==
  ASSUME TreeInv, NEW p \in Procs, call[p].phase = "enter", UNCHANGED tree,
         NEW result, Done(p, result),
         call[p].req.op \in {"Get", "Len"}, result = SM!Answered(call[p].req)
  PROVE  TreeInv' /\ SM!SMApply(p)
<1> DEFINE c == call[p]
           d == Ending(c.req, result)
<1>1. Becomes(p, d)
  BY CallBecomes DEF Done, Ending
<1>2. CallShape(d) /\ d.phase = "done" /\ d.req = c.req /\ d.depth = 0 /\ d.result = result
  BY EndingFields
<1>3. c.req \in SM!Calls
  BY DEF TreeInv, CallOK
<1>4. c.phase = "enter" /\ c.req.op \in {"Get", "Len"} /\ result = SM!Answered(c.req)
  OBVIOUS
<1>5. size' = size /\ leaves' = leaves
  BY DEF tree
<1> HIDE DEF d
<1>6. ClientOf(d, size') = Seen("applied", c.req, SM!Answered(c.req))
  BY <1>2, <1>4, ClientPhases
<1>7. leaves' = SM!Effect(c.req)
  BY <1>4, <1>5 DEF SM!Effect
<1>8. SM!SMApply(p)
  BY <1>1, <1>5, <1>6, <1>7, TakesEffect
<1> HIDE DEF c
<1>9. CallOK(d, root, size, leaves, nodes)
  BY <1>2, <1>3, <1>4 DEF CallOK
<1>10. Beside(p, d)
  BY <1>2, <1>4, StaysBeside DEF c
<1>11. TreeInv'
  BY <1>1, <1>2, <1>4, <1>9, <1>10, ReaderStep DEF c
<1> QED BY <1>8, <1>11

\* The abstract map counts its keys as the tree does.
LEMMA SameCount == \A m : SM!Count(m) = Cardinality(DOMAIN m)
<1>1. \A S : SM!Cardinality(S) = Cardinality(S)
  BY DEF SM!Cardinality, Cardinality
<1> QED BY <1>1 DEF SM!Count

\* Len answers with the size.
LEMMA LenStepStep ==
  ASSUME TreeInv, NEW p \in Procs, LenStep(p)
  PROVE  TreeInv' /\ SM!SMApply(p)
<1>1. call[p].phase = "enter" /\ call[p].req.op = "Len" /\ Done(p, size) /\ UNCHANGED tree
  BY DEF LenStep, Entered
<1>2. SM!Answered(call[p].req) = SM!Count(leaves)
  BY <1>1 DEF SM!Answered
<1>3. size = SM!Count(leaves)
  BY SameCount DEF TreeInv, HeapOK, LeavesOK
<1> QED BY <1>1, <1>2, <1>3, CallAnswers

\* The place of Get's loop.
LEMMA Looking ==
  ASSUME TreeInv, NEW p \in Procs, call[p].phase = "enter", call[p].req.op = "Get"
  PROVE  LET c == call[p]
             key == c.req.key
             path == Upto(key, c.depth)
         IN  /\ key \in Path /\ path \in Path /\ Len(path) = c.depth /\ Starts(path, key)
             /\ SlotOK(nodes, DOMAIN leaves, c.cur, path)
             /\ Linked(nodes, DOMAIN leaves, <<>>) /\ DOMAIN leaves \in SUBSET Path
             /\ CallShape(c) /\ c.req \in SM!Calls /\ c.result = none
<1> DEFINE c == call[p]
           key == c.req.key
           path == Upto(key, c.depth)
<1>1. /\ Whole(nodes, DOMAIN leaves, root) /\ DOMAIN leaves \in SUBSET Path
      /\ CallOK(c, root, size, leaves, nodes)
  BY WholeForReaders
<1>2. c.phase = "enter" /\ c.req.op = "Get"
  OBVIOUS
<1>3. Linked(nodes, DOMAIN leaves, <<>>)
  BY <1>1 DEF Whole
<1> HIDE DEF c
<1>4. /\ CallShape(c) /\ c.req \in SM!Calls /\ c.result = none /\ c.depth \in Nat
      /\ Searching(c, nodes, DOMAIN leaves)
  BY <1>1, <1>2 DEF CallOK
<1>5. key \in Path
  BY <1>2, <1>4, RequestTypes
<1>6. c.depth \in 0 .. Len(key) /\ SlotOK(nodes, DOMAIN leaves, c.cur, path)
  BY <1>4, <1>5, Lengths DEF Searching
<1>7. path \in Path /\ Len(path) = c.depth /\ Starts(path, key)
  BY <1>5, <1>6, UptoStarts
<1> QED BY <1>1, <1>3, <1>4, <1>5, <1>6, <1>7 DEF c

\* What Get answers for the key, from the leaf in its place or from none.
LEMMA ValueHere ==
  ASSUME NEW key, NEW r, nil # Leaf(key)
  PROVE  /\ r = Leaf(key) /\ key \in DOMAIN leaves =>
              ValueOf(r, key) = IF key \in DOMAIN leaves THEN leaves[key] ELSE none
         /\ ~ (IsLeaf(r) /\ r.at = key) /\ key \notin DOMAIN leaves =>
              ValueOf(r, key) = IF key \in DOMAIN leaves THEN leaves[key] ELSE none
  BY DEF ValueOf, IsLeaf, Leaf

\* Get answers where its loop ends.
LEMMA GetEndStep ==
  ASSUME TreeInv, NEW p \in Procs, GetEnd(p)
  PROVE  TreeInv' /\ SM!SMApply(p)
<1> DEFINE c == call[p]
           K == DOMAIN leaves
           key == c.req.key
           path == Upto(key, c.depth)
           r == c.cur
           t == nodes[r].terminal
           answer == IF key \in K THEN leaves[key] ELSE none
<1>1. c.phase = "enter" /\ c.req.op = "Get" /\ UNCHANGED tree
  BY DEF GetEnd, Entered
<1>2. \/ ~ IsInner(r) /\ Done(p, ValueOf(r, key))
      \/ IsInner(r) /\ ~ Matches(c) /\ Done(p, none)
      \/ /\ IsInner(r) /\ Matches(c) /\ Past(c) = Len(key)
         /\ Done(p, ValueOf(t, key))
  BY DEF GetEnd
<1>3. /\ key \in Path /\ path \in Path /\ Len(path) = c.depth /\ Starts(path, key)
      /\ SlotOK(nodes, K, r, path) /\ Linked(nodes, K, <<>>) /\ K \in SUBSET Path
  BY <1>1, Looking
<1>4. DOMAIN nodes \subseteq InnerRefs
  BY <1>3, LinkedTypes
<1>5. Visiting(c, K, key, path)
  BY <1>3, <1>4 DEF Visiting
<1>6. answer = SM!Answered(c.req)
  BY <1>1 DEF SM!Answered
<1>7. t = nodes[r].terminal /\ r = c.cur /\ answer = IF key \in K THEN leaves[key] ELSE none
  OBVIOUS
<1> HIDE DEF c, K, key, path, r, t, answer
<1>8. IsInner(r) => Past(c) = Len(r.at) /\ (Matches(c) <=> Starts(r.at, key))
  BY <1>5, <1>7, AtInner
<1>9. Leaf(key) # nil /\ IsLeaf(Leaf(key)) /\ Leaf(key).at = key /\ ~ IsLeaf(nil)
  BY <1>3, RefKinds
<1>10. Done(p, answer)
  <2>1. CASE ~ IsInner(r) /\ Done(p, ValueOf(r, key))
    <3>1. r = nil \/ (IsLeaf(r) /\ r = Leaf(r.at))
      BY <1>3, <1>4, <2>1, SlotKinds
    <3>2. CASE key \in K
      <4>1. r = Leaf(key)
        BY <1>3, <3>1, <3>2, WhatIsHere
      <4>2. ValueOf(r, key) = answer
        BY <1>7, <1>9, <3>2, <4>1, ValueHere DEF K
      <4> QED BY <2>1, <4>2
    <3>3. CASE key \notin K
      <4>1. ~ (IsLeaf(r) /\ r.at = key)
        BY <1>3, <3>3, WhatIsHere
      <4>2. ValueOf(r, key) = answer
        BY <1>7, <1>9, <3>3, <4>1, ValueHere DEF K
      <4> QED BY <2>1, <4>2
    <3> QED BY <3>2, <3>3
  <2>2. CASE IsInner(r) /\ ~ Matches(c) /\ Done(p, none)
    <3>1. key \notin K
      BY <1>3, <1>8, <2>2, WhatIsHere
    <3> QED BY <1>7, <2>2, <3>1
  <2>3. CASE IsInner(r) /\ Matches(c) /\ Past(c) = Len(key) /\ Done(p, ValueOf(t, key))
    <3>1. t = IF key \in K THEN Leaf(key) ELSE nil
      BY <1>3, <1>7, <1>8, <2>3, WhatIsHere
    <3>2. ValueOf(t, key) = answer
      BY <1>7, <1>9, <3>1, ValueHere DEF K
    <3> QED BY <2>3, <3>2
  <2> QED BY <1>2, <2>1, <2>2, <2>3
<1> QED BY <1>1, <1>6, <1>10, CallAnswers DEF c

\* Get goes on to a child.
LEMMA GetStepStep ==
  ASSUME TreeInv, NEW p \in Procs, GetStep(p)
  PROVE  TreeInv' /\ UNCHANGED SM!smVars
<1> DEFINE c == call[p]
           K == DOMAIN leaves
           key == c.req.key
           path == Upto(key, c.depth)
           r == c.cur
           b == Branch(c)
           here == Append(r.at, b)
           child == ChildIn(nodes, r, b)
           d == Pushing(c, c.stack, child, Past(c) + 1)
<1>1. /\ c.phase = "enter" /\ c.req.op = "Get" /\ UNCHANGED tree
      /\ IsInner(r) /\ Matches(c) /\ Past(c) # Len(key)
  BY DEF GetStep, Entered
<1>2. /\ key \in Path /\ path \in Path /\ Len(path) = c.depth /\ Starts(path, key)
      /\ SlotOK(nodes, K, r, path) /\ Linked(nodes, K, <<>>) /\ K \in SUBSET Path
      /\ CallShape(c) /\ c.req \in SM!Calls /\ c.result = none
  BY <1>1, Looking
<1>3. call' = [call EXCEPT ![p] = d]
  <2>1. call' = [call EXCEPT ![p] = [c EXCEPT !.cur = child, !.depth = Past(c) + 1]]
    BY DEF GetStep, Child, ChildIn
  <2>2. [c EXCEPT !.stack = c.stack, !.cur = child, !.depth = Past(c) + 1]
          = [c EXCEPT !.cur = child, !.depth = Past(c) + 1]
    <3> HIDE DEF c, child
    <3>1. [c EXCEPT !.stack = c.stack] = c
      BY <1>2 DEF CallShape
    <3> QED BY <3>1
  <2> QED BY <2>1, <2>2 DEF Pushing
<1>4. Becomes(p, d)
  BY <1>3, CallBecomes
<1>5. DOMAIN nodes \subseteq InnerRefs
  BY <1>2, LinkedTypes
<1>6. Visiting(c, K, key, path)
  BY <1>2, <1>5 DEF Visiting
<1>7. size' = size /\ leaves' = leaves
  BY <1>1 DEF tree
<1>8. r = c.cur /\ b = Branch(c) /\ here = Append(r.at, b) /\ child = ChildIn(nodes, r, b)
      /\ key = c.req.key
  OBVIOUS
<1> HIDE DEF c, K, key, path, r, b, here, child
<1>9. /\ CallShape(d) /\ d.phase = c.phase /\ d.req = c.req
      /\ d.cur = child /\ d.depth = Past(c) + 1 /\ d.result = c.result
  BY <1>2, PushingFields
<1> HIDE DEF d
<1>10. /\ r.at \in Path /\ r \in DOMAIN nodes /\ Past(c) = Len(r.at) /\ Starts(r.at, key)
  BY <1>1, <1>6, <1>8, AtInner
<1>11. b \in Byte /\ here \in Path /\ Len(here) = Past(c) + 1 /\ Starts(here, key)
  <2>1. r.at = c.cur.at /\ Past(c) # Len(key) /\ key = c.req.key
    BY <1>1, <1>8
  <2>2. /\ Branch(c) \in Byte /\ Append(r.at, Branch(c)) \in Path
        /\ Len(Append(r.at, Branch(c))) = Past(c) + 1
        /\ Starts(Append(r.at, Branch(c)), key)
    BY ONLY <1>2, <1>10, <2>1, Onward
  <2> QED BY <1>8, <2>2
<1>12. SlotOK(nodes, K, child, here)
  BY <1>2, <1>8, <1>10, <1>11, EdgeHolds
<1>13. Upto(key, Len(here)) = here
  BY <1>2, <1>11, UptoOfStart
<1>14. Searching(d, nodes, K) /\ d.depth \in Nat
  <2>1. Len(here) <= Len(key) /\ Len(here) \in Nat
    BY <1>2, <1>11, StartsOrder, Lengths
  <2>2. d.depth = Len(here) /\ d.req.key = key /\ d.cur = child
    BY <1>8, <1>9, <1>11
  <2>3. SlotOK(nodes, K, d.cur, Upto(d.req.key, d.depth))
    BY ONLY <1>12, <1>13, <2>2
  <2> QED BY <2>1, <2>2, <2>3 DEF Searching
<1>15. CallOK(d, root, size, leaves, nodes)
  BY <1>1, <1>2, <1>9, <1>14 DEF CallOK, K
<1>16. d.phase # "return" /\ c.phase # "idle" /\ c.phase # "return"
  BY <1>1, <1>9
<1>17. Beside(p, d)
  BY <1>9, <1>16, StaysBeside DEF c
<1>18. TreeInv'
  BY <1>1, <1>4, <1>15, <1>16, <1>17, ReaderStep DEF c
<1>19. ClientOf(d, size) = ClientOf(c, size)
  BY <1>1, <1>9, ClientPhases
<1>20. UNCHANGED SM!smVars
  BY <1>4, <1>7, <1>16, <1>19, Unseen DEF c
<1> QED BY <1>18, <1>20

\* A heap of nothing.
LEMMA NothingWhole == Whole(Empty, {}, nil) /\ LeavesOK(Empty, 0) /\ IsMap(Empty)
                      /\ DOMAIN Empty = {}
<1>1. DOMAIN Empty = {} /\ IsMap(Empty)
  BY DEF Empty, IsMap
<1>2. LeavesOK(Empty, 0)
  BY <1>1, FS_EmptySet DEF LeavesOK
<1>3. Whole(Empty, {}, nil)
  BY <1>1 DEF Whole, Linked, AllFull, SlotOK, EmptySlot
<1> QED BY <1>1, <1>2, <1>3

\* Clear leaves an empty tree.
LEMMA ClearStepStep ==
  ASSUME TreeInv, NEW p \in Procs, ClearStep(p)
  PROVE  TreeInv' /\ SM!SMApply(p)
<1> DEFINE c == call[p]
           d == Ending(c.req, "ok")
<1>1. /\ c.phase = "enter" /\ c.req.op = "Clear" /\ Done(p, "ok")
      /\ root' = nil /\ size' = 0 /\ leaves' = Empty /\ nodes' = Empty
  BY DEF ClearStep, Entered
<1>2. Becomes(p, d)
  BY <1>1, CallBecomes DEF Done, Ending
<1>3. CallShape(d) /\ d.phase = "done" /\ d.req = c.req /\ d.depth = 0 /\ d.result = "ok"
  BY EndingFields
<1>4. c.req \in SM!Calls
  BY <1>1 DEF TreeInv, CallOK
<1>5. c.req.op \in SM!Writers
  BY <1>1 DEF SM!Writers
<1> HIDE DEF d
<1>6. ClientOf(d, size') = Seen("applied", c.req, SM!Answered(c.req))
  <2>1. SM!Answered(c.req) = "ok"
    BY <1>1 DEF SM!Answered
  <2> QED BY <1>1, <1>3, <2>1, ClientPhases
<1>7. leaves' = SM!Effect(c.req)
  BY <1>1 DEF SM!Effect, SM!Empty, Empty
<1>8. SM!SMApply(p)
  BY <1>1, <1>2, <1>5, <1>6, <1>7, TakesEffect
<1> HIDE DEF c
<1>9. CallOK(d, root', size', leaves', nodes')
  BY <1>1, <1>3, <1>4 DEF CallOK
<1>10. HeapOK(root', size', leaves', nodes') /\ Whole(nodes', DOMAIN leaves', root')
  BY <1>1, NothingWhole DEF HeapOK
<1>11. c.phase # "idle"
  BY <1>1
<1>12. TreeInv'
  BY <1>2, <1>3, <1>5, <1>9, <1>10, <1>11, WriterStep DEF c
<1> QED BY <1>8, <1>12

-----------------------------------------------------------------------------
(***************************************************************************)
(* Clone.                                                                  *)
(***************************************************************************)
\* The children of a node, in the order in which Clone copies them.
LEMMA KidsAreChildren ==
  ASSUME NEW K, NEW r \in DOMAIN nodes, NodeOK(nodes, K, r),
         \A b \in DOMAIN nodes[r].children : nodes[r].children[b] \in NodeRefs
  PROVE  /\ Kids(r) \in Seq(NodeRefs)
         /\ Members(Kids(r)) = {nodes[r].children[b] : b \in DOMAIN nodes[r].children}
<1> DEFINE m == nodes[r].children
           S == DOMAIN m
           n == Cardinality(S)
           kid(i) == m[Nth(S, i - 1)]
<1>1. r \in InnerRefs /\ S \subseteq Byte
  BY DEF NodeOK
<1>2. ~ IsLeaf(r)
  BY <1>1, RefKinds
<1>3. Kids(r) = [i \in 1 .. n |-> kid(i)]
  BY <1>2 DEF Kids, Count
<1>4. IsFiniteSet(S) /\ n \in Nat /\ S \subseteq Nat
  BY <1>1, CountType, ByteFinite DEF Count
<1>0. n = Cardinality(S)
  OBVIOUS
<1> HIDE DEF n
<1>5. \A i \in 1 .. n : Nth(S, i - 1) \in S
  <2> TAKE i \in 1 .. n
  <2>1. i - 1 \in Nat /\ i - 1 < Cardinality(S)
    BY <1>0, <1>4
  <2> QED BY <1>4, <2>1, NthElement
<1>6. \A b \in S : \E i \in 1 .. n : Nth(S, i - 1) = b
  <2> TAKE b \in S
  <2> DEFINE j == Rank(S, b)
  <2>1. Nth(S, j) = b /\ j \in 0 .. n - 1
    BY <1>0, <1>4, NthOfRank, RankRange
  <2> HIDE DEF j
  <2>2. j + 1 \in 1 .. n /\ (j + 1) - 1 = j
    BY <1>4, <2>1
  <2> QED BY <2>1, <2>2
<1>7. \A i \in 1 .. n : kid(i) \in NodeRefs /\ \E b \in S : kid(i) = m[b]
  BY <1>5
<1>8. \A b \in S : \E i \in 1 .. n : kid(i) = m[b]
  BY <1>6
<1> HIDE DEF kid, m, S
<1>9. Kids(r) \in Seq(NodeRefs) /\ Len(Kids(r)) = n /\ \A i \in 1 .. n : Kids(r)[i] = kid(i)
  BY <1>3, <1>4, <1>7
<1>10. Members(Kids(r)) = {m[b] : b \in S}
  BY <1>7, <1>8, <1>9 DEF Members
<1> QED BY <1>9, <1>10 DEF m, S

\* What hangs from a slot stands above all keys and nodes behind the slot.
LEMMA SlotReferred ==
  ASSUME NEW ns, NEW K \in SUBSET Path, DOMAIN ns \subseteq InnerRefs,
         NEW path \in Path, NEW c, c # nil, SlotOK(ns, K, c, path)
  PROVE  /\ Referred(ns, K, c) /\ c \in NodeRefs
         /\ \A k \in K : Starts(path, k) => Starts(c.at, k)
         /\ \A s \in DOMAIN ns : Starts(path, s.at) => Starts(c.at, s.at)
<1>1. CASE c = Leaf(c.at) /\ LeafSlot(ns, K, c.at, path)
  <2> DEFINE k == c.at
  <2>0. c = Leaf(k) /\ LeafSlot(ns, K, k, path)
    BY <1>1
  <2> HIDE DEF k
  <2>1. k \in K /\ k \in Path /\ Starts(path, k) /\ Starts(k, k)
    BY <2>0, StartsOrder DEF LeafSlot
  <2>2. \A q \in Path : Starts(k, q) => Starts(path, q)
    BY <2>1, StartsOrder
  <2>3. \A s \in DOMAIN ns : s.at \in Path
    BY RefKinds
  <2>4. LeafSlot(ns, K, k, k)
    BY <2>0, <2>1, <2>2, <2>3 DEF LeafSlot
  <2>5. Leaf(k) \in NodeRefs
    BY <2>1 DEF Leaf, NodeRefs, Path
  <2>6. /\ \A j \in K : Starts(path, j) => Starts(k, j)
        /\ \A s \in DOMAIN ns : Starts(path, s.at) => Starts(k, s.at)
    BY <2>0, <2>1 DEF LeafSlot
  <2> QED BY <1>1, <2>0, <2>4, <2>5, <2>6 DEF Referred, k
<1>2. CASE NodeSlot(ns, K, c, path)
  <2>1. c \in NodeRefs
    BY <1>2 DEF NodeSlot, InnerRefs, NodeRefs, Path
  <2> QED BY <1>2, <2>1 DEF NodeSlot, Referred
<1> QED BY <1>1, <1>2 DEF SlotOK

\* A part of a map with one more of its entries is a part of it.
LEMMA EntryCopied ==
  ASSUME NEW m, NEW n, SubMap(m, n), NEW x \in DOMAIN n
  PROVE  SubMap(With(m, x, n[x]), n) /\ DOMAIN With(m, x, n[x]) = DOMAIN m \cup {x}
<1>1. DOMAIN With(m, x, n[x]) = DOMAIN m \cup {x} /\ IsMap(With(m, x, n[x]))
  BY DEF With, IsMap
<1>2. \A j \in DOMAIN m \cup {x} : With(m, x, n[x])[j] = n[j]
  BY DEF With, SubMap
<1> QED BY <1>1, <1>2 DEF SubMap
\* What is below a node is behind one of its children.
LEMMA BelowNode ==
  ASSUME NEW ns, NEW K \in SUBSET Path, Linked(ns, K, <<>>), NEW r \in DOMAIN ns,
         NEW q \in Path, Starts(r.at, q), q # r.at, q \in K \/ \E s \in DOMAIN ns : s.at = q
  PROVE  \E e \in DOMAIN ns[r].children : Starts(ns[r].children[e].at, q)
<1>1. DOMAIN ns \subseteq InnerRefs /\ r.at \in Path
  BY LinkedTypes, RefKinds
<1>2. PICK e \in Byte : Starts(Append(r.at, e), q)
  BY <1>1, NextByte
<1> DEFINE c == ChildIn(ns, r, e)
           here == Append(r.at, e)
<1>3. SlotOK(ns, K, c, here) /\ here \in Path
  BY <1>1, EdgeHolds
<1>4. c # nil
  <2>1. ~ EmptySlot(ns, K, here)
    BY <1>2 DEF EmptySlot
  <2> QED BY <1>1, <1>3, <2>1, SlotKinds
<1>5. e \in DOMAIN ns[r].children /\ c = ns[r].children[e]
  BY <1>4 DEF ChildIn
<1>6. Starts(here, q)
  BY <1>2
<1> HIDE DEF c, here
<1>7. /\ \A k \in K : Starts(here, k) => Starts(c.at, k)
      /\ \A s \in DOMAIN ns : Starts(here, s.at) => Starts(c.at, s.at)
  BY <1>1, <1>3, <1>4, SlotReferred
<1>8. Starts(c.at, q)
  BY <1>6, <1>7
<1> QED BY <1>5, <1>8

\* The children of a node are nodes of the tree.
LEMMA ChildrenReferred ==
  ASSUME NEW ns, NEW K \in SUBSET Path, Linked(ns, K, <<>>), NEW r \in DOMAIN ns,
         NEW e \in DOMAIN ns[r].children
  PROVE  ns[r].children[e] \in NodeRefs /\ Referred(ns, K, ns[r].children[e])
<1>1. DOMAIN ns \subseteq InnerRefs
  BY LinkedTypes
<1>2. e \in Byte /\ ns[r].children[e] # nil
  BY DEF Linked, NodeOK
<1> DEFINE c == ns[r].children[e]
<1>3. ChildIn(ns, r, e) = c
  BY DEF ChildIn
<1>4. SlotOK(ns, K, c, Append(r.at, e)) /\ Append(r.at, e) \in Path
  BY <1>2, <1>3, EdgeHolds
<1>5. c # nil
  BY <1>2
<1> HIDE DEF c
<1>6. c \in NodeRefs /\ Referred(ns, K, c)
  BY <1>1, <1>4, <1>5, SlotReferred
<1> QED BY <1>6 DEF c

\* Copying a node leaves its children to be copied.
LEMMA LeafCloned ==
  ASSUME DOMAIN leaves \in SUBSET Path, Linked(nodes, DOMAIN leaves, <<>>),
         NEW copy, NEW S, NEW k \in DOMAIN leaves, LeafSlot(nodes, DOMAIN leaves, k, k),
         Outstanding(copy, leaves, nodes, S \cup {Leaf(k)})
  PROVE  /\ Kids(Leaf(k)) = <<>>
         /\ Outstanding(Cloned(copy, Leaf(k)), leaves, nodes, S)
<1> DEFINE more == With(copy.leaves, k, leaves[k])
           d == Cloned(copy, Leaf(k))
<1>1. k \in Path /\ IsLeaf(Leaf(k)) /\ Leaf(k).at = k
  BY RefKinds
<1>2. copy = [leaves |-> copy.leaves, nodes |-> copy.nodes]
  BY DEF Outstanding
<1>3. d = [leaves |-> more, nodes |-> copy.nodes]
  BY <1>1, <1>2 DEF Cloned
<1>4. SubMap(more, leaves) /\ DOMAIN more = DOMAIN copy.leaves \cup {k}
  BY EntryCopied DEF Outstanding
<1>5. Kids(Leaf(k)) = <<>>
  BY <1>1 DEF Kids
<1>6. /\ \A j \in DOMAIN leaves : Starts(k, j) => j = k
      /\ \A r \in DOMAIN nodes : ~ Starts(k, r.at)
  BY DEF LeafSlot
<1>7. d.leaves = more /\ d.nodes = copy.nodes
  BY <1>3
<1> HIDE DEF d, more
<1>8. \A j \in DOMAIN leaves \ DOMAIN d.leaves : \E x \in S : Starts(x.at, j)
  BY <1>1, <1>4, <1>6, <1>7 DEF Outstanding
<1>9. \A r \in DOMAIN nodes \ DOMAIN d.nodes : \E x \in S : Starts(x.at, r.at)
  BY <1>1, <1>6, <1>7 DEF Outstanding
<1>10. Outstanding(d, leaves, nodes, S)
  BY <1>3, <1>4, <1>7, <1>8, <1>9 DEF Outstanding
<1> QED BY <1>5, <1>10 DEF d

\* Copying a node leaves its children to be copied.
LEMMA NodeCloned ==
  ASSUME DOMAIN leaves \in SUBSET Path, Linked(nodes, DOMAIN leaves, <<>>),
         NEW copy, NEW S, NEW r \in DOMAIN nodes,
         Outstanding(copy, leaves, nodes, S \cup {r})
  PROVE  /\ Kids(r) \in Seq(NodeRefs)
         /\ Outstanding(Cloned(copy, r), leaves, nodes, S \cup Members(Kids(r)))
<1> DEFINE K == DOMAIN leaves
           t == nodes[r].terminal
           lv == IF t = nil THEN copy.leaves ELSE With(copy.leaves, t.at, leaves[t.at])
           ns == With(copy.nodes, r, nodes[r])
           T == {nodes[r].children[b] : b \in DOMAIN nodes[r].children}
           d == Cloned(copy, r)
<1>1. /\ r \in InnerRefs /\ r.at \in Path /\ ~ IsLeaf(r) /\ NodeOK(nodes, K, r)
      /\ DOMAIN nodes \subseteq InnerRefs
  BY LinkedTypes, RefKinds DEF Linked
<1>2. t = IF r.at \in K THEN Leaf(r.at) ELSE nil
  BY <1>1 DEF NodeOK
<1>3. d = [leaves |-> lv, nodes |-> ns]
  BY <1>1 DEF Cloned
<1>4. SubMap(lv, leaves) /\ DOMAIN lv = DOMAIN copy.leaves \cup ({r.at} \cap K)
  <2>1. SubMap(copy.leaves, leaves)
    BY DEF Outstanding
  <2>2. CASE r.at \in K
    <3>1. t # nil /\ t.at = r.at
      BY <1>1, <1>2, <2>2, RefKinds
    <3>2. lv = With(copy.leaves, r.at, leaves[r.at])
      BY <3>1
    <3>3. SubMap(With(copy.leaves, r.at, leaves[r.at]), leaves)
          /\ DOMAIN With(copy.leaves, r.at, leaves[r.at]) = DOMAIN copy.leaves \cup {r.at}
      BY <2>1, <2>2, EntryCopied
    <3> QED BY <2>2, <3>2, <3>3
  <2>3. CASE r.at \notin K
    BY <1>2, <2>1, <2>3
  <2> QED BY <2>2, <2>3
<1>5. SubMap(ns, nodes) /\ DOMAIN ns = DOMAIN copy.nodes \cup {r}
  BY EntryCopied DEF Outstanding
<1>6. \A x \in T : x \in NodeRefs /\ Referred(nodes, K, x)
  BY ChildrenReferred
<1>7. Kids(r) \in Seq(NodeRefs) /\ Members(Kids(r)) = T
  BY <1>1, <1>6, KidsAreChildren
<1>8. \A q \in Path : Starts(r.at, q) /\ q # r.at /\ (q \in K \/ \E s \in DOMAIN nodes : s.at = q)
        => \E x \in T : Starts(x.at, q)
  BY BelowNode
<1>9. d.leaves = lv /\ d.nodes = ns
  BY <1>3
<1>10. /\ \A x \in S \cup {r} : Referred(nodes, K, x)
       /\ \A k \in K \ DOMAIN copy.leaves : \E x \in S \cup {r} : Starts(x.at, k)
       /\ \A s \in DOMAIN nodes \ DOMAIN copy.nodes : \E x \in S \cup {r} : Starts(x.at, s.at)
  BY DEF Outstanding
<1>11. \A s \in DOMAIN nodes : s.at \in Path /\ (s.at = r.at => s = r)
  BY <1>1, RefKinds DEF Linked
<1>12. K \in SUBSET Path
  OBVIOUS
<1> HIDE DEF d, lv, ns, T, K
<1>13. \A k \in K \ DOMAIN d.leaves : \E x \in S \cup T : Starts(x.at, k)
  BY <1>4, <1>8, <1>9, <1>10, <1>12
<1>14. \A s \in DOMAIN nodes \ DOMAIN d.nodes : \E x \in S \cup T : Starts(x.at, s.at)
  BY <1>5, <1>8, <1>9, <1>10, <1>11
<1>15. Outstanding(d, leaves, nodes, S \cup T)
  BY <1>3, <1>4, <1>5, <1>6, <1>9, <1>10, <1>13, <1>14 DEF Outstanding, K
<1> QED BY <1>7, <1>15 DEF d

\* The members of sequences, taken apart and put together.
LEMMA MembersOf ==
  /\ \A s, t \in Seq(NodeRefs) : s \o t \in Seq(NodeRefs) /\ Members(s \o t) = Members(s) \cup Members(t)
  /\ \A s \in Seq(NodeRefs) : s # <<>> =>
       Tail(s) \in Seq(NodeRefs) /\ Members(s) = {Head(s)} \cup Members(Tail(s))
  /\ \A s \in Seq(NodeRefs) : nil \notin Members(s)
  /\ Members(<<>>) = {}
<1>1. ASSUME NEW s \in Seq(NodeRefs), NEW t \in Seq(NodeRefs)
      PROVE  s \o t \in Seq(NodeRefs) /\ Members(s \o t) = Members(s) \cup Members(t)
  <2>1. s \o t \in Seq(NodeRefs) /\ Len(s) \in Nat /\ Len(t) \in Nat /\ Len(s \o t) = Len(s) + Len(t)
    OBVIOUS
  <2>2. \A i \in 1 .. Len(s) : i \in 1 .. Len(s \o t) /\ (s \o t)[i] = s[i]
    BY <2>1
  <2>3. \A i \in 1 .. Len(t) : Len(s) + i \in 1 .. Len(s \o t) /\ (s \o t)[Len(s) + i] = t[i]
    BY <2>1
  <2>4. \A i \in 1 .. Len(s \o t) :
          i \in 1 .. Len(s) \/ (i - Len(s) \in 1 .. Len(t) /\ i = Len(s) + (i - Len(s)))
    BY <2>1
  <2> DEFINE u == s \o t
             n == Len(s)
  <2>5. /\ \A i \in 1 .. n : i \in 1 .. Len(u) /\ u[i] = s[i]
        /\ \A i \in 1 .. Len(t) : n + i \in 1 .. Len(u) /\ u[n + i] = t[i]
        /\ \A i \in 1 .. Len(u) : i \in 1 .. n \/ (i - n \in 1 .. Len(t) /\ i = n + (i - n))
    BY <2>2, <2>3, <2>4
  <2> HIDE DEF u
  <2>6. Members(u) \subseteq Members(s) \cup Members(t)
    <3> SUFFICES ASSUME NEW x \in Members(u)
                 PROVE  x \in Members(s) \cup Members(t)
      OBVIOUS
    <3>1. PICK i \in 1 .. Len(u) : x = u[i]
      BY DEF Members
    <3>2. CASE i \in 1 .. n
      BY <2>5, <3>1, <3>2 DEF Members
    <3>3. CASE i - n \in 1 .. Len(t) /\ i = n + (i - n)
      <4>1. x = t[i - n]
        BY <2>5, <3>1, <3>3
      <4> QED BY <3>3, <4>1 DEF Members
    <3> QED BY <2>5, <3>2, <3>3
  <2>7. Members(s) \cup Members(t) \subseteq Members(u)
    BY <2>5 DEF Members
  <2> QED BY <2>1, <2>6, <2>7 DEF u
<1>2. ASSUME NEW s \in Seq(NodeRefs), s # <<>>
      PROVE  Tail(s) \in Seq(NodeRefs) /\ Members(s) = {Head(s)} \cup Members(Tail(s))
  <2> DEFINE u == Tail(s)
  <2>1. u \in Seq(NodeRefs) /\ Len(s) \in Nat /\ Len(s) # 0 /\ Len(u) = Len(s) - 1 /\ Head(s) = s[1]
    BY <1>2
  <2>2. \A i \in 1 .. Len(u) : i + 1 \in 1 .. Len(s) /\ u[i] = s[i + 1]
    BY <1>2
  <2> HIDE DEF u
  <2>3. \A i \in 1 .. Len(s) : i = 1 \/ (i - 1 \in 1 .. Len(u) /\ (i - 1) + 1 = i)
    BY <2>1
  <2>4. 1 \in 1 .. Len(s)
    BY <2>1
  <2>5. Members(s) \subseteq {Head(s)} \cup Members(u)
    <3> SUFFICES ASSUME NEW x \in Members(s)
                 PROVE  x \in {Head(s)} \cup Members(u)
      OBVIOUS
    <3>1. PICK i \in 1 .. Len(s) : x = s[i]
      BY DEF Members
    <3>2. CASE i = 1
      BY <2>1, <3>1, <3>2
    <3>3. CASE i - 1 \in 1 .. Len(u) /\ (i - 1) + 1 = i
      <4>1. x = u[i - 1]
        BY <2>2, <3>1, <3>3
      <4> QED BY <3>3, <4>1 DEF Members
    <3> QED BY <2>3, <3>2, <3>3
  <2>6. {Head(s)} \cup Members(u) \subseteq Members(s)
    BY <2>1, <2>2, <2>4 DEF Members
  <2> QED BY <2>1, <2>5, <2>6 DEF u
<1>3. \A s \in Seq(NodeRefs) : nil \notin Members(s)
  <2>1. ASSUME NEW s \in Seq(NodeRefs), NEW i \in 1 .. Len(s)
        PROVE  s[i] \in NodeRefs
    OBVIOUS
  <2> QED BY <2>1, NilAssumption DEF Members
<1>4. Members(<<>>) = {}
  BY DEF Members
<1> QED BY <1>1, <1>2, <1>3, <1>4

\* The call of a clone that has copied another node.
CopyOn(c, copy, cur, st) == [c EXCEPT !.copy = copy, !.cur = cur, !.stack = st]

\* The fields of a clone that has copied another node.
LEMMA CopyOnFields ==
  ASSUME NEW c, CallShape(c), NEW copy, NEW cur, NEW st
  PROVE  LET d == CopyOn(c, copy, cur, st) IN
         /\ CallShape(d) /\ d.phase = c.phase /\ d.req = c.req /\ d.stack = st
         /\ d.cur = cur /\ d.depth = c.depth /\ d.result = c.result /\ d.copy = copy
<1> DEFINE d == CopyOn(c, copy, cur, st)
<1>1. d = [c EXCEPT !.copy = copy, !.cur = cur, !.stack = st]
  BY DEF CopyOn
<1> HIDE DEF d
<1>2. /\ CallShape(d) /\ d.phase = c.phase /\ d.req = c.req /\ d.stack = st
      /\ d.cur = cur /\ d.depth = c.depth /\ d.result = c.result /\ d.copy = copy
  BY <1>1 DEF CallShape
<1> QED BY <1>2 DEF d

\* What is to be done is taken from the front.
LEMMA TodoTaken ==
  ASSUME NEW c, NEW s \in Seq(NodeRefs),
         c.cur = (IF s = <<>> THEN nil ELSE Head(s)),
         c.stack = (IF s = <<>> THEN <<>> ELSE Tail(s))
  PROVE  /\ Pending(c) = Members(s) /\ c.stack \in Seq(NodeRefs)
         /\ c.cur = nil => c.stack = <<>>
<1>1. CASE s = <<>>
  <2>1. c.cur = nil /\ c.stack = <<>> /\ Members(c.stack) = {} /\ Members(s) = {}
    BY <1>1, MembersOf
  <2>2. ({c.cur} \cup Members(c.stack)) \ {nil} = Members(s)
    BY ONLY <2>1
  <2>3. Pending(c) = Members(s)
    BY ONLY <2>2 DEF Pending
  <2>4. <<>> \in Seq(NodeRefs)
    OBVIOUS
  <2> QED BY ONLY <2>1, <2>3, <2>4
<1>2. CASE s # <<>>
  <2>1. c.cur = Head(s) /\ c.stack = Tail(s)
    BY <1>2
  <2>2. Members(s) = {c.cur} \cup Members(c.stack) /\ c.stack \in Seq(NodeRefs)
    BY <1>2, <2>1, MembersOf
  <2>3. nil \notin Members(s)
    BY MembersOf
  <2>4. c.cur # nil /\ ({c.cur} \cup Members(c.stack)) \ {nil} = Members(s)
    BY <2>2, <2>3
  <2>5. Pending(c) = Members(s)
    BY ONLY <2>4 DEF Pending
  <2> QED BY ONLY <2>2, <2>4, <2>5
<1> QED BY <1>1, <1>2

\* Clone copies a node.
LEMMA CloneStepStep ==
  ASSUME TreeInv, NEW p \in Procs, CloneStep(p)
  PROVE  TreeInv' /\ UNCHANGED SM!smVars
<1> DEFINE c == call[p]
           r == c.cur
           K == DOMAIN leaves
           S == Members(c.stack)
           todo == Kids(r) \o c.stack
           copy == Cloned(c.copy, r)
           cur == IF todo = <<>> THEN nil ELSE Head(todo)
           st == IF todo = <<>> THEN <<>> ELSE Tail(todo)
           d == CopyOn(c, copy, cur, st)
<1>1. c.phase = "enter" /\ c.req.op = "Clone" /\ UNCHANGED tree /\ r # nil
  BY DEF CloneStep, Entered
<1>2. call' = [call EXCEPT ![p] = d]
  BY DEF CloneStep, CopyOn
<1>3. Becomes(p, d)
  BY <1>2, CallBecomes
<1>4. Whole(nodes, K, root) /\ K \in SUBSET Path /\ CallOK(c, root, size, leaves, nodes)
  BY <1>1, WholeForReaders
<1>5. size' = size /\ leaves' = leaves
  BY <1>1 DEF tree
<1>6. Linked(nodes, K, <<>>) /\ DOMAIN nodes \subseteq InnerRefs
  BY <1>4, LinkedTypes DEF Whole
<1>7. K = DOMAIN leaves /\ r = c.cur
  OBVIOUS
<1>0. cur = (IF todo = <<>> THEN nil ELSE Head(todo)) /\ st = (IF todo = <<>> THEN <<>> ELSE Tail(todo))
  OBVIOUS
<1> HIDE DEF c, K, copy, cur, st
<1>8. /\ CallShape(c) /\ c.req \in SM!Calls /\ c.result = none /\ c.depth \in Nat
      /\ Copying(c, leaves, nodes)
  BY <1>1, <1>4 DEF CallOK
<1>9. /\ CallShape(d) /\ d.phase = c.phase /\ d.req = c.req /\ d.stack = st
      /\ d.cur = cur /\ d.depth = c.depth /\ d.result = c.result /\ d.copy = copy
  BY <1>8, CopyOnFields
<1>10. c.stack \in Seq(NodeRefs) /\ Pending(c) = S \cup {r}
  <2>1. c.stack \in Seq(NodeRefs)
    BY <1>8 DEF Copying
  <2>2. nil \notin S
    BY <2>1, MembersOf
  <2> QED BY <1>1, <2>1, <2>2 DEF Pending
<1> HIDE DEF r, S, d
<1>11. Outstanding(c.copy, leaves, nodes, S \cup {r})
  BY <1>8, <1>10 DEF Copying
<1>12. Kids(r) \in Seq(NodeRefs) /\ Outstanding(copy, leaves, nodes, S \cup Members(Kids(r)))
  <2>1. Referred(nodes, K, r)
    BY <1>7, <1>11 DEF Outstanding
  <2>2. CASE r \in DOMAIN nodes
    BY <1>4, <1>6, <1>7, <1>11, <2>2, NodeCloned DEF copy
  <2>3. CASE r = Leaf(r.at) /\ LeafSlot(nodes, K, r.at, r.at)
    <3> DEFINE k == r.at
    <3>1. r = Leaf(k) /\ LeafSlot(nodes, K, k, k) /\ k \in K
      BY <2>3 DEF LeafSlot
    <3> HIDE DEF k
    <3>2. Kids(Leaf(k)) = <<>> /\ Outstanding(Cloned(c.copy, Leaf(k)), leaves, nodes, S)
      BY <1>4, <1>6, <1>7, <1>11, <3>1, LeafCloned
    <3>3. Members(Kids(r)) = {} /\ Kids(r) \in Seq(NodeRefs)
      BY <3>1, <3>2, MembersOf
    <3>4. Outstanding(copy, leaves, nodes, S)
      BY <3>1, <3>2 DEF copy
    <3>5. S \cup Members(Kids(r)) = S
      BY <3>3
    <3> QED BY ONLY <3>3, <3>4, <3>5
  <2> QED BY <2>1, <2>2, <2>3 DEF Referred
<1>13. todo \in Seq(NodeRefs) /\ Members(todo) = S \cup Members(Kids(r))
  BY <1>10, <1>12, MembersOf DEF S
<1>14. d.cur = (IF todo = <<>> THEN nil ELSE Head(todo)) /\ d.stack = (IF todo = <<>> THEN <<>> ELSE Tail(todo))
  BY <1>0, <1>9
<1> HIDE DEF todo
<1>15. /\ Pending(d) = Members(todo) /\ d.stack \in Seq(NodeRefs)
       /\ d.cur = nil => d.stack = <<>>
  BY <1>13, <1>14, TodoTaken
<1>16. Copying(d, leaves, nodes)
  BY <1>9, <1>12, <1>13, <1>15 DEF Copying
<1>17. CallOK(d, root, size, leaves, nodes)
  BY <1>1, <1>8, <1>9, <1>16 DEF CallOK
<1>18. d.phase # "return" /\ c.phase # "idle" /\ c.phase # "return"
  BY <1>1, <1>9
<1>19. Beside(p, d)
  BY <1>9, <1>18, StaysBeside DEF c
<1>20. TreeInv'
  BY <1>1, <1>3, <1>17, <1>18, <1>19, ReaderStep DEF c
<1>21. ClientOf(d, size) = ClientOf(c, size)
  BY <1>1, <1>9, ClientPhases
<1>22. UNCHANGED SM!smVars
  BY <1>3, <1>5, <1>18, <1>21, Unseen DEF c
<1> QED BY <1>20, <1>22

\* Clone returns when nothing is left to copy: the copy is the tree.
LEMMA CloneFinishStep ==
  ASSUME TreeInv, NEW p \in Procs, CloneFinish(p)
  PROVE  TreeInv' /\ SM!SMApply(p)
<1> DEFINE c == call[p]
           t == [root |-> root, size |-> size,
                 leaves |-> c.copy.leaves, nodes |-> c.copy.nodes]
           d == Ending(c.req, t)
<1>1. c.phase = "enter" /\ c.req.op = "Clone" /\ UNCHANGED tree /\ c.cur = nil /\ Done(p, t)
  BY DEF CloneFinish, Entered
<1>2. Becomes(p, d)
  BY <1>1, CallBecomes DEF Done, Ending
<1>3. CallShape(d) /\ d.phase = "done" /\ d.req = c.req /\ d.depth = 0 /\ d.result = t
  BY EndingFields
<1>4. /\ Whole(nodes, DOMAIN leaves, root) /\ IsMap(nodes) /\ LeavesOK(leaves, size)
      /\ DOMAIN leaves \in SUBSET Path /\ CallOK(c, root, size, leaves, nodes)
  BY <1>1, WholeForReaders
<1>5. size' = size /\ leaves' = leaves
  BY <1>1 DEF tree
<1>0. t.root = root /\ t.size = size /\ t.leaves = c.copy.leaves /\ t.nodes = c.copy.nodes
  OBVIOUS
<1> HIDE DEF c, d, t
<1>6. c.req \in SM!Calls /\ Copying(c, leaves, nodes)
  BY <1>1, <1>4 DEF CallOK
<1>7. Pending(c) = {}
  <2>1. c.stack = <<>>
    BY <1>1, <1>6 DEF Copying
  <2>2. Members(c.stack) = {}
    BY <2>1, MembersOf
  <2> QED BY <1>1, <2>2 DEF Pending
<1>8. c.copy.leaves = leaves /\ c.copy.nodes = nodes
  <2>1. SubMap(c.copy.leaves, leaves) /\ DOMAIN leaves \subseteq DOMAIN c.copy.leaves
    BY <1>6, <1>7 DEF Copying, Outstanding
  <2>2. SubMap(c.copy.nodes, nodes) /\ DOMAIN nodes \subseteq DOMAIN c.copy.nodes
    BY <1>6, <1>7 DEF Copying, Outstanding
  <2>3. IsMap(leaves) /\ IsMap(nodes)
    BY <1>4 DEF LeavesOK
  <2> QED BY <2>1, <2>2, <2>3 DEF SubMap, IsMap
<1>9. t.root = root /\ t.size = size /\ t.leaves = leaves /\ t.nodes = nodes
  BY <1>0, <1>8
<1>10. Snapshot(t)
  BY <1>4, <1>9 DEF Snapshot, LeavesOK
<1>11. CallOK(d, root, size, leaves, nodes)
  BY <1>1, <1>3, <1>6, <1>10 DEF CallOK
<1>12. d.phase # "return" /\ c.phase # "idle" /\ c.phase # "return"
  BY <1>1, <1>3
<1>13. Beside(p, d)
  BY <1>3, <1>12, StaysBeside DEF c
<1>14. TreeInv'
  BY <1>1, <1>2, <1>11, <1>12, <1>13, ReaderStep DEF c
<1>15. leaves = SM!Answered(c.req)
  BY <1>1 DEF SM!Answered
<1>16. ClientOf(d, size') = Seen("applied", c.req, SM!Answered(c.req))
  BY <1>1, <1>3, <1>9, <1>15, ClientPhases
<1>17. leaves' = SM!Effect(c.req)
  BY <1>1, <1>5 DEF SM!Effect
<1>18. SM!SMApply(p)
  BY <1>1, <1>2, <1>5, <1>16, <1>17, TakesEffect DEF c
<1> QED BY <1>14, <1>18

-----------------------------------------------------------------------------
(***************************************************************************)
(* Calls begin and return.                                                 *)
(***************************************************************************)
\* A call as it begins.
Starting(req, top, n) == [Idle EXCEPT !.phase = "enter", !.req = req, !.cur = top, !.before = n]

\* The fields of a call that begins.
LEMMA StartingFields ==
  ASSUME NEW req, NEW top, NEW n
  PROVE  LET d == Starting(req, top, n) IN
         /\ CallShape(d) /\ d.phase = "enter" /\ d.req = req /\ d.cur = top /\ d.depth = 0
         /\ d.stack = <<>> /\ d.before = n /\ d.copy = NoCopy /\ d.result = none
<1> DEFINE d == Starting(req, top, n)
           i == Idle
<1>1. d = [i EXCEPT !.phase = "enter", !.req = req, !.cur = top, !.before = n]
  BY DEF Starting
<1>0. /\ CallShape(i) /\ i.depth = 0 /\ i.stack = <<>> /\ i.copy = NoCopy /\ i.result = none
  BY DEF Idle, CallShape
<1> HIDE DEF d, i
<1>2. /\ CallShape(d) /\ d.phase = "enter" /\ d.req = req /\ d.cur = top /\ d.depth = 0
      /\ d.stack = <<>> /\ d.before = n /\ d.copy = NoCopy /\ d.result = none
  BY <1>0, <1>1 DEF CallShape
<1> QED BY <1>2 DEF d

\* A writer begins its descent at the root.
LEMMA DescentBegins ==
  ASSUME NEW c, c.stack = <<>>, c.cur = root, c.depth = 0, c.before = size
  PROVE  Descending(c, root, size, nodes)
<1>1. Chained(nodes, root, <<>>, c.req.key)
  BY DEF Chained
<1>2. HoleContent(nodes, root, <<>>) = root /\ HolePath(<<>>) = <<>> /\ Len(<<>>) = 0
  BY StartsOrder DEF HoleContent, HolePath
<1> QED BY <1>1, <1>2 DEF Descending

\* A search begins at the root, with nothing of its key consumed.
LEMMA SearchBegins ==
  ASSUME SlotOK(nodes, DOMAIN leaves, root, <<>>), NEW c, c.cur = root, c.depth = 0,
         c.req.key \in Path
  PROVE  Searching(c, nodes, DOMAIN leaves)
<1>1. 0 \in 0 .. Len(c.req.key) /\ Len(c.req.key) \in Nat
  BY Lengths
<1>2. Upto(c.req.key, 0) = <<>>
  <2>1. Upto(c.req.key, 0) \in Path /\ Len(Upto(c.req.key, 0)) = 0
    BY <1>1, UptoStarts
  <2> QED BY <2>1, SameString, StartsOrder
<1> QED BY <1>1, <1>2 DEF Searching

\* A copy begins with nothing, and with the root to be copied.
LEMMA CopyBegins ==
  ASSUME Whole(nodes, DOMAIN leaves, root), DOMAIN leaves \in SUBSET Path,
         NEW c, c.cur = root, c.stack = <<>>, c.copy = NoCopy
  PROVE  Copying(c, leaves, nodes)
<1> DEFINE K == DOMAIN leaves
<1>1. /\ SlotOK(nodes, K, root, <<>>) /\ DOMAIN nodes \subseteq InnerRefs /\ <<>> \in Path
      /\ \A q \in Path : Starts(<<>>, q)
  BY LinkedTypes, StartsOrder DEF Whole
<1>2. Pending(c) = {root} \ {nil}
  <2>1. Members(c.stack) = {}
    BY MembersOf
  <2> QED BY <2>1 DEF Pending
<1>3. /\ NoCopy = [leaves |-> NoCopy.leaves, nodes |-> NoCopy.nodes]
      /\ NoCopy.leaves = Empty /\ NoCopy.nodes = Empty
  BY DEF NoCopy
<1>4. SubMap(Empty, leaves) /\ SubMap(Empty, nodes) /\ DOMAIN Empty = {}
  BY NothingWhole DEF SubMap
<1>5. \A r \in DOMAIN nodes : r.at \in Path
  BY <1>1, RefKinds
<1>6. CASE root = nil
  <2>1. EmptySlot(nodes, K, <<>>)
    BY <1>1, <1>6, SlotKinds
  <2>2. K = {} /\ DOMAIN nodes = {}
    BY <1>1, <1>5, <2>1 DEF EmptySlot
  <2>3. Outstanding(NoCopy, leaves, nodes, {})
    BY <1>3, <1>4, <2>2 DEF Outstanding
  <2>4. Pending(c) = {} /\ c.copy = NoCopy /\ c.stack = <<>> /\ <<>> \in Seq(NodeRefs)
    BY <1>2, <1>6
  <2> QED BY ONLY <2>3, <2>4 DEF Copying
<1>7. CASE root # nil
  <2>1. /\ Referred(nodes, K, root)
        /\ \A k \in K : Starts(<<>>, k) => Starts(root.at, k)
        /\ \A s \in DOMAIN nodes : Starts(<<>>, s.at) => Starts(root.at, s.at)
    BY <1>1, <1>7, SlotReferred
  <2>2. Outstanding(NoCopy, leaves, nodes, {root})
    BY <1>1, <1>3, <1>4, <1>5, <2>1 DEF Outstanding
  <2>3. Pending(c) = {root} /\ c.copy = NoCopy /\ c.stack = <<>> /\ <<>> \in Seq(NodeRefs)
    BY <1>2, <1>7
  <2> QED BY ONLY <2>2, <2>3 DEF Copying
<1> QED BY <1>6, <1>7

\* While the tree does not change, the others see nothing of a call.
LEMMA OnlyCaller ==
  ASSUME TreeInv, NEW p \in Procs, NEW c, Becomes(p, c), size' = size
  PROVE  TreeClient' = [TreeClient EXCEPT ![p] = ClientOf(c, size)]
<1>1. \A q \in Procs \ {p} : ClientOf(call'[q], size') = ClientOf(call[q], size)
  BY DEF Becomes
<1>2. call'[p] = c
  BY DEF Becomes
<1> QED BY <1>1, <1>2, Clients

\* A permitted call begins.
LEMMA BeginStep ==
  ASSUME TreeInv, NEW p \in Procs, NEW req \in SM!Calls, Permitted(p, req), Begin(p, req)
  PROVE  TreeInv' /\ SM!SMCall(p, req)
<1> DEFINE c == call[p]
           d == Starting(req, root, size)
<1>1. c.phase = "idle" /\ UNCHANGED tree
  BY DEF Begin
<1>2. Becomes(p, d)
  BY CallBecomes DEF Begin, Starting
<1>3. /\ CallShape(d) /\ d.phase = "enter" /\ d.req = req /\ d.cur = root /\ d.depth = 0
      /\ d.stack = <<>> /\ d.before = size /\ d.copy = NoCopy /\ d.result = none
  BY StartingFields
<1>4. c = Idle
  BY <1>1 DEF TreeInv, CallOK
<1>5. size' = size /\ leaves' = leaves
  BY <1>1 DEF tree
<1> HIDE DEF c, d
<1>6. Whole(nodes, DOMAIN leaves, root)
  <2>1. ASSUME NEW q \in Procs, call[q].phase = "return"
        PROVE  FALSE
    <3>1. call[q].req.op \in SM!Writers
      BY <2>1, WayBack
    <3> QED BY <2>1, <3>1 DEF Permitted
  <2> QED BY <2>1 DEF TreeInv, Returning
<1>7. DOMAIN leaves \in SUBSET Path
  BY KeysAssumption DEF TreeInv, HeapOK, LeavesOK, Path
<1>8. req.op \in {"Put", "Delete"} => Descending(d, root, size, nodes)
  BY <1>3, DescentBegins
<1>9. req.op = "Get" => Searching(d, nodes, DOMAIN leaves)
  <2>1. SlotOK(nodes, DOMAIN leaves, root, <<>>)
    BY <1>6 DEF Whole
  <2>2. req.op = "Get" => d.req.key \in Path
    BY <1>3, RequestTypes
  <2> QED BY <1>3, <2>1, <2>2, SearchBegins
<1>10. Copying(d, leaves, nodes)
  BY <1>3, <1>6, <1>7, CopyBegins
<1>11. CallOK(d, root, size, leaves, nodes)
  BY <1>3, <1>8, <1>9, <1>10 DEF CallOK
<1>12. Beside(p, d)
  BY <1>3 DEF Permitted, Beside
<1>13. TreeInv'
  BY <1>1, <1>2, <1>3, <1>11, <1>12, ReaderStep DEF c
<1>14. SM!SMCall(p, req)
  <2>1. ClientOf(d, size) = [phase |-> "pending", req |-> req, result |-> none]
    BY <1>3, ClientPhases DEF Seen
  <2>2. TreeClient[p] = SM!IdleClient
    <3>1. ClientOf(c, size) = SM!IdleClient
      BY <1>4, ClientPhases
    <3> QED BY <3>1, Clients DEF c
  <2>3. TreeClient' = [TreeClient EXCEPT ![p] = ClientOf(d, size)]
    BY <1>2, <1>5, OnlyCaller
  <2>4. TreeClient[p].phase = "idle"
    BY <2>2 DEF SM!IdleClient
  <2> QED BY <1>5, <2>1, <2>3, <2>4 DEF SM!SMCall
<1> QED BY <1>13, <1>14

\* A call returns to its caller.
LEMMA ReturnStep ==
  ASSUME TreeInv, NEW p \in Procs, Return(p)
  PROVE  TreeInv' /\ SM!SMReturn(p)
<1>1. call[p].phase = "done" /\ call' = [call EXCEPT ![p] = Idle] /\ UNCHANGED tree
  BY DEF Return
<1>2. Becomes(p, Idle)
  BY <1>1, CallBecomes
<1>3. Idle.phase = "idle"
  BY DEF Idle
<1>4. size' = size /\ leaves' = leaves
  BY <1>1 DEF tree
<1>5. TreeInv'
  <2>1. Beside(p, Idle)
    BY <1>3 DEF Beside
  <2> QED BY <1>1, <1>2, <1>3, <2>1, IdleOK, ReaderStep
<1>6. SM!SMReturn(p)
  <2>1. TreeClient' = [TreeClient EXCEPT ![p] = ClientOf(Idle, size)]
    BY <1>2, <1>4, OnlyCaller
  <2>2. ClientOf(Idle, size) = SM!IdleClient
    BY ClientPhases
  <2>3. TreeClient[p].phase = "applied"
    <3>1. ClientOf(call[p], size).phase = "applied"
      BY <1>1, ClientPhases DEF Seen
    <3> QED BY <3>1, Clients
  <2> QED BY <1>4, <2>1, <2>2, <2>3 DEF SM!SMReturn
<1> QED BY <1>5, <1>6
-----------------------------------------------------------------------------
(***************************************************************************)
(* The theorems.                                                           *)
(***************************************************************************)
\* The empty tree of a new Tree is whole, and holds the empty map.
LEMMA InitInv == Init => TreeInv /\ SM!SMInit
<1> SUFFICES ASSUME Init
             PROVE  TreeInv /\ SM!SMInit
  OBVIOUS
<1>1. /\ root = nil /\ size = 0 /\ leaves = Empty /\ nodes = Empty
      /\ call = [p \in Procs |-> Idle]
  BY DEF Init
<1>2. \A p \in Procs : call[p] = Idle /\ call[p].phase = "idle"
  BY <1>1 DEF Idle
<1>3. IsMap(call) /\ DOMAIN call = Procs
  BY <1>1 DEF IsMap
<1>4. \A p \in Procs : CallOK(call[p], root, size, leaves, nodes)
  BY <1>2, IdleOK
<1>5. HeapOK(root, size, leaves, nodes) /\ Whole(nodes, DOMAIN leaves, root)
  BY <1>1, NothingWhole DEF HeapOK
<1>6. TreeInv
  BY <1>2, <1>3, <1>4, <1>5 DEF TreeInv, Exclusive
<1>7. TreeClient = [p \in Procs |-> SM!IdleClient]
  <2>1. \A p \in Procs : ClientOf(call[p], size) = SM!IdleClient
    BY <1>2, ClientPhases
  <2> QED BY <2>1, Clients
<1>8. SM!SMInit
  BY <1>1, <1>7 DEF SM!SMInit, SM!Empty, Empty
<1> QED BY <1>6, <1>8

\* A step inside a call lets the call take effect, or is seen by nobody.
LEMMA StepInv ==
  ASSUME TreeInv, NEW p \in Procs, Step(p)
  PROVE  TreeInv' /\ (SM!SMApply(p) \/ UNCHANGED SM!smVars)
<1>1. CASE PutNil(p)
  BY <1>1, PutNilStep
<1>2. CASE PutLeaf(p)
  BY <1>2, PutLeafStep
<1>3. CASE PutSplit(p)
  BY <1>3, PutSplitStep
<1>4. CASE PutTerminal(p)
  BY <1>4, PutTerminalStep
<1>5. CASE PutAbsent(p)
  BY <1>5, PutAbsentStep
<1>6. CASE PutBesideLeaf(p)
  BY <1>6, PutBesideLeafStep
<1>7. CASE PutRecurse(p)
  BY <1>7, PutRecurseStep
<1>8. CASE PutResume(p)
  BY <1>8, PutResumeStep
<1>9. CASE PutFinish(p)
  BY <1>9, PutFinishStep
<1>10. CASE GetEnd(p)
  BY <1>10, GetEndStep
<1>11. CASE GetStep(p)
  BY <1>11, GetStepStep
<1>12. CASE DeleteLeaf(p)
  BY <1>12, DeleteLeafStep
<1>13. CASE DeleteTerminal(p)
  BY <1>13, DeleteTerminalStep
<1>14. CASE DeleteMiss(p)
  BY <1>14, DeleteMissStep
<1>15. CASE DeleteRecurse(p)
  BY <1>15, DeleteRecurseStep
<1>16. CASE DeleteResume(p)
  BY <1>16, DeleteResumeStep
<1>17. CASE DeleteFinish(p)
  BY <1>17, DeleteFinishStep
<1>18. CASE LenStep(p)
  BY <1>18, LenStepStep
<1>19. CASE ClearStep(p)
  BY <1>19, ClearStepStep
<1>20. CASE CloneStep(p)
  BY <1>20, CloneStepStep
<1>21. CASE CloneFinish(p)
  BY <1>21, CloneFinishStep
<1> QED BY <1>1, <1>2, <1>3, <1>4, <1>5, <1>6, <1>7, <1>8, <1>9, <1>10, <1>11,
           <1>12, <1>13, <1>14, <1>15, <1>16, <1>17, <1>18, <1>19, <1>20, <1>21 DEF Step

\* A step of the tree is a step of the sorted map, or none.
LEMMA NextInv == TreeInv /\ [Next]_vars => TreeInv' /\ [SM!SMNext]_SM!smVars
<1> SUFFICES ASSUME TreeInv, [Next]_vars
             PROVE  TreeInv' /\ [SM!SMNext]_SM!smVars
  OBVIOUS
<1>1. CASE UNCHANGED vars
  <2>1. root' = root /\ size' = size /\ leaves' = leaves /\ nodes' = nodes /\ call' = call
    BY <1>1 DEF vars
  <2>2. TreeInv'
    BY <2>1 DEF TreeInv, Exclusive, Returning
  <2>3. UNCHANGED SM!smVars
    BY <2>1, Clients DEF SM!smVars
  <2> QED BY <2>2, <2>3
<1>2. ASSUME NEW p \in Procs, NEW req \in SM!Calls, Permitted(p, req), Begin(p, req)
      PROVE  TreeInv' /\ [SM!SMNext]_SM!smVars
  BY <1>2, BeginStep DEF SM!SMNext
<1>3. ASSUME NEW p \in Procs, Return(p)
      PROVE  TreeInv' /\ [SM!SMNext]_SM!smVars
  BY <1>3, ReturnStep DEF SM!SMNext
<1>4. ASSUME NEW p \in Procs, Step(p)
      PROVE  TreeInv' /\ [SM!SMNext]_SM!smVars
  BY <1>4, StepInv DEF SM!SMNext
<1> QED BY <1>1, <1>2, <1>3, <1>4 DEF Next

\* TreeInv is inductive: every slot holds what the keys and nodes behind it ask
\* for, but the one that a frame on its way back has still to fill.
THEOREM TreeInvariant == Spec => []TreeInv
<1>1. Init => TreeInv
  BY InitInv
<1>2. TreeInv /\ [Next]_vars => TreeInv'
  BY NextInv
<1> QED BY <1>1, <1>2, PTL DEF Spec

\* Tree implements the sorted map: every call takes effect at one instant between
\* its start and its return, with the answer of the map at that instant, whatever
\* other permitted calls are under way.
THEOREM TreeIsSortedMap == Spec => ImplementsSortedMap
<1>1. Init => SM!SMInit
  BY InitInv
<1>2. TreeInv /\ [Next]_vars => [SM!SMNext]_SM!smVars
  BY NextInv
<1> QED BY <1>1, <1>2, TreeInvariant, PTL DEF Spec, ImplementsSortedMap, SM!SMSpec

\* Len is exact at every instant, also in the middle of Put, Delete and Clear.
THEOREM SizeExact == Spec => []SizeIsLeafCount
<1>1. TreeInv => SizeIsLeafCount
  BY DEF TreeInv, HeapOK, LeavesOK, SizeIsLeafCount
<1> QED BY <1>1, TreeInvariant, PTL

\* The panic of newNode4With cannot be reached, whatever keys are put and deleted.
THEOREM NoPanics == Spec => []NoPanic
<1>1. TreeInv => NoPanic
  BY DEF TreeInv, CallOK, NoPanic
<1> QED BY <1>1, TreeInvariant, PTL

\* The tree is the one its set of keys determines, whatever sequence of calls led
\* there.
THEOREM History == Spec => []HistoryIndependent
<1>1. TreeInv => HistoryIndependent
  <2> SUFFICES ASSUME TreeInv, ~ Writing
               PROVE  root = Top(DOMAIN leaves, <<>>) /\ nodes = ShapeOf(DOMAIN leaves)
    BY DEF HistoryIndependent
  <2>1. ASSUME NEW p \in Procs, call[p].phase = "return"
        PROVE  FALSE
    <3>1. call[p].req.op \in SM!Writers
      BY <2>1, WayBack
    <3> QED BY <2>1, <3>1 DEF Writing
  <2>2. Whole(nodes, DOMAIN leaves, root)
    BY <2>1 DEF TreeInv, Returning
  <2>3. DOMAIN leaves \in SUBSET Path /\ IsMap(nodes)
    BY KeysAssumption DEF TreeInv, HeapOK, LeavesOK, Path
  <2> QED BY <2>2, <2>3, WholeIsShape
<1> QED BY <1>1, TreeInvariant, PTL

\* A finished Clone is a whole tree, whatever readers ran beside it.
THEOREM ClonesWhole == Spec => []CloneIsWhole
<1>1. TreeInv => CloneIsWhole
  <2> SUFFICES ASSUME TreeInv, NEW p \in Procs, call[p].phase = "done", call[p].req.op = "Clone"
               PROVE  LET t == call[p].result
                          K == DOMAIN t.leaves
                      IN  /\ t.root = Top(K, <<>>) /\ t.nodes = ShapeOf(K)
                          /\ t.size = Cardinality(K)
    BY DEF CloneIsWhole
  <2> DEFINE t == call[p].result
  <2>1. Snapshot(t)
    BY DEF TreeInv, CallOK
  <2> HIDE DEF t
  <2>2. /\ t.root = Top(DOMAIN t.leaves, <<>>) /\ t.nodes = ShapeOf(DOMAIN t.leaves)
        /\ t.size = Cardinality(DOMAIN t.leaves)
    BY <2>1, WholeIsShape DEF Snapshot
  <2> QED BY <2>2 DEF t
<1> QED BY <1>1, TreeInvariant, PTL

\* The fields of Tree, of its nodes and of its frames have their types, and no
\* count goes below zero.
THEOREM TypesOK == Spec => []TypeOK
<1>1. TreeInv => TypeOK
  <2> SUFFICES ASSUME TreeInv
               PROVE  TypeOK
    OBVIOUS
  <2>1. LeavesOK(leaves, size) /\ (root = nil \/ root.at \in Seq(Byte))
    BY DEF TreeInv, HeapOK, Path
  <2>2. \E hole : Linked(nodes, DOMAIN leaves, hole)
    <3>1. CASE Returning
      <4>1. PICK p \in Procs : call[p].phase = "return"
        BY <3>1 DEF Returning
      <4>2. Ascending(call[p], root, nodes, DOMAIN leaves)
        BY <4>1, WayBack
      <4> QED BY <4>2 DEF Ascending
    <3>2. CASE ~ Returning
      BY <3>2 DEF TreeInv, Whole
    <3> QED BY <3>1, <3>2
  <2>3. \A r \in DOMAIN nodes :
          /\ r.kind \in InnerKinds /\ nodes[r].prefix \in Seq(Byte)
          /\ DOMAIN nodes[r].children \subseteq Byte
    BY <2>2, RefKinds DEF Linked, NodeOK, Path
  <2>4. size \in Nat
    BY <2>1, FS_CardinalityType DEF LeavesOK
  <2>5. \A p \in Procs : /\ call[p].phase \in {"idle", "enter", "return", "done"}
                         /\ call[p].depth \in Nat
    BY DEF TreeInv, CallOK
  <2> QED BY <2>1, <2>3, <2>4, <2>5 DEF TypeOK, LeavesOK
<1> QED BY <1>1, TreeInvariant, PTL
=============================================================================
