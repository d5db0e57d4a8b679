-------------------------- MODULE TreeShapeProofs --------------------------
(***************************************************************************)
(* Facts about byte strings, and about heaps of nodes that hold a tree.    *)
(***************************************************************************)
EXTENDS TreeShape, NodeKindsProofs

\* Keys and the paths of nodes are byte strings.
Path == Seq(Byte)
-----------------------------------------------------------------------------
(***************************************************************************)
(* Byte strings.  Starts is a partial order in which the prefixes of one   *)
(* string are comparable; the other operators are reduced to it.           *)
(***************************************************************************)
LEMMA Lengths ==
  ASSUME NEW k \in Path
  PROVE  /\ Len(k) \in Nat /\ DOMAIN k = 1 .. Len(k)
         /\ \A i \in 1 .. Len(k) : k[i] \in Byte
  BY DEF Path

\* What SubSeq cuts out of a string.
LEMMA SubStrings ==
  ASSUME NEW k \in Path, NEW m \in Nat, NEW n \in 0 .. Len(k), m >= 1
  PROVE  /\ SubSeq(k, m, n) \in Path
         /\ Len(SubSeq(k, m, n)) = IF m <= n THEN n - m + 1 ELSE 0
         /\ \A i \in 1 .. n - m + 1 : SubSeq(k, m, n)[i] = k[m + i - 1]
  BY DEF Path

\* Strings are equal that have the same bytes.
LEMMA SameString ==
  ASSUME NEW p \in Path, NEW q \in Path, Len(p) = Len(q),
         \A i \in 1 .. Len(p) : p[i] = q[i]
  PROVE  p = q
  BY DEF Path

\* Starts compares byte by byte.
LEMMA StartsBytewise ==
  ASSUME NEW p \in Path, NEW q \in Path
  PROVE  Starts(p, q) <=> Len(p) <= Len(q) /\ \A i \in 1 .. Len(p) : p[i] = q[i]
<1>1. CASE Len(p) <= Len(q)
  <2>1. /\ SubSeq(q, 1, Len(p)) \in Path /\ Len(SubSeq(q, 1, Len(p))) = Len(p)
        /\ \A i \in 1 .. Len(p) : SubSeq(q, 1, Len(p))[i] = q[i]
    BY <1>1, Lengths, SubStrings
  <2>2. (\A i \in 1 .. Len(p) : p[i] = q[i]) => SubSeq(q, 1, Len(p)) = p
    BY <2>1, SameString
  <2> QED BY <1>1, <2>1, <2>2 DEF Starts
<1> QED BY <1>1 DEF Starts

\* Starts is a partial order with the empty string at its bottom, in which the
\* starts of one string form a chain.
LEMMA StartsOrder ==
  /\ <<>> \in Path /\ Len(<<>>) = 0
  /\ \A k \in Path : Starts(<<>>, k) /\ Starts(k, k)
  /\ \A p, q, k \in Path : Starts(p, q) /\ Starts(q, k) => Starts(p, k)
  /\ \A p, q \in Path : Starts(p, q) => Len(p) <= Len(q)
  /\ \A p, q \in Path : Starts(p, q) /\ Len(p) = Len(q) => p = q
  /\ \A p, q, k \in Path :
       Starts(p, k) /\ Starts(q, k) /\ Len(p) <= Len(q) => Starts(p, q)
<1>1. <<>> \in Path /\ Len(<<>>) = 0
  BY DEF Path
<1>2. \A k \in Path : Starts(<<>>, k) /\ Starts(k, k)
  BY <1>1, StartsBytewise, Lengths
<1>3. \A p, q, k \in Path : Starts(p, q) /\ Starts(q, k) => Starts(p, k)
  BY StartsBytewise, Lengths
<1>4. \A p, q \in Path : Starts(p, q) => Len(p) <= Len(q)
  BY DEF Starts
<1>5. \A p, q \in Path : Starts(p, q) /\ Len(p) = Len(q) => p = q
  BY StartsBytewise, SameString
<1>6. \A p, q, k \in Path :
       Starts(p, k) /\ Starts(q, k) /\ Len(p) <= Len(q) => Starts(p, q)
  BY StartsBytewise, Lengths
<1> QED BY <1>1, <1>2, <1>3, <1>4, <1>5, <1>6

\* A string starts with an edge when it starts with the node and goes on with the
\* byte of the edge.
LEMMA AppendStarts ==
  ASSUME NEW p \in Path, NEW b \in Byte
  PROVE  /\ Append(p, b) \in Path /\ Len(Append(p, b)) = Len(p) + 1
         /\ Append(p, b)[Len(p) + 1] = b
         /\ Starts(p, Append(p, b)) /\ Append(p, b) # <<>>
         /\ \A k \in Path : Starts(Append(p, b), k) <=>
              Starts(p, k) /\ Len(p) < Len(k) /\ k[Len(p) + 1] = b
<1>1. /\ Append(p, b) \in Path /\ Len(Append(p, b)) = Len(p) + 1
      /\ Append(p, b)[Len(p) + 1] = b
      /\ \A i \in 1 .. Len(p) : Append(p, b)[i] = p[i]
  BY DEF Path
<1>2. Len(p) \in Nat
  BY Lengths
<1> DEFINE s == Append(p, b)
<1> HIDE DEF s
<1>0. /\ s \in Path /\ Len(s) = Len(p) + 1 /\ s[Len(p) + 1] = b
      /\ \A i \in 1 .. Len(p) : p[i] = s[i]
  BY <1>1 DEF s
<1>3. Starts(p, s)
  BY <1>0, <1>2, StartsBytewise
<1>4. ASSUME NEW k \in Path
      PROVE  Starts(s, k) <=>
               Starts(p, k) /\ Len(p) < Len(k) /\ k[Len(p) + 1] = b
  <2>1. Len(k) \in Nat
    BY Lengths
  <2>2. Starts(s, k) <=> Len(p) + 1 <= Len(k) /\ \A i \in 1 .. Len(p) + 1 : s[i] = k[i]
    BY <1>0, StartsBytewise
  <2>3. Starts(p, k) <=> Len(p) <= Len(k) /\ \A i \in 1 .. Len(p) : p[i] = k[i]
    BY StartsBytewise
  <2>4. \A i \in 1 .. Len(p) + 1 : i \in 1 .. Len(p) \/ i = Len(p) + 1
    BY <1>2
  <2> QED BY <1>0, <1>2, <2>1, <2>2, <2>3, <2>4
<1>5. Append(p, b) # <<>>
  BY <1>1, <1>2, StartsOrder
<1> QED BY <1>1, <1>3, <1>4, <1>5 DEF s

\* The start of a string of a given length.
LEMMA UptoStarts ==
  ASSUME NEW k \in Path, NEW i \in 0 .. Len(k)
  PROVE  Upto(k, i) \in Path /\ Len(Upto(k, i)) = i /\ Starts(Upto(k, i), k)
<1>1. /\ Upto(k, i) \in Path /\ Len(Upto(k, i)) = i
      /\ \A j \in 1 .. i : Upto(k, i)[j] = k[j]
  <2>1. Len(k) \in Nat /\ i \in Nat
    BY Lengths
  <2>2. /\ SubSeq(k, 1, i) \in Path
        /\ Len(SubSeq(k, 1, i)) = IF 1 <= i THEN i - 1 + 1 ELSE 0
        /\ \A j \in 1 .. i - 1 + 1 : SubSeq(k, 1, i)[j] = k[1 + j - 1]
    <3>1. 1 \in Nat /\ 1 >= 1 /\ i \in 0 .. Len(k)
      BY <2>1
    <3> QED BY <3>1, SubStrings
  <2> QED BY <2>1, <2>2 DEF Upto
<1> QED BY <1>1, StartsBytewise, Lengths

\* A start is the start of its length.
LEMMA UptoOfStart ==
  ASSUME NEW k \in Path, NEW p \in Path, Starts(p, k)
  PROVE  Upto(k, Len(p)) = p
  BY DEF Starts, Upto

\* The rest of a string after its first bytes.
LEMMA FromBytes ==
  ASSUME NEW k \in Path, NEW i \in 0 .. Len(k)
  PROVE  /\ From(k, i) \in Path /\ Len(From(k, i)) = Len(k) - i
         /\ \A j \in 1 .. Len(k) - i : From(k, i)[j] = k[i + j]
<1>1. /\ From(k, i) \in Path
      /\ Len(From(k, i)) = IF i + 1 <= Len(k) THEN Len(k) - (i + 1) + 1 ELSE 0
      /\ \A j \in 1 .. Len(k) - (i + 1) + 1 : From(k, i)[j] = k[i + 1 + j - 1]
  BY Lengths, SubStrings DEF From
<1> QED BY <1>1, Lengths

\* The comparison of a prefix with a key, which Get and Delete make, asks whether
\* the key starts with the path of the node.
LEMMA ConsumesIff ==
  ASSUME NEW path \in Path, NEW at \in Path, NEW key \in Path,
         Starts(path, at), Starts(path, key)
  PROVE  /\ Consumes(From(at, Len(path)), key, Len(path)) <=> Starts(at, key)
         /\ Len(path) + Len(From(at, Len(path))) = Len(at)
<1> DEFINE d == Len(path)
<1>1. d \in 0 .. Len(at) /\ d \in 0 .. Len(key) /\ Len(at) \in Nat /\ Len(key) \in Nat
  BY StartsOrder, Lengths
<1>2. /\ From(at, d) \in Path /\ Len(From(at, d)) = Len(at) - d
      /\ \A j \in 1 .. Len(at) - d : From(at, d)[j] = at[d + j]
      /\ From(key, d) \in Path /\ Len(From(key, d)) = Len(key) - d
      /\ \A j \in 1 .. Len(key) - d : From(key, d)[j] = key[d + j]
  BY <1>1, FromBytes
<1>3. \A j \in 1 .. d : at[j] = key[j]
  BY StartsBytewise
<1>4. Starts(From(at, d), From(key, d)) <=>
        Len(at) <= Len(key) /\ \A j \in 1 .. Len(at) - d : at[d + j] = key[d + j]
  <2>1. Starts(From(at, d), From(key, d)) <=>
          /\ Len(at) - d <= Len(key) - d
          /\ \A j \in 1 .. Len(at) - d : From(at, d)[j] = From(key, d)[j]
    BY <1>2, StartsBytewise
  <2>2. ASSUME Len(at) - d <= Len(key) - d
        PROVE  \A j \in 1 .. Len(at) - d : j \in 1 .. Len(key) - d
    BY <1>1, <2>2
  <2> QED BY <1>1, <1>2, <2>1, <2>2
<1>5. Starts(at, key) <=> Len(at) <= Len(key) /\ \A j \in 1 .. Len(at) : at[j] = key[j]
  BY StartsBytewise
<1>6. (\A j \in 1 .. Len(at) - d : at[d + j] = key[d + j])
        => \A j \in 1 .. Len(at) : at[j] = key[j]
  <2> SUFFICES ASSUME \A j \in 1 .. Len(at) - d : at[d + j] = key[d + j],
                      NEW j \in 1 .. Len(at)
               PROVE  at[j] = key[j]
    OBVIOUS
  <2>1. CASE j <= d
    BY <1>1, <1>3, <2>1
  <2>2. CASE j > d
    <3>1. j - d \in 1 .. Len(at) - d /\ d + (j - d) = j
      BY <1>1, <2>2
    <3> QED BY <3>1
  <2> QED BY <1>1, <2>1, <2>2
<1>7. (\A j \in 1 .. Len(at) : at[j] = key[j])
        => (\A j \in 1 .. Len(at) - d : at[d + j] = key[d + j])
  BY <1>1
<1> QED BY <1>1, <1>2, <1>4, <1>5, <1>6, <1>7 DEF Consumes

\* Two strings agree up to SharedLen and part company there, if both go on.
LEMMA SharedLenMeets ==
  ASSUME NEW a \in Path, NEW b \in Path
  PROVE  LET i == SharedLen(a, b)
         IN  /\ i \in 0 .. Len(a) /\ i <= Len(b)
             /\ \A j \in 1 .. i : a[j] = b[j]
             /\ i < Len(a) /\ i < Len(b) => a[i + 1] # b[i + 1]
<1> DEFINE Parts(i) == /\ i <= Len(b) /\ Upto(a, i) = Upto(b, i)
                       /\ i < Len(a) /\ i < Len(b) => a[i + 1] # b[i + 1]
           S == {i \in 0 .. Len(a) : i < Len(a) /\ i < Len(b) => a[i + 1] # b[i + 1]}
<1>1. Len(a) \in Nat /\ Len(b) \in Nat
  BY Lengths
<1>2. Len(a) \in S /\ S \subseteq Nat
  BY <1>1
<1>3. PICK i \in S : \A j \in S : i <= j
  BY <1>2, LeastNumber
<1>4. i <= Len(b)
  <2>1. Len(b) <= Len(a) => Len(b) \in S
    BY <1>1
  <2> QED BY <1>1, <1>2, <1>3, <2>1
<1>5. \A j \in 1 .. i : a[j] = b[j]
  <2> SUFFICES ASSUME NEW j \in 1 .. i, a[j] # b[j] PROVE FALSE
    OBVIOUS
  <2>1. j - 1 \in 0 .. Len(a) /\ (j - 1) + 1 = j /\ ~ (i <= j - 1)
    BY <1>1, <1>3
  <2>2. j - 1 \in S
    BY <2>1
  <2> QED BY <1>3, <2>1, <2>2
<1>6. i \in 0 .. Len(a)
  BY <1>3
<1>7. Upto(a, i) = Upto(b, i)
  <2>1. i \in 0 .. Len(b)
    BY <1>1, <1>4, <1>6
  <2>2. /\ SubSeq(a, 1, i) \in Path /\ Len(SubSeq(a, 1, i)) = i
        /\ \A j \in 1 .. i : SubSeq(a, 1, i)[j] = a[j]
        /\ SubSeq(b, 1, i) \in Path /\ Len(SubSeq(b, 1, i)) = i
        /\ \A j \in 1 .. i : SubSeq(b, 1, i)[j] = b[j]
    BY <1>1, <1>6, <2>1, SubStrings
  <2> QED BY <1>5, <2>2, SameString DEF Upto
<1>8. \E x \in 0 .. Len(a) : Parts(x)
  BY <1>3, <1>4, <1>6, <1>7
<1>9. SharedLen(a, b) \in 0 .. Len(a) /\ Parts(SharedLen(a, b))
  BY <1>8 DEF SharedLen
<1> DEFINE n == SharedLen(a, b)
<1> HIDE DEF n, S
<1>10. n \in 0 .. Len(a) /\ Parts(n)
  BY <1>9 DEF n
<1>11. \A j \in 1 .. n : a[j] = b[j]
  <2>1. n \in 0 .. Len(b)
    BY <1>1, <1>10
  <2>2. /\ \A j \in 1 .. n : SubSeq(a, 1, n)[j] = a[j]
        /\ \A j \in 1 .. n : SubSeq(b, 1, n)[j] = b[j]
    BY <1>1, <1>10, <2>1, SubStrings
  <2> QED BY <1>10, <2>2 DEF Upto
<1> QED BY <1>10, <1>11 DEF n

\* Two strings that begin with path go together up to a string e, and part
\* company there, if both go on.
LEMMA MeetAt ==
  ASSUME NEW path \in Path, NEW a \in Path, NEW b \in Path,
         Starts(path, a), Starts(path, b),
         NEW i, i = SharedLen(From(a, Len(path)), From(b, Len(path))),
         NEW e, e = Upto(b, Len(path) + i)
  PROVE  /\ i \in Nat /\ i <= Len(a) - Len(path) /\ i <= Len(b) - Len(path)
         /\ e \in Path /\ Len(e) = Len(path) + i /\ Len(path) + i \in 0 .. Len(b)
         /\ Starts(path, e) /\ Starts(e, a) /\ Starts(e, b)
         /\ Len(e) < Len(a) /\ Len(e) < Len(b) => a[Len(e) + 1] # b[Len(e) + 1]
<1> DEFINE d == Len(path)
           x == From(a, d)
           y == From(b, d)
<1>1. /\ d \in Nat /\ Len(a) \in Nat /\ Len(b) \in Nat /\ d <= Len(a) /\ d <= Len(b)
      /\ d \in 0 .. Len(a) /\ d \in 0 .. Len(b)
  BY Lengths, StartsOrder
<1>2. /\ x \in Path /\ Len(x) = Len(a) - d /\ \A j \in 1 .. Len(a) - d : x[j] = a[d + j]
      /\ y \in Path /\ Len(y) = Len(b) - d /\ \A j \in 1 .. Len(b) - d : y[j] = b[d + j]
  BY <1>1, FromBytes
<1> HIDE DEF d, x, y
<1>3. /\ i \in 0 .. Len(x) /\ i <= Len(y) /\ \A j \in 1 .. i : x[j] = y[j]
      /\ i < Len(x) /\ i < Len(y) => x[i + 1] # y[i + 1]
  BY <1>2, SharedLenMeets DEF d, x, y
<1>4. i \in Nat /\ i <= Len(a) - d /\ i <= Len(b) - d /\ d + i \in 0 .. Len(b)
  BY <1>1, <1>2, <1>3
<1>5. e \in Path /\ Len(e) = d + i /\ Starts(e, b)
  BY <1>4, UptoStarts DEF d
<1>6. Starts(path, e)
  BY <1>1, <1>4, <1>5, StartsOrder DEF d
<1>7. Starts(e, a)
  <2>1. ASSUME NEW j \in 1 .. d + i PROVE e[j] = a[j]
    <3>1. e[j] = b[j]
      BY <1>5, StartsBytewise
    <3>2. CASE j <= d
      <4>1. j \in 1 .. Len(path)
        BY <1>1, <3>2 DEF d
      <4> QED BY <3>1, <4>1, StartsBytewise
    <3>3. CASE j > d
      <4>1. j - d \in 1 .. i /\ d + (j - d) = j /\ j - d \in 1 .. Len(a) - d /\ j - d \in 1 .. Len(b) - d
        BY <1>1, <1>4, <3>3
      <4> QED BY <1>2, <1>3, <3>1, <4>1
    <3> QED BY <1>1, <3>2, <3>3
  <2>2. Len(e) <= Len(a)
    BY <1>1, <1>4, <1>5
  <2> QED BY <1>5, <2>1, <2>2, StartsBytewise
<1>8. ASSUME d + i < Len(a), d + i < Len(b) PROVE a[d + i + 1] # b[d + i + 1]
  <2>1. /\ i < Len(x) /\ i < Len(y) /\ i + 1 \in 1 .. Len(a) - d /\ i + 1 \in 1 .. Len(b) - d
        /\ d + (i + 1) = d + i + 1
    BY <1>1, <1>2, <1>4, <1>8
  <2> QED BY <1>2, <1>3, <2>1
<1> QED BY <1>4, <1>5, <1>6, <1>7, <1>8 DEF d

\* Strings with the same beginning and the same rest are the same.
LEMMA SameRest ==
  ASSUME NEW path \in Path, NEW a \in Path, NEW b \in Path,
         Starts(path, a), Starts(path, b), From(a, Len(path)) = From(b, Len(path))
  PROVE  a = b
<1> DEFINE d == Len(path)
<1>1. /\ d \in Nat /\ Len(a) \in Nat /\ Len(b) \in Nat
      /\ d \in 0 .. Len(a) /\ d \in 0 .. Len(b)
  BY Lengths, StartsOrder
<1> DEFINE x == From(a, d)
           y == From(b, d)
<1>4. /\ Len(x) = Len(a) - d /\ \A j \in 1 .. Len(a) - d : x[j] = a[d + j]
      /\ Len(y) = Len(b) - d /\ \A j \in 1 .. Len(b) - d : y[j] = b[d + j]
  BY <1>1, FromBytes
<1>5. x = y
  OBVIOUS
<1> HIDE DEF x, y
<1>2. Len(a) - d = Len(b) - d /\ \A j \in 1 .. Len(a) - d : a[d + j] = b[d + j]
  BY <1>4, <1>5
<1> HIDE DEF d
<1>3. ASSUME NEW j \in 1 .. Len(a) PROVE a[j] = b[j]
  <2>1. CASE j <= d
    <3>1. j \in 1 .. Len(path)
      BY <1>1, <2>1 DEF d
    <3> QED BY <3>1, StartsBytewise
  <2>2. CASE j > d
    <3>1. j - d \in 1 .. Len(a) - d /\ d + (j - d) = j
      BY <1>1, <2>2
    <3> QED BY <1>2, <3>1
  <2> QED BY <1>1, <2>1, <2>2
<1> QED BY <1>1, <1>2, <1>3, SameString

\* The bytes between two paths on one way.
LEMMA Between ==
  ASSUME NEW path \in Path, NEW e \in Path, NEW k \in Path, Starts(path, e), Starts(e, k)
  PROVE  SubSeq(k, Len(path) + 1, Len(e)) = From(e, Len(path)) /\ From(e, Len(path)) \in Path
<1> DEFINE d == Len(path)
<1>1. d \in Nat /\ Len(e) \in 0 .. Len(k) /\ d \in 0 .. Len(e) /\ Len(e) \in Nat /\ Len(k) \in Nat
  BY Lengths, StartsOrder
<1>2. /\ SubSeq(k, d + 1, Len(e)) \in Path
      /\ Len(SubSeq(k, d + 1, Len(e))) = IF d + 1 <= Len(e) THEN Len(e) - (d + 1) + 1 ELSE 0
      /\ \A j \in 1 .. Len(e) - (d + 1) + 1 : SubSeq(k, d + 1, Len(e))[j] = k[d + 1 + j - 1]
  <2>1. d + 1 \in Nat /\ d + 1 >= 1
    BY <1>1
  <2> HIDE DEF d
  <2> QED BY <1>1, <2>1, SubStrings
<1>3. /\ From(e, d) \in Path /\ Len(From(e, d)) = Len(e) - d
      /\ \A j \in 1 .. Len(e) - d : From(e, d)[j] = e[d + j]
  BY <1>1, FromBytes
<1>4. \A j \in 1 .. Len(e) - d : k[d + 1 + j - 1] = e[d + j]
  <2> SUFFICES ASSUME NEW j \in 1 .. Len(e) - d PROVE k[d + 1 + j - 1] = e[d + j]
    OBVIOUS
  <2>1. d + j \in 1 .. Len(e) /\ d + 1 + j - 1 = d + j
    BY <1>1
  <2> QED BY <2>1, StartsBytewise
<1> DEFINE x == SubSeq(k, d + 1, Len(e))
           y == From(e, d)
<1>5. Len(x) = Len(e) - d /\ \A j \in 1 .. Len(e) - d : x[j] = y[j]
  BY <1>1, <1>2, <1>3, <1>4
<1> HIDE DEF x, y, d
<1>6. x = y
  BY <1>2, <1>3, <1>5, SameString DEF x, y
<1> QED BY <1>3, <1>6 DEF x, y, d
-----------------------------------------------------------------------------
(***************************************************************************)
(* Heaps of nodes.  A slot is a place that refers to a node: the root, at  *)
(* the empty path, or the slot of an edge b of a node r, at r.at and b.    *)
(* SlotOK says of what a slot at path holds that all the keys in K and all *)
(* the nodes in the heap ns whose paths begin with path are behind it.     *)
(***************************************************************************)
InnerRefs == [kind : InnerKinds, at : Path]

\* What the slot of an edge holds.
ChildIn(ns, r, b) == IF b \in DOMAIN ns[r].children THEN ns[r].children[b] ELSE nil

\* Nothing stands behind the slot at path.
EmptySlot(ns, K, path) ==
  /\ \A k \in K : ~ Starts(path, k)
  /\ \A r \in DOMAIN ns : ~ Starts(path, r.at)

\* The leaf of key is all that stands behind the slot at path.
LeafSlot(ns, K, key, path) ==
  /\ key \in K /\ Starts(path, key)
  /\ \A k \in K : Starts(path, k) => k = key
  /\ \A r \in DOMAIN ns : ~ Starts(path, r.at)

\* The inner node c stands behind the slot at path with everything else below it,
\* and its prefix spans the bytes between.
NodeSlot(ns, K, c, path) ==
  /\ c \in DOMAIN ns /\ Starts(path, c.at)
  /\ ns[c].prefix = From(c.at, Len(path))
  /\ \A k \in K : Starts(path, k) => Starts(c.at, k)
  /\ \A r \in DOMAIN ns : Starts(path, r.at) => Starts(c.at, r.at)

\* The slot at path holds c, and rightly so.
SlotOK(ns, K, c, path) ==
  \/ c = nil /\ EmptySlot(ns, K, path)
  \/ c = Leaf(c.at) /\ LeafSlot(ns, K, c.at, path)
  \/ NodeSlot(ns, K, c, path)

\* A value that is a function, and not only applied like one.
IsMap(m) == m = [x \in DOMAIN m |-> m[x]]

\* The terminal is the leaf of the node's own path.
NodeOK(ns, K, r) ==
  /\ r \in InnerRefs
  /\ ns[r] = [prefix   |-> ns[r].prefix,
              terminal |-> IF r.at \in K THEN Leaf(r.at) ELSE nil,
              children |-> ns[r].children]
  /\ ns[r].prefix \in Path
  /\ IsMap(ns[r].children)
  /\ DOMAIN ns[r].children \subseteq Byte
  /\ \A b \in DOMAIN ns[r].children : ns[r].children[b] # nil

\* The nodes, and all their slots but the one at hole, which a call on its way
\* back is about to fill.  No slot of a node is at the empty path.
Linked(ns, K, hole) ==
  /\ \A r \in DOMAIN ns :
       /\ NodeOK(ns, K, r)
       /\ \A b \in Byte : Append(r.at, b) # hole =>
            SlotOK(ns, K, ChildIn(ns, r, b), Append(r.at, b))
  /\ \A r, s \in DOMAIN ns : r.at = s.at => r = s

\* The places of slots: the root of the tree and the edges of the nodes.
IsSlot(ns, path) ==
  path = <<>> \/ \E r \in DOMAIN ns, b \in Byte : path = Append(r.at, b)

\* A node has the type its count allows, and branches or ends a key.
Full(ns, K, r) ==
  LET n == Count(ns[r].children)
  IN  KindFits(r.kind, n) /\ n # 0 /\ (r.at \in K \/ n # 1)

\* There is a key below each node.
Inhabited(K, r) == \E k \in K : Starts(r.at, k)

\* What is kept only between the writes: no node is too large, too small or idle.
AllFull(ns, K) == \A r \in DOMAIN ns : Full(ns, K, r) /\ Inhabited(K, r)

\* A tree between two calls that write.
Whole(ns, K, top) ==
  Linked(ns, K, <<>>) /\ AllFull(ns, K) /\ SlotOK(ns, K, top, <<>>)

\* Beside the slot at path, keys and nodes are the same.
SameBeside(ns, K, ms, J, path) ==
  /\ \A k \in Path : ~ Starts(path, k) => (k \in J <=> k \in K)
  /\ \A r \in InnerRefs : ~ Starts(path, r.at) =>
       /\ r \in DOMAIN ms <=> r \in DOMAIN ns
       /\ r \in DOMAIN ns => ms[r] = ns[r]

\* The tree behind the slot at path has been rebuilt, for the keys J: c is what
\* the slot has to hold.  All nodes have the type their count allows.
Rebuilt(ns, K, ms, J, path, c) ==
  /\ IsMap(ms) /\ SameBeside(ns, K, ms, J, path)
  /\ Linked(ms, J, path) /\ AllFull(ms, J) /\ SlotOK(ms, J, c, path)
-----------------------------------------------------------------------------
\* Leaves, nodes and nil are told apart.
LEMMA RefKinds ==
  /\ \A k \in Path : Leaf(k) # nil /\ IsLeaf(Leaf(k)) /\ ~ IsInner(Leaf(k)) /\ Leaf(k).at = k
                     /\ Leaf(k) \notin InnerRefs
  /\ \A r \in InnerRefs : r # nil /\ IsInner(r) /\ ~ IsLeaf(r) /\ r.at \in Path
                          /\ r.kind \in InnerKinds
  /\ ~ IsLeaf(nil) /\ ~ IsInner(nil)
<1>1. \A k \in Path : Leaf(k) \in NodeRefs
  BY DEF Leaf, NodeRefs, Path
<1>2. \A r \in InnerRefs : r \in NodeRefs
  BY DEF NodeRefs, InnerRefs, Path
<1>3. \A k \in Path : Leaf(k) # nil /\ IsLeaf(Leaf(k)) /\ ~ IsInner(Leaf(k)) /\ Leaf(k).at = k
  BY <1>1, NilAssumption DEF Leaf, IsLeaf, IsInner
<1>4. \A r \in InnerRefs : r # nil /\ r.kind \in InnerKinds /\ r.at \in Path
  BY <1>2, NilAssumption DEF InnerRefs
<1>5. \A kind \in InnerKinds : kind # "leaf"
  BY DEF InnerKinds
<1> QED BY <1>3, <1>4, <1>5 DEF IsLeaf, IsInner, Leaf

\* The three things a slot can hold.
LEMMA SlotKinds ==
  ASSUME NEW ns, NEW K \in SUBSET Path, DOMAIN ns \subseteq InnerRefs,
         NEW path \in Path, NEW c, SlotOK(ns, K, c, path)
  PROVE  /\ c = nil => EmptySlot(ns, K, path)
         /\ IsLeaf(c) => c = Leaf(c.at) /\ LeafSlot(ns, K, c.at, path)
         /\ IsInner(c) => NodeSlot(ns, K, c, path)
         /\ c = nil \/ IsLeaf(c) \/ IsInner(c)
<1>1. CASE c = nil /\ EmptySlot(ns, K, path)
  BY <1>1, RefKinds
<1>2. CASE c = Leaf(c.at) /\ LeafSlot(ns, K, c.at, path)
  <2>1. c.at \in Path
    BY <1>2 DEF LeafSlot
  <2> DEFINE k == c.at
  <2>2. Leaf(k) # nil /\ IsLeaf(Leaf(k)) /\ ~ IsInner(Leaf(k))
    BY <2>1, RefKinds
  <2> QED BY <1>2, <2>2
<1>3. CASE NodeSlot(ns, K, c, path)
  <2>1. c \in InnerRefs
    BY <1>3 DEF NodeSlot
  <2> QED BY <1>3, <2>1, RefKinds
<1> QED BY <1>1, <1>2, <1>3 DEF SlotOK

\* A slot and a longer string: the slot is on the way to it or beside it.
LEMMA BesideSlot ==
  ASSUME NEW p \in Path, NEW at \in Path, NEW b \in Byte,
         ~ Starts(p, at), Append(at, b) # p
  PROVE  ~ Starts(p, Append(at, b))
<1> DEFINE q == Append(at, b)
<1>1. q \in Path /\ Len(q) = Len(at) + 1 /\ Starts(at, q)
  BY AppendStarts
<1>2. Len(p) \in Nat /\ Len(at) \in Nat
  BY Lengths
<1> HIDE DEF q
<1> SUFFICES ASSUME Starts(p, q) PROVE p = q
  BY DEF q
<1>3. Len(p) <= Len(q) /\ ~ Len(p) <= Len(at)
  BY <1>1, StartsOrder
<1> QED BY <1>1, <1>2, <1>3, StartsOrder

\* An edge that stands below p, and not at p, is an edge of a node below p.
LEMMA AboveSlot ==
  ASSUME NEW p \in Path, NEW at \in Path, NEW b \in Byte,
         Starts(p, Append(at, b)), Append(at, b) # p
  PROVE  Starts(p, at) /\ Len(p) <= Len(at)
<1> DEFINE q == Append(at, b)
<1>1. q \in Path /\ Len(q) = Len(at) + 1 /\ Starts(at, q)
  BY AppendStarts
<1>2. Len(p) \in Nat /\ Len(at) \in Nat
  BY Lengths
<1> HIDE DEF q
<1>3. Starts(p, q) /\ p # q
  BY DEF q
<1>4. Len(p) <= Len(at)
  BY <1>1, <1>2, <1>3, StartsOrder
<1> QED BY <1>1, <1>3, <1>4, StartsOrder
-----------------------------------------------------------------------------
(***************************************************************************)
(* What happens behind one slot does not concern the others.               *)
(***************************************************************************)
\* A slot elsewhere refers to the same as before.
LEMMA SlotElsewhere ==
  ASSUME NEW ns, NEW K \in SUBSET Path, NEW ms, NEW J \in SUBSET Path,
         NEW path \in Path, IsSlot(ns, path), DOMAIN ns \subseteq InnerRefs,
         DOMAIN ms \subseteq InnerRefs, SameBeside(ns, K, ms, J, path),
         NEW here \in Path, here # path, ~ Starts(path, here),
         NEW c, SlotOK(ns, K, c, here)
  PROVE  SlotOK(ms, J, c, here)
<1>1. /\ \A s \in DOMAIN ns : s.at \in Path
      /\ \A s \in DOMAIN ms : s.at \in Path
  BY RefKinds
<1>2. CASE ~ Starts(here, path)
  <2>1. \A q \in Path : Starts(here, q) => ~ Starts(path, q)
    <3>1. Len(here) \in Nat /\ Len(path) \in Nat
      BY <1>1, Lengths
    <3> QED BY <1>1, <1>2, <3>1, StartsOrder
  <2>2. \A k \in Path : Starts(here, k) => (k \in J <=> k \in K)
    BY <2>1 DEF SameBeside
  <2>3. \A s \in InnerRefs : Starts(here, s.at) =>
          (s \in DOMAIN ms <=> s \in DOMAIN ns) /\ (s \in DOMAIN ns => ms[s] = ns[s])
    BY <2>1, RefKinds DEF SameBeside
  <2>4. CASE c = nil /\ EmptySlot(ns, K, here)
    <3>1. EmptySlot(ms, J, here)
      BY <2>2, <2>3, <2>4 DEF EmptySlot
    <3> QED BY <2>4, <3>1, <1>1 DEF SlotOK
  <2>5. CASE c = Leaf(c.at) /\ LeafSlot(ns, K, c.at, here)
    <3>1. LeafSlot(ms, J, c.at, here)
      BY <2>2, <2>3, <2>5 DEF LeafSlot
    <3> QED BY <2>5, <3>1, <1>1 DEF SlotOK
  <2>6. CASE NodeSlot(ns, K, c, here)
    <3>1. c \in InnerRefs /\ Starts(here, c.at)
      BY <1>1, <2>6 DEF NodeSlot
    <3>2. c \in DOMAIN ms /\ ms[c] = ns[c]
      BY <2>3, <2>6, <3>1 DEF NodeSlot
    <3>3. NodeSlot(ms, J, c, here)
      BY <2>2, <2>3, <2>6, <3>2 DEF NodeSlot
    <3> QED BY <3>3, <1>1 DEF SlotOK
  <2> QED BY <2>4, <2>5, <2>6 DEF SlotOK
<1>3. CASE Starts(here, path)
  <2>1. path # <<>>
    BY <1>1, <1>3, StartsOrder
  <2>2. PICK s \in DOMAIN ns, e \in Byte : path = Append(s.at, e)
    BY <2>1 DEF IsSlot
  <2>3. /\ Starts(here, s.at) /\ Len(s.at) \in Nat /\ s.at \in Path
        /\ Len(path) = Len(s.at) + 1 /\ Starts(s.at, path)
    BY <1>1, <1>3, <2>2, AboveSlot, AppendStarts, Lengths
  <2>4. NodeSlot(ns, K, c, here)
    BY <2>3 DEF SlotOK, EmptySlot, LeafSlot
  <2>5. c \in InnerRefs /\ c.at \in Path /\ Starts(c.at, s.at)
    BY <1>1, <2>3, <2>4 DEF NodeSlot
  <2>6. Starts(c.at, path) /\ ~ Starts(path, c.at)
    <3>1. Len(c.at) <= Len(s.at) /\ Len(c.at) \in Nat
      BY <2>3, <2>5, StartsOrder, Lengths
    <3>2. ~ Len(path) <= Len(c.at)
      BY <2>3, <3>1
    <3> QED BY <2>3, <2>5, <3>2, StartsOrder
  <2>7. c \in DOMAIN ms /\ ms[c] = ns[c]
    BY <2>4, <2>5, <2>6 DEF NodeSlot, SameBeside
  <2>8. \A q \in Path : Starts(path, q) => Starts(c.at, q)
    BY <2>5, <2>6, StartsOrder
  <2>9. \A k \in J : Starts(here, k) => Starts(c.at, k)
    BY <2>4, <2>8 DEF NodeSlot, SameBeside
  <2>10. \A t \in DOMAIN ms : Starts(here, t.at) => Starts(c.at, t.at)
    BY <1>1, <2>4, <2>8 DEF NodeSlot, SameBeside
  <2>11. NodeSlot(ms, J, c, here)
    BY <2>4, <2>7, <2>9, <2>10 DEF NodeSlot
  <2> QED BY <2>11 DEF SlotOK
<1> QED BY <1>2, <1>3

\* Of a node: its slots, but for the hole, are right.
OtherSlotsOK(ns, K, r, hole) ==
  \A b \in Byte : Append(r.at, b) # hole =>
    SlotOK(ns, K, ChildIn(ns, r, b), Append(r.at, b))

\* When the tree behind one slot changes, the nodes beside it stay in order.
LEMMA Locality ==
  ASSUME NEW ns, NEW K \in SUBSET Path, NEW ms, NEW J \in SUBSET Path,
         NEW path \in Path, IsSlot(ns, path), Linked(ns, K, path),
         DOMAIN ms \subseteq InnerRefs, SameBeside(ns, K, ms, J, path),
         NEW r \in DOMAIN ns, ~ Starts(path, r.at)
  PROVE  /\ r \in DOMAIN ms /\ ms[r] = ns[r] /\ NodeOK(ms, J, r)
         /\ (r.at \in J <=> r.at \in K) /\ OtherSlotsOK(ms, J, r, path)
<1>1. /\ DOMAIN ns \subseteq InnerRefs /\ \A s \in DOMAIN ns : s.at \in Path
      /\ \A s \in DOMAIN ms : s.at \in Path
  BY RefKinds DEF Linked, NodeOK
<1>2. /\ r \in DOMAIN ms /\ ms[r] = ns[r] /\ (r.at \in J <=> r.at \in K)
      /\ NodeOK(ns, K, r)
  BY <1>1 DEF SameBeside, Linked
<1>3. NodeOK(ms, J, r)
  BY <1>2 DEF NodeOK
<1>4. ASSUME NEW b \in Byte, Append(r.at, b) # path
      PROVE  SlotOK(ms, J, ChildIn(ms, r, b), Append(r.at, b))
  <2> DEFINE here == Append(r.at, b)
             c == ChildIn(ns, r, b)
  <2>1. here \in Path /\ ~ Starts(path, here) /\ here # path /\ r.at \in Path
    BY <1>1, <1>4, AppendStarts, BesideSlot
  <2>2. SlotOK(ns, K, c, here) /\ ChildIn(ms, r, b) = c
    BY <1>2, <1>4 DEF Linked, ChildIn
  <2> HIDE DEF here, c
  <2>3. SlotOK(ms, J, c, here)
    BY <1>1, <2>1, <2>2, SlotElsewhere
  <2> QED BY <2>2, <2>3 DEF here
<1> QED BY <1>2, <1>3, <1>4 DEF OtherSlotsOK

\* No other slot refers to the node behind the slot at path.
LEMMA OnlyHere ==
  ASSUME NEW ns, NEW K \in SUBSET Path, NEW path \in Path, IsSlot(ns, path),
         DOMAIN ns \subseteq InnerRefs,
         NEW r \in DOMAIN ns, NodeSlot(ns, K, r, path),
         NEW s \in DOMAIN ns, NEW b \in Byte, Append(s.at, b) # path
  PROVE  ~ NodeSlot(ns, K, r, Append(s.at, b))
<1> DEFINE here == Append(s.at, b)
<1> SUFFICES ASSUME NodeSlot(ns, K, r, here) PROVE FALSE
  OBVIOUS
<1>1. /\ r.at \in Path /\ s.at \in Path /\ here \in Path /\ Len(here) = Len(s.at) + 1
      /\ Len(path) \in Nat /\ Len(s.at) \in Nat /\ Len(r.at) \in Nat
  BY RefKinds, AppendStarts, Lengths
<1>2. Starts(path, r.at) /\ Starts(here, r.at) /\ Starts(s.at, here)
  BY <1>1, AppendStarts DEF NodeSlot
<1>0. Starts(path, here) => Starts(path, s.at)
  BY <1>1, AboveSlot
<1>5. \A q \in Path : Len(q) < Len(r.at) => ~ Starts(r.at, q)
  BY <1>1, Lengths, StartsOrder
<1>6. Len(s.at) < Len(r.at) /\ Starts(path, s.at) => FALSE
  BY <1>1, <1>5 DEF NodeSlot
<1>7. Len(here) <= Len(r.at)
  BY <1>1, <1>2, StartsOrder
<1>8. \A t \in DOMAIN ns : Starts(here, t.at) => Starts(r.at, t.at)
  BY DEF NodeSlot
<1> HIDE DEF here
<1>3. CASE Len(path) <= Len(here)
  <2>1. Starts(path, here)
    BY <1>1, <1>2, <1>3, StartsOrder
  <2> QED BY <1>0, <1>1, <1>6, <1>7, <2>1
<1>4. CASE Len(here) < Len(path)
  <2>1. path # <<>>
    BY <1>1, <1>4, StartsOrder
  <2>2. PICK t \in DOMAIN ns, e \in Byte : path = Append(t.at, e)
    BY <2>1 DEF IsSlot
  <2>3. t.at \in Path /\ Len(path) = Len(t.at) + 1 /\ Len(t.at) \in Nat
    BY <2>2, RefKinds, AppendStarts, Lengths
  <2>4. Len(here) <= Len(path) /\ here # path
    BY <1>1, <1>4
  <2>5. Starts(here, path)
    BY <1>1, <1>2, <2>4, StartsOrder
  <2>6. Starts(here, t.at)
    BY <1>1, <2>2, <2>3, <2>4, <2>5, AboveSlot
  <2>7. Starts(r.at, t.at)
    BY <1>8, <2>6
  <2>8. Len(path) <= Len(r.at)
    BY <1>1, <1>2, StartsOrder
  <2> QED BY <1>1, <1>5, <2>3, <2>7, <2>8
<1> QED BY <1>1, <1>3, <1>4

\* The nodes of a linked heap are inner nodes.
LEMMA LinkedTypes ==
  ASSUME NEW ns, NEW K, NEW hole, Linked(ns, K, hole)
  PROVE  DOMAIN ns \subseteq InnerRefs
  BY DEF Linked, NodeOK

\* A heap without a hole is one that may have a hole anywhere.
LEMMA AnyHole ==
  ASSUME NEW ns, NEW K, NEW hole, Linked(ns, K, <<>>)
  PROVE  Linked(ns, K, hole)
<1>1. \A r \in DOMAIN ns, b \in Byte : Append(r.at, b) # <<>>
  BY LinkedTypes, RefKinds, AppendStarts
<1> QED BY <1>1 DEF Linked

\* Slots are about paths and prefixes only.
LEMMA SamePrefixes ==
  ASSUME NEW ns, NEW K, NEW ms, DOMAIN ms = DOMAIN ns,
         \A r \in DOMAIN ns : ms[r].prefix = ns[r].prefix,
         NEW c, NEW path, SlotOK(ns, K, c, path)
  PROVE  SlotOK(ms, K, c, path)
  BY DEF SlotOK, EmptySlot, LeafSlot, NodeSlot

\* The node r with other children.
WithChildren(ns, r, m) == [ns EXCEPT ![r].children = m]

\* Two maps of children that differ at b only.
SameEdges(m, n, b) ==
  \A e \in Byte \ {b} : /\ e \in DOMAIN m <=> e \in DOMAIN n
                        /\ e \in DOMAIN m => m[e] = n[e]

\* A map of children, and what it has at a byte.
EdgeMap(m) == IsMap(m) /\ DOMAIN m \subseteq Byte /\ \A e \in DOMAIN m : m[e] # nil

EdgeOf(m, b) == IF b \in DOMAIN m THEN m[b] ELSE nil

\* What was rightly in a slot still is.
SlotsKept(ns, K, ms, J) == \A c, q : SlotOK(ns, K, c, q) => SlotOK(ms, J, c, q)

\* The hole at the edge b of r can be closed: r may get the children m, which
\* differ from the old ones at b at most, and b's slot is what it should be.
Closing(ns, K, r, b, m) ==
  /\ r \in DOMAIN ns /\ b \in Byte /\ Linked(ns, K, Append(r.at, b))
  /\ EdgeMap(m) /\ SameEdges(m, ns[r].children, b)
  /\ SlotOK(ns, K, EdgeOf(m, b), Append(r.at, b))

\* Filling the hole: nothing is left open, and no slot changes.
LEMMA HoleFilled ==
  ASSUME NEW ns, NEW K \in SUBSET Path, NEW r, NEW b, NEW m, Closing(ns, K, r, b, m),
         NEW ms, ms = WithChildren(ns, r, m)
  PROVE  /\ DOMAIN ms = DOMAIN ns /\ ms[r].children = m /\ ms[r].terminal = ns[r].terminal
         /\ \A s \in DOMAIN ns \ {r} : ms[s] = ns[s]
         /\ Linked(ms, K, <<>>)
         /\ SlotsKept(ns, K, ms, K)
<1> DEFINE here == Append(r.at, b)
<1>8. /\ r \in DOMAIN ns /\ b \in Byte /\ Linked(ns, K, here)
      /\ EdgeMap(m) /\ SameEdges(m, ns[r].children, b)
      /\ SlotOK(ns, K, EdgeOf(m, b), here)
  BY DEF Closing
<1>0. \A s \in DOMAIN ns : NodeOK(ns, K, s)
  BY <1>8 DEF Linked
<1>1. /\ DOMAIN ns \subseteq InnerRefs /\ \A s \in DOMAIN ns : NodeOK(ns, K, s)
      /\ r.at \in Path
  BY <1>0, <1>8, RefKinds DEF NodeOK
<1>2. /\ DOMAIN ms = DOMAIN ns /\ ms[r] = [ns[r] EXCEPT !.children = m]
      /\ \A s \in DOMAIN ns \ {r} : ms[s] = ns[s]
  BY <1>8 DEF WithChildren
<1>3. ms[r].prefix = ns[r].prefix /\ ms[r].terminal = ns[r].terminal /\ ms[r].children = m
      /\ ms[r] = [prefix |-> ms[r].prefix, terminal |-> ms[r].terminal, children |-> m]
  BY <1>1, <1>2, <1>8 DEF NodeOK
<1>4. \A c, q : SlotOK(ns, K, c, q) => SlotOK(ms, K, c, q)
  BY <1>2, <1>3, SamePrefixes
<1>5. \A s \in DOMAIN ms : NodeOK(ms, K, s)
  <2>1. NodeOK(ms, K, r)
    BY <1>1, <1>3, <1>8 DEF NodeOK, EdgeMap
  <2>2. \A s \in DOMAIN ns \ {r} : NodeOK(ms, K, s)
    BY <1>1, <1>2 DEF NodeOK
  <2> QED BY <1>2, <2>1, <2>2
<1>6. ASSUME NEW s \in DOMAIN ns, NEW e \in Byte
      PROVE  SlotOK(ms, K, ChildIn(ms, s, e), Append(s.at, e))
  <2>1. CASE s = r /\ e = b
    BY <1>3, <1>4, <1>8, <2>1 DEF ChildIn, EdgeOf
  <2>2. CASE ~ (s = r /\ e = b)
    <3>1. Append(s.at, e) # Append(r.at, b)
      <4>1. s.at \in Path
        BY <1>1, RefKinds
      <4>2. ASSUME Append(s.at, e) = Append(r.at, b) PROVE s.at = r.at /\ e = b
        BY <1>1, <1>8, <4>1, <4>2 DEF Path
      <4> QED BY <1>8, <2>2, <4>2 DEF Linked
    <3>2. ChildIn(ms, s, e) = ChildIn(ns, s, e)
      BY <1>2, <1>3, <1>8, <2>2 DEF ChildIn, SameEdges
    <3> QED BY <1>4, <1>8, <3>1, <3>2 DEF Linked
  <2> QED BY <2>1, <2>2
<1>7. \A s, t \in DOMAIN ms : s.at = t.at => s = t
  BY <1>2, <1>8 DEF Linked
<1>9. Linked(ms, K, <<>>)
  BY <1>2, <1>5, <1>6, <1>7 DEF Linked
<1> QED BY <1>2, <1>3, <1>4, <1>9 DEF SlotsKept

\* Two sets of keys that differ in key only.
SameKeysBut(K, J, key) == \A k \in Path \ {key} : k \in J <=> k \in K

\* The node r with the terminal that the keys J ask for.
WithTerminal(ns, r, J) ==
  [ns EXCEPT ![r].terminal = IF r.at \in J THEN Leaf(r.at) ELSE nil]

\* The heaps differ in the terminal of r only, and no slot changes.
Retermed(ns, K, ms, J, r) ==
  /\ DOMAIN ms = DOMAIN ns /\ ms[r].children = ns[r].children
  /\ \A s \in DOMAIN ns \ {r} : ms[s] = ns[s]
  /\ \A c, q : q \in Path /\ SlotOK(ns, K, c, q) => SlotOK(ms, J, c, q)

\* A node's own key comes or goes, and its terminal with it.
LEMMA TerminalSet ==
  ASSUME NEW ns, NEW K \in SUBSET Path, NEW J \in SUBSET Path, NEW r \in DOMAIN ns,
         NEW hole, Linked(ns, K, hole), SameKeysBut(K, J, r.at),
         NEW ms, ms = WithTerminal(ns, r, J)
  PROVE  Retermed(ns, K, ms, J, r) /\ Linked(ms, J, hole)
<1>1. /\ DOMAIN ns \subseteq InnerRefs /\ \A s \in DOMAIN ns : NodeOK(ns, K, s)
      /\ r.at \in Path /\ \A s \in DOMAIN ns : s.at \in Path
  BY LinkedTypes, RefKinds DEF Linked
<1>2. /\ DOMAIN ms = DOMAIN ns /\ \A s \in DOMAIN ns \ {r} : ms[s] = ns[s]
      /\ ms[r] = [ns[r] EXCEPT !.terminal = IF r.at \in J THEN Leaf(r.at) ELSE nil]
  BY DEF WithTerminal
<1>0. \A k \in Path \ {r.at} : k \in J <=> k \in K
  BY DEF SameKeysBut
<1>3. /\ ms[r].prefix = ns[r].prefix /\ ms[r].children = ns[r].children
      /\ ms[r] = [prefix |-> ms[r].prefix, children |-> ms[r].children,
                  terminal |-> IF r.at \in J THEN Leaf(r.at) ELSE nil]
  BY <1>1, <1>2 DEF NodeOK
<1>4. ASSUME NEW c, NEW path \in Path, SlotOK(ns, K, c, path)
      PROVE  SlotOK(ms, J, c, path)
  <2>1. CASE c = nil /\ EmptySlot(ns, K, path)
    <3>1. EmptySlot(ms, J, path)
      BY <1>0, <1>1, <1>2, <2>1 DEF EmptySlot
    <3> QED BY <2>1, <3>1 DEF SlotOK
  <2>2. CASE c = Leaf(c.at) /\ LeafSlot(ns, K, c.at, path)
    <3>1. LeafSlot(ms, J, c.at, path)
      BY <1>0, <1>1, <1>2, <2>2 DEF LeafSlot
    <3> QED BY <2>2, <3>1 DEF SlotOK
  <2>3. CASE NodeSlot(ns, K, c, path)
    <3>1. \A k \in J : Starts(path, k) => Starts(c.at, k)
      BY <1>0, <2>3 DEF NodeSlot
    <3>2. \A s \in DOMAIN ms : ms[s].prefix = ns[s].prefix
      BY <1>2, <1>3
    <3>3. NodeSlot(ms, J, c, path)
      BY <1>2, <2>3, <3>1, <3>2 DEF NodeSlot
    <3> QED BY <3>3 DEF SlotOK
  <2> QED BY <1>4, <2>1, <2>2, <2>3 DEF SlotOK
<1>5. \A s \in DOMAIN ms : NodeOK(ms, J, s)
  <2>1. NodeOK(ms, J, r)
    BY <1>1, <1>3 DEF NodeOK
  <2>2. \A s \in DOMAIN ns \ {r} : s.at # r.at
    BY DEF Linked
  <2>3. \A s \in DOMAIN ns \ {r} : NodeOK(ms, J, s)
    BY <1>0, <1>1, <1>2, <2>2 DEF NodeOK
  <2> QED BY <1>2, <2>1, <2>3
<1>6. ASSUME NEW s \in DOMAIN ms, NEW b \in Byte, Append(s.at, b) # hole
      PROVE  SlotOK(ms, J, ChildIn(ms, s, b), Append(s.at, b))
  <2>1. ChildIn(ms, s, b) = ChildIn(ns, s, b)
    BY <1>2, <1>3, <1>6 DEF ChildIn
  <2>2. SlotOK(ns, K, ChildIn(ns, s, b), Append(s.at, b)) /\ Append(s.at, b) \in Path
    BY <1>1, <1>2, <1>6, AppendStarts DEF Linked
  <2> QED BY <1>4, <2>1, <2>2
<1>7. Linked(ms, J, hole)
  BY <1>2, <1>5, <1>6 DEF Linked
<1> QED BY <1>2, <1>3, <1>4, <1>7 DEF Retermed

\* A slot stays as it is while the same keys and paths are behind it, and the
\* node it refers to keeps its prefix.
LEMMA SlotStays ==
  ASSUME NEW ns, NEW K, NEW ms, NEW J, NEW c, NEW path, SlotOK(ns, K, c, path),
         \A k \in K : Starts(path, k) => k \in J,
         \A k \in J : Starts(path, k) => k \in K,
         \A s \in DOMAIN ms : Starts(path, s.at) => \E t \in DOMAIN ns : t.at = s.at,
         NodeSlot(ns, K, c, path) => c \in DOMAIN ms /\ ms[c].prefix = ns[c].prefix
  PROVE  SlotOK(ms, J, c, path)
<1>1. CASE c = nil /\ EmptySlot(ns, K, path)
  <2>1. EmptySlot(ms, J, path)
    BY <1>1 DEF EmptySlot
  <2> QED BY <1>1, <2>1 DEF SlotOK
<1>2. CASE c = Leaf(c.at) /\ LeafSlot(ns, K, c.at, path)
  <2>1. LeafSlot(ms, J, c.at, path)
    BY <1>2 DEF LeafSlot
  <2> QED BY <1>2, <2>1 DEF SlotOK
<1>3. CASE NodeSlot(ns, K, c, path)
  <2>1. NodeSlot(ms, J, c, path)
    BY <1>3 DEF NodeSlot
  <2> QED BY <2>1 DEF SlotOK
<1> QED BY <1>1, <1>2, <1>3 DEF SlotOK

\* Whatever is planted behind a slot, the rest of the tree is as it was.
LEMMA Replanted ==
  ASSUME NEW ns, NEW K \in SUBSET Path, NEW ms, NEW J \in SUBSET Path,
         NEW path \in Path, IsSlot(ns, path), Linked(ns, K, path),
         DOMAIN ms \subseteq InnerRefs, SameBeside(ns, K, ms, J, path),
         \A r \in DOMAIN ms : Starts(path, r.at) =>
           /\ NodeOK(ms, J, r)
           /\ \A b \in Byte : SlotOK(ms, J, ChildIn(ms, r, b), Append(r.at, b)),
         \A r, s \in DOMAIN ms : Starts(path, r.at) /\ r.at = s.at => r = s
  PROVE  Linked(ms, J, path) /\ IsSlot(ms, path)
<1>1. DOMAIN ns \subseteq InnerRefs
  BY LinkedTypes
<1>2. ASSUME NEW r \in DOMAIN ms, ~ Starts(path, r.at)
      PROVE  r \in DOMAIN ns
  BY <1>2 DEF SameBeside
<1>3. ASSUME NEW r \in DOMAIN ms
      PROVE  /\ NodeOK(ms, J, r)
             /\ \A b \in Byte : Append(r.at, b) # path =>
                  SlotOK(ms, J, ChildIn(ms, r, b), Append(r.at, b))
  <2>1. CASE Starts(path, r.at)
    BY <2>1
  <2>2. CASE ~ Starts(path, r.at)
    <3>1. r \in DOMAIN ns
      BY <1>2, <2>2
    <3>2. NodeOK(ms, J, r) /\ OtherSlotsOK(ms, J, r, path)
      BY <2>2, <3>1, Locality
    <3> QED BY <3>2 DEF OtherSlotsOK
  <2> QED BY <2>1, <2>2
<1>4. \A r, s \in DOMAIN ms : r.at = s.at => r = s
  BY <1>2 DEF Linked
<1>5. IsSlot(ms, path)
  <2>1. CASE path # <<>>
    <3>1. PICK r \in DOMAIN ns, b \in Byte : path = Append(r.at, b)
      BY <2>1 DEF IsSlot
    <3>2. r \in InnerRefs /\ r.at \in Path /\ Len(r.at) \in Nat /\ Len(path) = Len(r.at) + 1
      BY <1>1, <3>1, RefKinds, AppendStarts, Lengths
    <3>3. ~ Starts(path, r.at)
      BY <3>2, StartsOrder
    <3>4. r \in DOMAIN ms
      BY <3>2, <3>3 DEF SameBeside
    <3> QED BY <3>1, <3>4 DEF IsSlot
  <2> QED BY <2>1 DEF IsSlot
<1> QED BY <1>3, <1>4, <1>5 DEF Linked
-----------------------------------------------------------------------------
\* A key without a leaf gets one behind its empty slot.
LEMMA LeafAdded ==
  ASSUME NEW ns, NEW K \in SUBSET Path, NEW path \in Path, IsSlot(ns, path),
         Linked(ns, K, path), EmptySlot(ns, K, path),
         NEW key \in Path, Starts(path, key)
  PROVE  /\ key \notin K
         /\ Linked(ns, K \cup {key}, path) /\ SlotOK(ns, K \cup {key}, Leaf(key), path)
<1>1. DOMAIN ns \subseteq InnerRefs
  BY LinkedTypes
<1>2. SameBeside(ns, K, ns, K \cup {key}, path)
  BY DEF SameBeside
<1>3. \A r \in DOMAIN ns : ~ Starts(path, r.at)
  BY DEF EmptySlot
<1>4. Linked(ns, K \cup {key}, path)
  BY <1>1, <1>2, <1>3, Replanted
<1>5. Leaf(key).at = key
  BY RefKinds
<1>6. LeafSlot(ns, K \cup {key}, key, path)
  BY DEF LeafSlot, EmptySlot
<1> QED BY <1>4, <1>5, <1>6 DEF SlotOK, EmptySlot

\* The leaf of a slot is dropped.
LEMMA LeafDropped ==
  ASSUME NEW ns, NEW K \in SUBSET Path, NEW path \in Path, IsSlot(ns, path),
         Linked(ns, K, path), NEW key \in Path, LeafSlot(ns, K, key, path)
  PROVE  Linked(ns, K \ {key}, path) /\ SlotOK(ns, K \ {key}, nil, path)
<1>1. DOMAIN ns \subseteq InnerRefs
  BY LinkedTypes
<1>2. SameBeside(ns, K, ns, K \ {key}, path)
  BY DEF SameBeside, LeafSlot
<1>3. \A r \in DOMAIN ns : ~ Starts(path, r.at)
  BY DEF LeafSlot
<1>4. Linked(ns, K \ {key}, path)
  BY <1>1, <1>2, <1>3, Replanted
<1>5. EmptySlot(ns, K \ {key}, path)
  BY DEF LeafSlot, EmptySlot
<1> QED BY <1>4, <1>5 DEF SlotOK

\* A node f becomes the only one behind a slot.
LEMMA Planted ==
  ASSUME NEW ns, NEW K \in SUBSET Path, NEW path \in Path, IsSlot(ns, path),
         Linked(ns, K, path), \A r \in DOMAIN ns : ~ Starts(path, r.at),
         NEW J \in SUBSET Path, \A k \in Path : ~ Starts(path, k) => (k \in J <=> k \in K),
         NEW f \in InnerRefs, Starts(path, f.at), \A k \in J : Starts(path, k) => Starts(f.at, k),
         NEW ms, DOMAIN ms = DOMAIN ns \cup {f}, \A r \in DOMAIN ns : ms[r] = ns[r],
         ms[f].prefix = From(f.at, Len(path)), NodeOK(ms, J, f),
         \A b \in Byte : SlotOK(ms, J, ChildIn(ms, f, b), Append(f.at, b))
  PROVE  Linked(ms, J, path) /\ SlotOK(ms, J, f, path)
<1>1. DOMAIN ns \subseteq InnerRefs
  BY LinkedTypes
<1>2. SameBeside(ns, K, ms, J, path)
  BY DEF SameBeside
<1>3. \A r \in DOMAIN ms : Starts(path, r.at) => r = f
  OBVIOUS
<1>4. Linked(ms, J, path)
  BY <1>1, <1>2, <1>3, Replanted
<1>5. Starts(f.at, f.at)
  BY RefKinds, StartsOrder
<1>6. NodeSlot(ms, J, f, path)
  BY <1>3, <1>5 DEF NodeSlot
<1> QED BY <1>4, <1>6 DEF SlotOK

\* The slots of the nodes behind a slot are other slots.
LEMMA Deeper ==
  ASSUME NEW path \in Path, NEW at \in Path, Starts(path, at), NEW b \in Byte
  PROVE  /\ Append(at, b) # path /\ Append(at, b) \in Path /\ Starts(path, Append(at, b))
         /\ Starts(at, Append(at, b)) /\ Len(Append(at, b)) = Len(at) + 1
<1>1. Len(path) \in Nat /\ Len(at) \in Nat /\ Len(path) <= Len(at)
  BY Lengths, StartsOrder
<1> QED BY <1>1, AppendStarts, StartsOrder

\* A node is replaced by one of another type.
LEMMA Rekinded ==
  ASSUME NEW ns, NEW K \in SUBSET Path, NEW path \in Path, IsSlot(ns, path),
         Linked(ns, K, path), NEW r, NodeSlot(ns, K, r, path),
         NEW g \in InnerRefs, g.at = r.at,
         NEW ms, ms = With(Without(ns, r), g, ns[r])
  PROVE  /\ DOMAIN ms = (DOMAIN ns \ {r}) \cup {g} /\ ms[g] = ns[r]
         /\ \A s \in DOMAIN ns \ {r} : ms[s] = ns[s]
         /\ Linked(ms, K, path) /\ SlotOK(ms, K, g, path)
<1>1. DOMAIN ns \subseteq InnerRefs /\ r \in DOMAIN ns /\ r.at \in Path
  BY LinkedTypes, RefKinds DEF NodeSlot
<1>2. g \in DOMAIN ns => g = r
  BY <1>1 DEF Linked
<1>3. /\ DOMAIN ms = (DOMAIN ns \ {r}) \cup {g} /\ ms[g] = ns[r]
      /\ \A s \in DOMAIN ns \ {r} : s \in DOMAIN ms /\ ms[s] = ns[s]
  BY <1>2 DEF With, Without
<1>4. Starts(path, r.at) /\ Starts(path, g.at)
  BY DEF NodeSlot
<1>5. DOMAIN ms \subseteq InnerRefs /\ SameBeside(ns, K, ms, K, path)
  BY <1>1, <1>3, <1>4 DEF SameBeside
<1>6. ASSUME NEW s \in DOMAIN ns, Starts(path, s.at)
      PROVE  NodeOK(ns, K, s) /\ \A b \in Byte : SlotOK(ms, K, ChildIn(ns, s, b), Append(s.at, b))
  <2>1. s.at \in Path
    BY <1>1, RefKinds
  <2>2. ASSUME NEW b \in Byte
        PROVE  SlotOK(ms, K, ChildIn(ns, s, b), Append(s.at, b))
    <3> DEFINE c == ChildIn(ns, s, b)
               here == Append(s.at, b)
    <3>1. here # path /\ SlotOK(ns, K, c, here)
      BY <1>6, <2>1, Deeper DEF Linked
    <3>2. ~ NodeSlot(ns, K, r, here)
      BY <1>1, <3>1, OnlyHere
    <3> HIDE DEF c, here
    <3>3. \A t \in DOMAIN ms : \E u \in DOMAIN ns : u.at = t.at
      BY <1>1, <1>3
    <3>4. NodeSlot(ns, K, c, here) => c \in DOMAIN ms /\ ms[c].prefix = ns[c].prefix
      BY <1>3, <3>2 DEF NodeSlot
    <3>5. SlotOK(ms, K, c, here)
      BY <3>1, <3>3, <3>4, SlotStays
    <3> QED BY <3>5 DEF c, here
  <2> QED BY <2>2 DEF Linked
<1>7. ASSUME NEW s \in DOMAIN ms, Starts(path, s.at)
      PROVE  NodeOK(ms, K, s) /\ \A b \in Byte : SlotOK(ms, K, ChildIn(ms, s, b), Append(s.at, b))
  <2>1. CASE s = g
    <3>1. NodeOK(ns, K, r) /\ \A b \in Byte : SlotOK(ms, K, ChildIn(ns, r, b), Append(r.at, b))
      BY <1>1, <1>4, <1>6
    <3>2. NodeOK(ms, K, g)
      BY <1>3, <3>1 DEF NodeOK
    <3> QED BY <1>3, <2>1, <3>1, <3>2 DEF ChildIn
  <2>2. CASE s # g
    <3>1. s \in DOMAIN ns /\ ms[s] = ns[s]
      BY <1>3, <2>2
    <3>2. NodeOK(ns, K, s) /\ \A b \in Byte : SlotOK(ms, K, ChildIn(ns, s, b), Append(s.at, b))
      BY <1>6, <1>7, <3>1
    <3>3. NodeOK(ms, K, s)
      BY <3>1, <3>2 DEF NodeOK
    <3> QED BY <3>1, <3>2, <3>3 DEF ChildIn
  <2> QED BY <2>1, <2>2
<1>8. \A s, t \in DOMAIN ms : s.at = t.at => s = t
  BY <1>1, <1>3 DEF Linked
<1>9. Linked(ms, K, path)
  BY <1>5, <1>7, <1>8, Replanted
<1>10. NodeSlot(ms, K, g, path)
  <2>1. \A t \in DOMAIN ms : \E u \in DOMAIN ns : u.at = t.at
    BY <1>1, <1>3
  <2> QED BY <1>3, <1>4, <2>1 DEF NodeSlot
<1> QED BY <1>3, <1>9, <1>10 DEF SlotOK

\* The bytes of c's prefix are those of its path from n on.
Cut(ns, c, n) == [ns EXCEPT ![c].prefix = From(c.at, n)]

\* The edges of s: to c and to the leaf of key, whichever it branches to.
Adopts(ms, s, c, key) ==
  \A b \in Byte : LET here == Append(s.at, b) IN
    /\ ChildIn(ms, s, b) = IF Starts(here, c.at) THEN c
                           ELSE IF Starts(here, key) THEN Leaf(key) ELSE nil
    /\ ~ (Starts(here, c.at) /\ Starts(here, key))

\* The slot at path refers to s, which is new; other nodes keep their edges.
Planting(ns, K, ms, J, path, s) ==
  /\ s \notin DOMAIN ns /\ DOMAIN ms = DOMAIN ns \cup {s}
  /\ \A r \in DOMAIN ns : ms[r].children = ns[r].children
  /\ Linked(ms, J, path) /\ SlotOK(ms, J, s, path) /\ SameBeside(ns, K, ms, J, path)

\* A node whose prefix a key leaves part-way hangs from a new node s.
LEMMA Adopted ==
  ASSUME NEW ns, NEW K \in SUBSET Path, NEW path \in Path, IsSlot(ns, path),
         Linked(ns, K, path), NEW c, NodeSlot(ns, K, c, path),
         NEW key \in Path, Starts(path, key), ~ Starts(c.at, key),
         NEW s \in InnerRefs, Starts(path, s.at), Starts(s.at, c.at), Starts(s.at, key),
         Len(s.at) < Len(c.at),
         NEW m, m.prefix = From(s.at, Len(path)),
         NEW ms, ms = With(Cut(ns, c, Len(s.at) + 1), s, m),
         NodeOK(ms, K \cup {key}, s), Adopts(ms, s, c, key)
  PROVE  key \notin K /\ Planting(ns, K, ms, K \cup {key}, path, s)
<1> DEFINE cut == Cut(ns, c, Len(s.at) + 1)
<1>0. /\ cut = [ns EXCEPT ![c].prefix = From(c.at, Len(s.at) + 1)]
      /\ ms = With(cut, s, m)
      /\ \A b \in Byte : LET here == Append(s.at, b)
                         IN  ChildIn(ms, s, b) = IF Starts(here, c.at) THEN c
                                                 ELSE IF Starts(here, key) THEN Leaf(key)
                                                 ELSE nil
      /\ \A b \in Byte : ~ (Starts(Append(s.at, b), c.at) /\ Starts(Append(s.at, b), key))
  BY DEF Cut, Adopts
<1> HIDE DEF cut
<1> DEFINE J == K \cup {key}
<1>1. DOMAIN ns \subseteq InnerRefs /\ c \in DOMAIN ns /\ c.at \in Path /\ s.at \in Path
  BY LinkedTypes, RefKinds DEF NodeSlot
<1>2. Len(s.at) \in Nat /\ Len(c.at) \in Nat /\ ~ Starts(c.at, s.at)
  BY <1>1, Lengths, StartsOrder
<1>3. key \notin K /\ s \notin DOMAIN ns
  BY <1>2 DEF NodeSlot
<1>4. NodeOK(ns, K, c)
  BY <1>1 DEF Linked
<1>5. /\ DOMAIN ms = DOMAIN ns \cup {s} /\ ms[s] = m
      /\ \A r \in DOMAIN ns \ {c} : ms[r] = ns[r]
      /\ ms[c] = [ns[c] EXCEPT !.prefix = From(c.at, Len(s.at) + 1)]
  BY <1>0, <1>1, <1>3 DEF With
<1>6. /\ ms[c].prefix = From(c.at, Len(s.at) + 1) /\ ms[c].terminal = ns[c].terminal
      /\ ms[c].children = ns[c].children
      /\ ms[c] = [prefix |-> ms[c].prefix, terminal |-> ms[c].terminal,
                  children |-> ms[c].children]
  BY <1>4, <1>5 DEF NodeOK
<1>7. DOMAIN ms \subseteq InnerRefs /\ SameBeside(ns, K, ms, J, path)
  BY <1>1, <1>5 DEF SameBeside, NodeSlot
<1>13. \A r \in DOMAIN ns : r \in DOMAIN ms /\ ms[r].children = ns[r].children
  BY <1>5, <1>6
<1>8. ASSUME NEW r \in DOMAIN ns, Starts(path, r.at)
      PROVE  NodeOK(ms, J, r) /\ \A b \in Byte : SlotOK(ms, J, ChildIn(ms, r, b), Append(r.at, b))
  <2>1. r.at \in Path /\ Starts(c.at, r.at) /\ r.at # key
    BY <1>1, <1>8, RefKinds DEF NodeSlot
  <2>2. NodeOK(ns, K, r)
    BY DEF Linked
  <2>3. ms[c].prefix \in Path
    <3>1. Len(s.at) + 1 \in 0 .. Len(c.at)
      BY <1>2
    <3> QED BY <1>1, <1>6, <3>1, FromBytes
  <2>4. NodeOK(ms, J, r)
    <3>1. r.at \in J <=> r.at \in K
      BY <2>1
    <3>2. CASE r = c
      <4>1. ms[c].terminal = IF c.at \in J THEN Leaf(c.at) ELSE nil
        BY <1>6, <2>2, <3>1, <3>2 DEF NodeOK
      <4>2. /\ IsMap(ms[c].children)
            /\ DOMAIN ms[c].children \subseteq Byte
            /\ \A b \in DOMAIN ms[c].children : ms[c].children[b] # nil
        BY <1>6, <2>2, <3>2 DEF NodeOK
      <4> QED BY <1>1, <1>6, <2>3, <3>2, <4>1, <4>2 DEF NodeOK
    <3>3. CASE r # c
      <4>1. ms[r] = ns[r]
        BY <1>5, <3>3
      <4> HIDE DEF J
      <4> QED BY <2>2, <3>1, <4>1 DEF NodeOK
    <3> QED BY <3>2, <3>3
  <2>5. ASSUME NEW b \in Byte
        PROVE  SlotOK(ms, J, ChildIn(ms, r, b), Append(r.at, b))
    <3> DEFINE x == ChildIn(ns, r, b)
               here == Append(r.at, b)
    <3>1. /\ here # path /\ SlotOK(ns, K, x, here) /\ ChildIn(ms, r, b) = x
          /\ here \in Path /\ Starts(r.at, here) /\ Len(here) = Len(r.at) + 1
      <4>1. ChildIn(ms, r, b) = x
        BY <1>13 DEF ChildIn
      <4> QED BY <1>8, <2>1, <4>1, Deeper DEF Linked
    <3> HIDE DEF x, here
    <3>2. Starts(c.at, here) /\ ~ Starts(here, c.at)
      <4>1. Len(c.at) <= Len(r.at) /\ Len(r.at) \in Nat
        BY <1>1, <2>1, StartsOrder, Lengths
      <4> QED BY <1>1, <1>2, <2>1, <3>1, <4>1, StartsOrder
    <3>3. ~ Starts(here, key) /\ ~ Starts(here, s.at)
      BY <1>1, <1>2, <3>1, <3>2, StartsOrder
    <3>4. NodeSlot(ns, K, x, here) => x \in DOMAIN ms /\ ms[x].prefix = ns[x].prefix
      BY <1>5, <3>2 DEF NodeSlot
    <3>5. SlotOK(ms, J, x, here)
      BY <1>5, <3>1, <3>3, <3>4, SlotStays
    <3> QED BY <3>1, <3>5 DEF x, here
  <2> QED BY <2>4, <2>5
<1>9. ASSUME NEW b \in Byte
      PROVE  SlotOK(ms, J, ChildIn(ms, s, b), Append(s.at, b))
  <2> DEFINE here == Append(s.at, b)
  <2>1. /\ here \in Path /\ Starts(s.at, here) /\ Len(here) = Len(s.at) + 1 /\ Starts(path, here)
    BY <1>1, Deeper
  <2>2. \A q \in Path : Starts(here, q) => Starts(path, q)
    BY <2>1, StartsOrder
  <2>3. ChildIn(ms, s, b) = IF Starts(here, c.at) THEN c
                            ELSE IF Starts(here, key) THEN Leaf(key) ELSE nil
    BY <1>0
  <2>4. ~ Starts(here, s.at) /\ ~ (Starts(here, c.at) /\ Starts(here, key))
    BY <1>0, <1>1, <1>2, <2>1, StartsOrder
  <2> HIDE DEF here
  <2>5. CASE Starts(here, c.at)
    <3>1. c \in DOMAIN ms /\ ms[c].prefix = From(c.at, Len(here))
      BY <1>1, <1>5, <1>6, <2>1
    <3>2. \A k \in J : Starts(here, k) => Starts(c.at, k)
      BY <2>2, <2>4, <2>5 DEF NodeSlot
    <3>3. \A r \in DOMAIN ms : Starts(here, r.at) => Starts(c.at, r.at)
      BY <1>1, <1>5, <2>2, <2>4, RefKinds DEF NodeSlot
    <3>4. NodeSlot(ms, J, c, here)
      BY <2>5, <3>1, <3>2, <3>3 DEF NodeSlot
    <3> QED BY <2>3, <2>5, <3>4 DEF SlotOK, here
  <2>6. CASE ~ Starts(here, c.at)
    <3>1. \A q \in Path : Starts(here, q) => ~ Starts(c.at, q)
      <4>1. Len(here) <= Len(c.at)
        BY <1>1, <1>2, <2>1, Lengths
      <4> QED BY <1>1, <2>1, <2>6, <4>1, StartsOrder
    <3>2. \A k \in K : ~ Starts(here, k)
      BY <2>2, <3>1 DEF NodeSlot
    <3>3. \A r \in DOMAIN ms : ~ Starts(here, r.at)
      BY <1>1, <1>5, <2>2, <2>4, <3>1, RefKinds DEF NodeSlot
    <3>4. CASE Starts(here, key)
      <4>1. Leaf(key).at = key
        BY RefKinds
      <4>2. LeafSlot(ms, J, key, here)
        BY <3>2, <3>3, <3>4 DEF LeafSlot
      <4> QED BY <2>3, <2>6, <3>4, <4>1, <4>2 DEF SlotOK, here
    <3>5. CASE ~ Starts(here, key)
      <4>1. EmptySlot(ms, J, here)
        BY <3>2, <3>3, <3>5 DEF EmptySlot
      <4> QED BY <2>3, <2>6, <3>5, <4>1 DEF SlotOK, here
    <3> QED BY <3>4, <3>5
  <2> QED BY <2>5, <2>6
<1>10. \A r, t \in DOMAIN ms : Starts(path, r.at) /\ r.at = t.at => r = t
  BY <1>2, <1>5 DEF Linked, NodeSlot
<1>11. Linked(ms, J, path)
  <2>1. \A r \in DOMAIN ms : Starts(path, r.at) =>
          /\ NodeOK(ms, J, r)
          /\ \A b \in Byte : SlotOK(ms, J, ChildIn(ms, r, b), Append(r.at, b))
    BY <1>5, <1>8, <1>9
  <2>2. J \in SUBSET Path
    OBVIOUS
  <2> HIDE DEF J
  <2> QED BY ONLY K \in SUBSET Path, path \in Path, IsSlot(ns, path), Linked(ns, K, path),
                  <1>7, <1>10, <2>1, <2>2, Replanted
<1>12. NodeSlot(ms, J, s, path)
  <2>1. \A k \in J : Starts(path, k) => Starts(s.at, k)
    BY <1>1, StartsOrder DEF NodeSlot
  <2>2. \A r \in DOMAIN ms : Starts(path, r.at) => Starts(s.at, r.at)
    BY <1>1, <1>5, RefKinds, StartsOrder DEF NodeSlot
  <2> QED BY <1>5, <2>1, <2>2 DEF NodeSlot
<1> QED BY <1>3, <1>5, <1>6, <1>7, <1>11, <1>12 DEF SlotOK, Planting
-----------------------------------------------------------------------------
\* A string that goes on after p goes on with some byte.
LEMMA NextByte ==
  ASSUME NEW p \in Path, NEW q \in Path, Starts(p, q), p # q
  PROVE  /\ Len(p) < Len(q) /\ q[Len(p) + 1] \in Byte
         /\ Starts(Append(p, q[Len(p) + 1]), q)
<1>1. Len(p) \in Nat /\ Len(q) \in Nat /\ Len(p) <= Len(q) /\ Len(p) # Len(q)
  BY Lengths, StartsOrder
<1>2. Len(p) + 1 \in 1 .. Len(q)
  BY <1>1
<1>3. q[Len(p) + 1] \in Byte
  BY <1>2, Lengths
<1> QED BY <1>1, <1>3, AppendStarts

\* The keys and the nodes behind a node's slot are its own, or behind an edge.
LEMMA Branching ==
  ASSUME NEW ns, NEW K \in SUBSET Path, NEW path \in Path,
         Linked(ns, K, path), NEW r, NodeSlot(ns, K, r, path),
         NEW q \in Path, Starts(path, q), q \in K \/ \E s \in DOMAIN ns : s.at = q
  PROVE  q = r.at \/ \E e \in Byte : Starts(Append(r.at, e), q) /\ ChildIn(ns, r, e) # nil
<1>1. DOMAIN ns \subseteq InnerRefs /\ r \in DOMAIN ns /\ r.at \in Path
  BY LinkedTypes, RefKinds DEF NodeSlot
<1>2. Starts(path, r.at) /\ Starts(r.at, q)
  BY DEF NodeSlot
<1> SUFFICES ASSUME q # r.at
             PROVE  \E e \in Byte : Starts(Append(r.at, e), q) /\ ChildIn(ns, r, e) # nil
  OBVIOUS
<1>3. PICK e \in Byte : Starts(Append(r.at, e), q)
  BY <1>1, <1>2, NextByte
<1>4. Append(r.at, e) # path /\ Append(r.at, e) \in Path
  BY <1>1, <1>2, Deeper
<1>5. SlotOK(ns, K, ChildIn(ns, r, e), Append(r.at, e))
  BY <1>1, <1>4 DEF Linked
<1>6. ~ EmptySlot(ns, K, Append(r.at, e))
  BY <1>3 DEF EmptySlot
<1>7. ChildIn(ns, r, e) # nil
  BY <1>1, <1>4, <1>5, <1>6, SlotKinds
<1> QED BY <1>3, <1>7

\* A node with another prefix is the same node otherwise.
WithPrefix(m, prefix) == [m EXCEPT !.prefix = prefix]

\* The prefix of a node concerns its own slot only.
LEMMA Reprefixed ==
  ASSUME NEW ns, NEW K, NEW c, NodeOK(ns, K, c), NEW pre \in Path,
         NEW ms, ms[c] = WithPrefix(ns[c], pre)
  PROVE  /\ NodeOK(ms, K, c) /\ ms[c].prefix = pre
         /\ ms[c].terminal = ns[c].terminal /\ ms[c].children = ns[c].children
<1>1. ns[c] = [prefix   |-> ns[c].prefix,
               terminal |-> IF c.at \in K THEN Leaf(c.at) ELSE nil,
               children |-> ns[c].children]
  BY DEF NodeOK
<1>2. /\ ms[c].prefix = pre
      /\ ms[c].terminal = ns[c].terminal /\ ms[c].children = ns[c].children
      /\ ms[c] = [prefix |-> ms[c].prefix, terminal |-> ms[c].terminal,
                  children |-> ms[c].children]
  BY <1>1 DEF WithPrefix
<1>3. ns[c].terminal = IF c.at \in K THEN Leaf(c.at) ELSE nil
  BY <1>1
<1>4. ms[c] = [prefix   |-> ms[c].prefix,
               terminal |-> IF c.at \in K THEN Leaf(c.at) ELSE nil,
               children |-> ms[c].children]
  BY <1>2, <1>3
<1>5. NodeOK(ms, K, c)
  BY <1>2, <1>4 DEF NodeOK
<1> QED BY <1>2, <1>5

\* The node behind a slot goes; what hung from its edge e stays linked, also
\* when it is an inner node c that gets another prefix.
LEMMA NodeRemoved ==
  ASSUME NEW ns, NEW K \in SUBSET Path, NEW path \in Path, IsSlot(ns, path),
         Linked(ns, K, path), NEW r, NodeSlot(ns, K, r, path),
         NEW e \in Byte, NEW c, NEW pre \in Path,
         c \in DOMAIN ns => NodeSlot(ns, K, c, Append(r.at, e)),
         NEW ms, DOMAIN ms = DOMAIN ns \ {r},
         \A s \in DOMAIN ms \ {c} : ms[s] = ns[s],
         c \in DOMAIN ns => ms[c] = WithPrefix(ns[c], pre)
  PROVE  Linked(ms, K, path) /\ SameBeside(ns, K, ms, K, path)
<1>1. DOMAIN ns \subseteq InnerRefs /\ r \in DOMAIN ns /\ r.at \in Path
  BY LinkedTypes, RefKinds DEF NodeSlot
<1>2. Starts(path, r.at) /\ Append(r.at, e) \in Path /\ Starts(path, Append(r.at, e))
  BY <1>1, Deeper DEF NodeSlot
<1>3. c \in DOMAIN ns => c.at \in Path /\ Starts(path, c.at)
  BY <1>1, <1>2, RefKinds, StartsOrder DEF NodeSlot
<1>4. DOMAIN ms \subseteq InnerRefs /\ SameBeside(ns, K, ms, K, path)
  BY <1>1, <1>2, <1>3 DEF SameBeside
<1>5. ASSUME NEW s \in DOMAIN ms
      PROVE  NodeOK(ms, K, s) /\ ms[s].children = ns[s].children
  <2>1. NodeOK(ns, K, s)
    BY DEF Linked
  <2>2. CASE s = c
    BY <2>1, <2>2, Reprefixed
  <2>3. CASE s # c
    <3>1. ms[s] = ns[s]
      BY <2>3
    <3> QED BY <2>1, <3>1 DEF NodeOK
  <2> QED BY <2>2, <2>3
<1>6. ASSUME NEW s \in DOMAIN ms, Starts(path, s.at), NEW b \in Byte
      PROVE  SlotOK(ms, K, ChildIn(ms, s, b), Append(s.at, b))
  <2> DEFINE x == ChildIn(ns, s, b)
             here == Append(s.at, b)
  <2>1. /\ s.at \in Path /\ here # path /\ SlotOK(ns, K, x, here) /\ ChildIn(ms, s, b) = x
        /\ here \in Path
    <3>1. s.at \in Path /\ s \in DOMAIN ns
      BY <1>1, RefKinds
    <3>2. ChildIn(ms, s, b) = x
      BY <1>5 DEF ChildIn
    <3> QED BY <1>6, <3>1, <3>2, Deeper DEF Linked
  <2>2. s \in DOMAIN ns /\ s # r
    OBVIOUS
  <2>3. here # Append(r.at, e)
    <3> DEFINE there == Append(r.at, e)
    <3>1. /\ Len(here) = Len(s.at) + 1 /\ Starts(s.at, here) /\ Len(s.at) \in Nat
          /\ Len(there) = Len(r.at) + 1 /\ Starts(r.at, there) /\ Len(r.at) \in Nat
      BY <1>1, <2>1, AppendStarts, Lengths
    <3> HIDE DEF here, there
    <3>2. here = there => s.at = r.at
      BY <1>1, <2>1, <3>1, StartsOrder
    <3> QED BY <1>1, <2>2, <3>2 DEF Linked, there
  <2>4. ~ NodeSlot(ns, K, r, here)
    BY <1>1, <2>1, <2>2, OnlyHere
  <2>5. ~ (c \in DOMAIN ns /\ NodeSlot(ns, K, c, here))
    <3>1. IsSlot(ns, Append(r.at, e))
      BY <1>1 DEF IsSlot
    <3> QED BY <1>1, <1>2, <2>2, <2>3, <3>1, OnlyHere
  <2> HIDE DEF x, here
  <2>6. \A t \in DOMAIN ms : \E u \in DOMAIN ns : u.at = t.at
    OBVIOUS
  <2>7. NodeSlot(ns, K, x, here) => x \in DOMAIN ms /\ ms[x].prefix = ns[x].prefix
    BY <2>4, <2>5 DEF NodeSlot
  <2>8. SlotOK(ms, K, x, here)
    BY <2>1, <2>6, <2>7, SlotStays
  <2> QED BY <2>1, <2>8 DEF x, here
<1>7. \A s, t \in DOMAIN ms : Starts(path, s.at) /\ s.at = t.at => s = t
  BY DEF Linked
<1>8. Linked(ms, K, path)
  BY <1>4, <1>5, <1>6, <1>7, Replanted
<1> QED BY <1>4, <1>8

\* r is gone; the other nodes keep their edges, and c holds the slot at path.
GivesWay(ns, K, ms, r, path, c) ==
  /\ DOMAIN ms = DOMAIN ns \ {r}
  /\ \A s \in DOMAIN ms : ms[s].children = ns[s].children
  /\ Linked(ms, K, path) /\ SameBeside(ns, K, ms, K, path) /\ SlotOK(ms, K, c, path)

\* A node without children, and one with a single child.
NoEdges(ns, r) == \A b \in Byte : ChildIn(ns, r, b) = nil

OneEdge(ns, r, e) == e \in Byte /\ \A b \in Byte \ {e} : ChildIn(ns, r, b) = nil

\* A node without edges gives way to its terminal.
LEMMA Uprooted ==
  ASSUME NEW ns, NEW K \in SUBSET Path, NEW path \in Path, IsSlot(ns, path),
         Linked(ns, K, path), NEW r, NodeSlot(ns, K, r, path),
         NoEdges(ns, r), NEW ms, ms = Without(ns, r)
  PROVE  GivesWay(ns, K, ms, r, path, ns[r].terminal)
<1>1. DOMAIN ns \subseteq InnerRefs /\ r \in DOMAIN ns /\ r.at \in Path
  BY LinkedTypes, RefKinds DEF NodeSlot
<1>2. DOMAIN ms = DOMAIN ns \ {r} /\ \A s \in DOMAIN ms : ms[s] = ns[s]
  BY DEF Without
<1>3. Linked(ms, K, path) /\ SameBeside(ns, K, ms, K, path)
  <2>1. 0 \in Byte
    BY CapacityAssumption DEF Byte
  <2>2. nil \notin DOMAIN ns
    BY <1>1, RefKinds
  <2>3. <<>> \in Path
    BY StartsOrder
  <2> QED BY <1>2, <2>1, <2>2, <2>3, NodeRemoved
<1>4. ASSUME NEW q \in Path, Starts(path, q), q \in K \/ \E s \in DOMAIN ns : s.at = q
      PROVE  q = r.at
  <2>1. q = r.at \/ \E e \in Byte : Starts(Append(r.at, e), q) /\ ChildIn(ns, r, e) # nil
    BY <1>4, Branching
  <2> QED BY <2>1 DEF NoEdges
<1>5. \A k \in K : Starts(path, k) => k = r.at
  BY <1>4
<1>6. \A s \in DOMAIN ms : ~ Starts(path, s.at)
  <2> SUFFICES ASSUME NEW s \in DOMAIN ns, s # r, Starts(path, s.at) PROVE FALSE
    BY <1>2
  <2>1. s.at \in Path
    BY <1>1, RefKinds
  <2>2. s.at = r.at
    BY <1>4, <2>1
  <2> QED BY <1>1, <2>2 DEF Linked
<1>7. ns[r].terminal = IF r.at \in K THEN Leaf(r.at) ELSE nil
  BY <1>1 DEF Linked, NodeOK
<1>8. ASSUME r.at \in K PROVE SlotOK(ms, K, ns[r].terminal, path)
  <2>1. Leaf(r.at).at = r.at
    BY <1>1, RefKinds
  <2>2. LeafSlot(ms, K, r.at, path)
    BY <1>5, <1>6, <1>8 DEF LeafSlot, NodeSlot
  <2> QED BY <1>3, <1>7, <1>8, <2>1, <2>2 DEF SlotOK
<1>9. ASSUME r.at \notin K PROVE SlotOK(ms, K, ns[r].terminal, path)
  <2>1. EmptySlot(ms, K, path)
    BY <1>5, <1>6, <1>9 DEF EmptySlot
  <2> QED BY <1>3, <1>7, <1>9, <2>1 DEF SlotOK
<1>10. SlotOK(ms, K, ns[r].terminal, path)
  BY <1>8, <1>9
<1> QED BY <1>2, <1>3, <1>10 DEF GivesWay

\* A node with no key of its own and a single edge: everything is behind it.
LEMMA OnlyBranch ==
  ASSUME NEW ns, NEW K \in SUBSET Path, NEW path \in Path,
         Linked(ns, K, path), NEW r, NodeSlot(ns, K, r, path), r.at \notin K,
         NEW e \in Byte, \A b \in Byte \ {e} : ChildIn(ns, r, b) = nil
  PROVE  /\ SlotOK(ns, K, ChildIn(ns, r, e), Append(r.at, e))
         /\ \A k \in K : Starts(path, k) => Starts(Append(r.at, e), k)
         /\ \A s \in DOMAIN ns \ {r} : Starts(path, s.at) => Starts(Append(r.at, e), s.at)
<1>1. DOMAIN ns \subseteq InnerRefs /\ r \in DOMAIN ns /\ r.at \in Path /\ Starts(path, r.at)
  BY LinkedTypes, RefKinds DEF NodeSlot
<1>2. SlotOK(ns, K, ChildIn(ns, r, e), Append(r.at, e))
  BY <1>1, Deeper DEF Linked
<1>3. ASSUME NEW q \in Path, Starts(path, q), q \in K \/ \E s \in DOMAIN ns : s.at = q
      PROVE  q = r.at \/ Starts(Append(r.at, e), q)
  <2>1. q = r.at \/ \E b \in Byte : Starts(Append(r.at, b), q) /\ ChildIn(ns, r, b) # nil
    BY <1>3, Branching
  <2> QED BY <2>1
<1>4. \A k \in K : Starts(path, k) => Starts(Append(r.at, e), k)
  BY <1>3
<1>5. ASSUME NEW s \in DOMAIN ns \ {r}, Starts(path, s.at)
      PROVE  Starts(Append(r.at, e), s.at)
  <2>1. s.at \in Path /\ s.at # r.at
    BY <1>1, RefKinds DEF Linked
  <2> QED BY <1>3, <1>5, <2>1
<1> QED BY <1>2, <1>4, <1>5

\* Such a node gives way to the leaf on its edge.
LEMMA LeafMerged ==
  ASSUME NEW ns, NEW K \in SUBSET Path, NEW path \in Path, IsSlot(ns, path),
         Linked(ns, K, path), NEW r, NodeSlot(ns, K, r, path), r.at \notin K,
         NEW e, OneEdge(ns, r, e), NEW c, c = ChildIn(ns, r, e), IsLeaf(c),
         NEW ms, ms = Without(ns, r)
  PROVE  GivesWay(ns, K, ms, r, path, c)
<1> DEFINE here == Append(r.at, e)
<1>0. e \in Byte /\ \A b \in Byte \ {e} : ChildIn(ns, r, b) = nil
  BY DEF OneEdge
<1>1. DOMAIN ns \subseteq InnerRefs /\ r \in DOMAIN ns /\ r.at \in Path /\ Starts(path, r.at)
  BY LinkedTypes, RefKinds DEF NodeSlot
<1>2. DOMAIN ms = DOMAIN ns \ {r} /\ \A s \in DOMAIN ms : ms[s] = ns[s]
  BY DEF Without
<1>3. nil \notin DOMAIN ns /\ <<>> \in Path
  BY <1>1, RefKinds, StartsOrder
<1>4. Linked(ms, K, path) /\ SameBeside(ns, K, ms, K, path)
  BY <1>0, <1>2, <1>3, NodeRemoved
<1>5. here \in Path /\ Starts(path, here)
  BY <1>0, <1>1, Deeper
<1>6. /\ SlotOK(ns, K, c, here)
      /\ \A k \in K : Starts(path, k) => Starts(here, k)
      /\ \A s \in DOMAIN ns \ {r} : Starts(path, s.at) => Starts(here, s.at)
  BY <1>0, OnlyBranch
<1> HIDE DEF here
<1>7. c = Leaf(c.at) /\ LeafSlot(ns, K, c.at, here)
  BY <1>1, <1>5, <1>6, SlotKinds
<1>8. LeafSlot(ms, K, c.at, path)
  BY <1>2, <1>5, <1>6, <1>7, StartsOrder DEF LeafSlot
<1>9. SlotOK(ms, K, c, path)
  BY <1>7, <1>8 DEF SlotOK
<1> QED BY <1>2, <1>4, <1>9 DEF GivesWay

\* mergePrefixIntoChild: the prefix, the branch byte and the child's prefix are
\* the bytes of the child's path that the slot above has not consumed.
LEMMA PrefixesJoin ==
  ASSUME NEW path \in Path, NEW at \in Path, Starts(path, at), NEW e \in Byte,
         NEW q \in Path, Starts(Append(at, e), q)
  PROVE  From(at, Len(path)) \o <<e>> \o From(q, Len(at) + 1) = From(q, Len(path))
<1> DEFINE m == Len(path)
           n == Len(at)
           x == From(at, m)
           y == From(q, n + 1)
           z == From(q, m)
<1>1. /\ m \in Nat /\ n \in Nat /\ Len(q) \in Nat /\ m <= n /\ n < Len(q)
      /\ Starts(at, q) /\ q[n + 1] = e
  BY AppendStarts, Lengths, StartsOrder
<1>2. m \in 0 .. n /\ n + 1 \in 0 .. Len(q) /\ m \in 0 .. Len(q)
  BY <1>1
<1>3. /\ x \in Path /\ Len(x) = n - m /\ \A j \in 1 .. n - m : x[j] = at[m + j]
      /\ y \in Path /\ Len(y) = Len(q) - (n + 1)
      /\ \A j \in 1 .. Len(q) - (n + 1) : y[j] = q[n + 1 + j]
      /\ z \in Path /\ Len(z) = Len(q) - m /\ \A j \in 1 .. Len(q) - m : z[j] = q[m + j]
  BY <1>2, FromBytes
<1>4. \A j \in 1 .. n : at[j] = q[j]
  BY <1>1, StartsBytewise
<1> HIDE DEF m, n, x, y, z
<1> DEFINE u == x \o <<e>>
           w == u \o y
<1>9. /\ u \in Path /\ Len(u) = Len(x) + 1
      /\ \A j \in 1 .. Len(x) + 1 : u[j] = IF j <= Len(x) THEN x[j] ELSE e
  <2>1. x \in Seq(Byte) /\ <<e>> \in Seq(Byte) /\ Len(<<e>>) = 1 /\ <<e>>[1] = e
    BY <1>3 DEF Path
  <2>2. u \in Seq(Byte) /\ Len(u) = Len(x) + 1
    BY <2>1
  <2>3. \A j \in 1 .. Len(x) + 1 : u[j] = IF j <= Len(x) THEN x[j] ELSE <<e>>[j - Len(x)]
    BY <2>1
  <2>4. \A j \in 1 .. Len(x) + 1 : ~ j <= Len(x) => j - Len(x) = 1
    BY <2>1
  <2> QED BY <2>1, <2>2, <2>3, <2>4 DEF Path
<1> HIDE DEF u
<1>5. /\ w \in Path /\ Len(w) = Len(x) + 1 + Len(y)
      /\ \A j \in 1 .. Len(w) : w[j] = IF j <= Len(x) THEN x[j]
                                       ELSE IF j = Len(x) + 1 THEN e
                                       ELSE y[j - (Len(x) + 1)]
  <2>1. u \in Seq(Byte) /\ y \in Seq(Byte) /\ Len(x) \in Nat
    BY <1>3, <1>9, Lengths DEF Path
  <2>2. /\ w \in Seq(Byte) /\ Len(w) = Len(u) + Len(y)
        /\ \A j \in 1 .. Len(w) : w[j] = IF j <= Len(u) THEN u[j] ELSE y[j - Len(u)]
    BY <2>1
  <2> QED BY <1>9, <2>1, <2>2 DEF Path
<1> HIDE DEF w
<1>6. Len(w) = Len(z)
  BY <1>1, <1>3, <1>5
<1>7. ASSUME NEW j \in 1 .. Len(w)
      PROVE  w[j] = z[j]
  <2>1. j \in 1 .. Len(q) - m /\ z[j] = q[m + j]
    BY <1>3, <1>6
  <2>2. CASE j <= n - m
    <3>1. j \in 1 .. n - m /\ m + j \in 1 .. n
      BY <1>1, <2>2
    <3> QED BY <1>3, <1>4, <1>5, <2>1, <2>2, <3>1
  <2>3. CASE j = n - m + 1
    <3>1. m + j = n + 1 /\ j = Len(x) + 1 /\ ~ j <= Len(x)
      BY <1>1, <1>3, <2>3
    <3> QED BY <1>1, <1>5, <2>1, <3>1
  <2>4. CASE j > n - m + 1
    <3>1. /\ j - (n - m + 1) \in 1 .. Len(q) - (n + 1)
          /\ n + 1 + (j - (n - m + 1)) = m + j
          /\ ~ j <= Len(x) /\ j # Len(x) + 1
          /\ j - (Len(x) + 1) = j - (n - m + 1)
      BY <1>1, <1>3, <2>1, <2>4
    <3> QED BY <1>3, <1>5, <2>1, <3>1
  <2> QED BY <1>1, <2>2, <2>3, <2>4
<1>8. w = z
  BY <1>3, <1>5, <1>6, <1>7, SameString
<1> QED BY <1>8 DEF w, u, x, y, z, m, n

\* r has given way to its child c, which has taken over its prefix and the byte
\* between.
Joined(ns, r, e, c) ==
  [Without(ns, r) EXCEPT ![c].prefix = ns[r].prefix \o <<e>> \o @]

\* Such a node gives way to the inner node on its edge, which takes over its
\* prefix and the edge byte.
LEMMA NodeMerged ==
  ASSUME NEW ns, NEW K \in SUBSET Path, NEW path \in Path, IsSlot(ns, path),
         Linked(ns, K, path), NEW r, NodeSlot(ns, K, r, path), r.at \notin K,
         NEW e, OneEdge(ns, r, e), NEW c, c = ChildIn(ns, r, e), IsInner(c),
         NEW ms, ms = Joined(ns, r, e, c)
  PROVE  GivesWay(ns, K, ms, r, path, c)
<1>0. e \in Byte /\ \A b \in Byte \ {e} : ChildIn(ns, r, b) = nil
  BY DEF OneEdge
<1> DEFINE here == Append(r.at, e)
           pre == ns[r].prefix \o <<e>> \o ns[c].prefix
<1>1. DOMAIN ns \subseteq InnerRefs /\ r \in DOMAIN ns /\ r.at \in Path /\ Starts(path, r.at)
  BY LinkedTypes, RefKinds DEF NodeSlot
<1>2. here \in Path /\ Starts(path, here) /\ Starts(r.at, here) /\ Len(here) = Len(r.at) + 1
  BY <1>0, <1>1, Deeper
<1>3. /\ SlotOK(ns, K, c, here)
      /\ \A k \in K : Starts(path, k) => Starts(here, k)
      /\ \A s \in DOMAIN ns \ {r} : Starts(path, s.at) => Starts(here, s.at)
  BY <1>0, OnlyBranch
<1>4. NodeSlot(ns, K, c, here)
  BY <1>1, <1>2, <1>3, SlotKinds
<1>5. c \in DOMAIN ns /\ c.at \in Path /\ c # r
  <2>1. c \in DOMAIN ns /\ c.at \in Path /\ Len(here) <= Len(c.at)
    BY <1>1, <1>2, <1>4, RefKinds, StartsOrder DEF NodeSlot
  <2>2. Len(r.at) \in Nat
    BY <1>1, Lengths
  <2> QED BY <1>2, <2>1, <2>2
<1>6. pre = From(c.at, Len(path)) /\ pre \in Path
  <2>1. ns[r].prefix = From(r.at, Len(path)) /\ ns[c].prefix = From(c.at, Len(r.at) + 1)
    BY <1>2, <1>4 DEF NodeSlot
  <2>2. pre = From(c.at, Len(path))
    <3>1. Starts(path, r.at) /\ Starts(Append(r.at, e), c.at)
      BY <1>1, <1>4 DEF NodeSlot
    <3>2. From(r.at, Len(path)) \o <<e>> \o From(c.at, Len(r.at) + 1) = From(c.at, Len(path))
      BY <1>0, <1>1, <1>5, <3>1, PrefixesJoin
    <3> QED BY <2>1, <3>2
  <2>3. Starts(path, c.at)
    BY <1>2, <1>4, <1>5, StartsOrder DEF NodeSlot
  <2>4. Len(path) \in 0 .. Len(c.at)
    BY <1>5, <2>3, StartsOrder, Lengths
  <2> QED BY <1>5, <2>2, <2>4, FromBytes
<1> HIDE DEF here, pre
<1>7. /\ DOMAIN ms = DOMAIN ns \ {r} /\ c \in DOMAIN ms
      /\ \A s \in DOMAIN ms \ {c} : ms[s] = ns[s]
      /\ ms[c] = WithPrefix(ns[c], pre)
  BY <1>5 DEF Without, WithPrefix, pre, Joined
<1>8. /\ ms[c].prefix = pre /\ ms[c].children = ns[c].children
  <2>1. NodeOK(ns, K, c)
    BY <1>5 DEF Linked
  <2> QED BY ONLY <1>6, <1>7, <2>1, Reprefixed
<1>9. Linked(ms, K, path) /\ SameBeside(ns, K, ms, K, path)
  BY ONLY <1>4, <1>6, <1>7, NodeRemoved, K \in SUBSET Path, path \in Path, IsSlot(ns, path),
          Linked(ns, K, path), NodeSlot(ns, K, r, path), <1>0 DEF here
<1>10. NodeSlot(ms, K, c, path)
  <2>1. Starts(path, c.at)
    BY <1>2, <1>4, <1>5, StartsOrder DEF NodeSlot
  <2>2. \A k \in K : Starts(path, k) => Starts(c.at, k)
    BY <1>3, <1>4 DEF NodeSlot
  <2>3. \A s \in DOMAIN ms : Starts(path, s.at) => Starts(c.at, s.at)
    BY <1>3, <1>4, <1>7 DEF NodeSlot
  <2> QED BY <1>6, <1>7, <1>8, <2>1, <2>2, <2>3 DEF NodeSlot
<1> QED BY <1>7, <1>8, <1>9, <1>10 DEF SlotOK, GivesWay
-----------------------------------------------------------------------------
(***************************************************************************)
(* Types and counts.                                                       *)
(***************************************************************************)
\* The children of a node can be counted.
LEMMA CountType ==
  ASSUME NEW m, DOMAIN m \subseteq Byte
  PROVE  IsFiniteSet(DOMAIN m) /\ Count(m) \in Nat /\ Count(m) <= node256Capacity
<1>1. IsFiniteSet(DOMAIN m) /\ Cardinality(DOMAIN m) <= Cardinality(Byte)
  BY ByteFinite, FS_Subset
<1> QED BY <1>1, ByteFinite, FS_CardinalityType DEF Count

\* A count determines the type of a node that has it between two calls.
LEMMA KindUnique ==
  ASSUME NEW j \in InnerKinds, NEW k \in InnerKinds, NEW n \in Nat,
         KindFits(j, n), KindFits(k, n)
  PROVE  j = k
  BY CapacityAssumption DEF InnerKinds, KindFits, Capacity, Smaller

\* addOrGrow: the node has the type for one child more.
LEMMA GrownFits ==
  ASSUME NEW kind \in InnerKinds, NEW n \in Nat, KindFits(kind, n),
         n + 1 <= node256Capacity
  PROVE  GrownKind(kind, n) \in InnerKinds /\ KindFits(GrownKind(kind, n), n + 1)
  BY CapacityAssumption DEF InnerKinds, KindFits, Capacity, Smaller, Larger, GrownKind

\* reshape: the node has the type for as many children, or for one less.
LEMMA ReshapedFits ==
  ASSUME NEW kind \in InnerKinds, NEW n \in Nat, KindFits(kind, n),
         NEW m \in Nat, m = n \/ m = n - 1
  PROVE  /\ ReshapedKind(kind, m) \in InnerKinds /\ KindFits(ReshapedKind(kind, m), m)
         /\ m = 1 => kind = "node4"
  BY CapacityAssumption DEF InnerKinds, KindFits, Capacity, Smaller, ReshapedKind

\* A node4 can have one child or two.
LEMMA FewFit ==
  ASSUME NEW n \in Nat, n <= 2
  PROVE  KindFits("node4", n)
  BY CapacityAssumption DEF KindFits, Capacity

\* Two children, or none but one.
LEMMA Singled ==
  ASSUME NEW S, IsFiniteSet(S)
  PROVE  /\ Cardinality(S) \in Nat
         /\ Cardinality(S) = 0 <=> S = {}
         /\ Cardinality(S) = 1 => \E x \in S : S = {x}
         /\ \A x : S \subseteq {x} => Cardinality(S) <= 1
         /\ \A x, y : x \in S /\ y \in S /\ x # y => Cardinality(S) > 1
<1>1. Cardinality(S) \in Nat /\ (Cardinality(S) = 0 <=> S = {})
  BY FS_CardinalityType, FS_EmptySet
<1>2. Cardinality(S) = 1 => \E x \in S : S = {x}
  BY FS_Singleton
<1>3. ASSUME NEW x, S \subseteq {x} PROVE Cardinality(S) <= 1
  <2>1. IsFiniteSet({x}) /\ Cardinality({x}) = 1
    BY FS_Singleton
  <2> QED BY <1>3, <2>1, FS_Subset
<1>4. ASSUME NEW x \in S, NEW y \in S, x # y PROVE Cardinality(S) > 1
  <2>1. Cardinality(S) # 0 /\ Cardinality(S) # 1
    BY <1>1, <1>2, <1>4
  <2> QED BY <1>1, <2>1
<1> QED BY <1>1, <1>2, <1>3, <1>4

\* After a key is dropped there is still a key below every node.
LEMMA StillInhabited ==
  ASSUME NEW ns, NEW K \in SUBSET Path, Linked(ns, K, <<>>), AllFull(ns, K),
         NEW r \in DOMAIN ns, NEW key \in Path
  PROVE  Inhabited(K \ {key}, r)
<1> DEFINE m == ns[r].children
<1>1. DOMAIN ns \subseteq InnerRefs /\ r.at \in Path /\ <<>> \in Path
  BY LinkedTypes, RefKinds, StartsOrder
<1>2. DOMAIN m \subseteq Byte /\ \A b \in DOMAIN m : m[b] # nil
  BY DEF Linked, NodeOK
<1>3. IsFiniteSet(DOMAIN m) /\ Count(m) # 0 /\ (r.at \in K \/ Count(m) # 1)
  BY <1>2, CountType DEF AllFull, Full
<1>4. ASSUME NEW b \in DOMAIN m, ~ Starts(Append(r.at, b), key)
      PROVE  Inhabited(K \ {key}, r)
  <2> DEFINE here == Append(r.at, b)
             c == ChildIn(ns, r, b)
  <2>1. /\ here \in Path /\ Starts(r.at, here) /\ SlotOK(ns, K, c, here) /\ c # nil
    <3>1. b \in Byte /\ c = m[b] /\ c # nil
      BY <1>2 DEF ChildIn
    <3>2. here \in Path /\ Starts(r.at, here) /\ here # <<>>
      BY <1>1, <3>1, AppendStarts
    <3> QED BY <3>1, <3>2 DEF Linked
  <2> HIDE DEF here, c
  <2>2. PICK k \in K : Starts(here, k)
    <3>1. CASE IsLeaf(c)
      BY <1>1, <2>1, <3>1, SlotKinds DEF LeafSlot
    <3>2. CASE IsInner(c)
      <4>1. NodeSlot(ns, K, c, here)
        BY <1>1, <2>1, <3>2, SlotKinds
      <4>2. PICK k \in K : Starts(c.at, k)
        BY <4>1 DEF NodeSlot, AllFull, Inhabited
      <4>3. c.at \in Path
        BY <1>1, <4>1, RefKinds DEF NodeSlot
      <4> QED BY <2>1, <4>1, <4>2, <4>3, StartsOrder DEF NodeSlot
    <3> QED BY <1>1, <2>1, <3>1, <3>2, SlotKinds
  <2>3. k # key
    BY <1>4, <2>2 DEF here
  <2>4. Starts(r.at, k)
    BY <1>1, <2>1, <2>2, StartsOrder
  <2> QED BY <2>3, <2>4 DEF Inhabited
<1>5. ASSUME \A b \in DOMAIN m : Starts(Append(r.at, b), key)
      PROVE  Inhabited(K \ {key}, r)
  <2>1. \A b \in DOMAIN m : b = key[Len(r.at) + 1] /\ Len(r.at) < Len(key)
    BY <1>1, <1>2, <1>5, AppendStarts
  <2>2. DOMAIN m \subseteq {key[Len(r.at) + 1]}
    BY <2>1
  <2>3. Count(m) = 1
    <3>1. Cardinality(DOMAIN m) \in Nat /\ Cardinality(DOMAIN m) <= 1
      BY <1>3, <2>2, Singled
    <3> QED BY <1>3, <3>1 DEF Count
  <2>4. r.at \in K /\ r.at # key
    <3>1. PICK b \in DOMAIN m : TRUE
      BY <1>3, Singled DEF Count
    <3>2. Len(r.at) < Len(key)
      BY <2>1, <3>1
    <3> QED BY <1>1, <1>3, <2>3, <3>2, Lengths
  <2> QED BY <1>1, <2>4, StartsOrder DEF Inhabited
<1> QED BY <1>4, <1>5

-----------------------------------------------------------------------------
(***************************************************************************)
(* A whole tree is the one its keys determine.                             *)
(***************************************************************************)
\* The edges of a node are the bytes with which the keys below it go on.
LEMMA EdgesAreNexts ==
  ASSUME NEW ns, NEW K \in SUBSET Path, Linked(ns, K, <<>>), AllFull(ns, K),
         NEW r \in DOMAIN ns
  PROVE  DOMAIN ns[r].children = Nexts(K, r.at)
<1>1. DOMAIN ns \subseteq InnerRefs /\ r.at \in Path
  BY LinkedTypes, RefKinds
<1>2. DOMAIN ns[r].children \subseteq Byte /\ \A b \in DOMAIN ns[r].children : ns[r].children[b] # nil
  BY DEF Linked, NodeOK
<1>3. ASSUME NEW b \in Byte
      PROVE  /\ Append(r.at, b) \in Path
             /\ SlotOK(ns, K, ChildIn(ns, r, b), Append(r.at, b))
  BY <1>1, AppendStarts DEF Linked
<1>4. ASSUME NEW b \in DOMAIN ns[r].children
      PROVE  b \in Nexts(K, r.at)
  <2> DEFINE here == Append(r.at, b)
             c == ChildIn(ns, r, b)
  <2>1. here \in Path /\ SlotOK(ns, K, c, here) /\ c # nil
    BY <1>2, <1>3 DEF ChildIn
  <2> HIDE DEF here, c
  <2>2. PICK k \in K : Starts(here, k)
    <3>1. CASE IsLeaf(c)
      BY <1>1, <2>1, <3>1, SlotKinds DEF LeafSlot
    <3>2. CASE IsInner(c)
      <4>1. NodeSlot(ns, K, c, here)
        BY <1>1, <2>1, <3>2, SlotKinds
      <4>2. PICK k \in K : Starts(c.at, k)
        BY <4>1 DEF NodeSlot, AllFull, Inhabited
      <4>3. c.at \in Path
        BY <1>1, <4>1, RefKinds DEF NodeSlot
      <4> QED BY <2>1, <4>1, <4>2, <4>3, StartsOrder DEF NodeSlot
    <3> QED BY <1>1, <2>1, <3>1, <3>2, SlotKinds
  <2>3. Starts(r.at, k) /\ Len(r.at) < Len(k) /\ k[Len(r.at) + 1] = b
    BY <1>1, <1>2, <2>2, AppendStarts DEF here
  <2>4. k # r.at
    BY <1>1, <2>3, Lengths
  <2> QED BY <2>3, <2>4 DEF Nexts, Under
<1>5. ASSUME NEW k \in Under(K, r.at) \ {r.at}
      PROVE  k[Len(r.at) + 1] \in DOMAIN ns[r].children
  <2> DEFINE b == k[Len(r.at) + 1]
             here == Append(r.at, b)
  <2>1. b \in Byte /\ Starts(here, k)
    BY <1>1, NextByte DEF Under
  <2>2. here \in Path /\ SlotOK(ns, K, ChildIn(ns, r, b), here)
    BY <1>3, <2>1
  <2>3. ~ EmptySlot(ns, K, here)
    BY <2>1 DEF EmptySlot, Under
  <2>4. ChildIn(ns, r, b) # nil
    BY <1>1, <2>2, <2>3, SlotKinds
  <2> QED BY <2>4 DEF ChildIn
<1> QED BY <1>4, <1>5 DEF Nexts

\* Where the keys part company behind a slot there is a node on the way.
LEMMA NodeOnTheWay ==
  ASSUME NEW ns, NEW K \in SUBSET Path, DOMAIN ns \subseteq InnerRefs,
         NEW here \in Path, NEW c, SlotOK(ns, K, c, here),
         NEW path \in Path, Starts(here, path), Forks(K, path)
  PROVE  c \in DOMAIN ns /\ Starts(here, c.at) /\ Starts(c.at, path)
<1>1. PICK k \in K : Starts(path, k) /\ k # path
  BY DEF Forks, Nexts, Under
<1>2. \A q \in Path : Starts(path, q) => Starts(here, q)
  BY StartsOrder
<1>3. ~ EmptySlot(ns, K, here)
  BY <1>1, <1>2 DEF EmptySlot
<1>4. ASSUME NEW x, Nexts(K, path) \subseteq {x} PROVE path \in K
  <2>1. IsFiniteSet({x})
    BY FS_Singleton
  <2>2. IsFiniteSet(Nexts(K, path))
    BY <1>4, <2>1, FS_Subset
  <2>3. Cardinality(Nexts(K, path)) \in Nat /\ Cardinality(Nexts(K, path)) <= 1
    BY <1>4, <2>2, Singled
  <2> QED BY <2>3 DEF Forks
<1>5. ASSUME LeafSlot(ns, K, c.at, here) PROVE FALSE
  <2>1. \A q \in K : Starts(path, q) => q = k
    BY <1>1, <1>2, <1>5 DEF LeafSlot
  <2>2. Nexts(K, path) \subseteq {k[Len(path) + 1]}
    BY <2>1 DEF Nexts, Under
  <2>3. path \in K
    BY <1>4, <2>2
  <2> QED BY <1>1, <2>1, <2>3, StartsOrder
<1>6. NodeSlot(ns, K, c, here)
  BY <1>3, <1>5 DEF SlotOK
<1>7. c.at \in Path /\ Len(c.at) \in Nat /\ Len(path) \in Nat
  BY <1>6, RefKinds, Lengths DEF NodeSlot
<1>8. Starts(c.at, k) /\ \A q \in K : Starts(path, q) => Starts(c.at, q)
  BY <1>1, <1>2, <1>6 DEF NodeSlot
<1>9. CASE Len(c.at) <= Len(path)
  <2>1. Starts(c.at, path)
    BY <1>1, <1>7, <1>8, <1>9, StartsOrder
  <2> QED BY <1>6, <2>1 DEF NodeSlot
<1>10. CASE Len(path) < Len(c.at)
  <2>1. path \notin K
    BY <1>7, <1>8, <1>10, StartsOrder
  <2>2. \A q \in K : Starts(path, q) => q[Len(path) + 1] = c.at[Len(path) + 1]
    <3>1. Len(path) + 1 \in 1 .. Len(c.at)
      BY <1>7, <1>10
    <3> QED BY <1>7, <1>8, <3>1, StartsBytewise
  <2>3. Nexts(K, path) \subseteq {c.at[Len(path) + 1]}
    BY <2>2 DEF Nexts, Under
  <2> QED BY <1>4, <2>1, <2>3
<1> QED BY <1>7, <1>9, <1>10

\* The paths of the nodes are those where the keys part company.
LEMMA NodesAreForks ==
  ASSUME NEW ns, NEW K \in SUBSET Path, NEW top, Whole(ns, K, top)
  PROVE  InnerPaths(K) = {r.at : r \in DOMAIN ns}
<1>1. /\ Linked(ns, K, <<>>) /\ AllFull(ns, K) /\ SlotOK(ns, K, top, <<>>)
      /\ DOMAIN ns \subseteq InnerRefs /\ <<>> \in Path
      /\ \A r \in DOMAIN ns : r.at \in Path
  BY LinkedTypes, RefKinds, StartsOrder DEF Whole
<1>2. ASSUME NEW r \in DOMAIN ns
      PROVE  r.at \in InnerPaths(K)
  <2> DEFINE m == ns[r].children
  <2>1. PICK k \in K : Starts(r.at, k)
    BY <1>1 DEF AllFull, Inhabited
  <2>2. r.at = Upto(k, Len(r.at)) /\ Len(r.at) \in 0 .. Len(k)
    BY <1>1, <2>1, UptoOfStart, StartsOrder, Lengths
  <2>3. DOMAIN m = Nexts(K, r.at)
    BY <1>1, EdgesAreNexts
  <2>4. DOMAIN m \subseteq Byte
    BY <1>1 DEF Linked, NodeOK
  <2>5. /\ IsFiniteSet(DOMAIN m) /\ Cardinality(DOMAIN m) \in Nat
        /\ Cardinality(DOMAIN m) # 0 /\ (r.at \in K \/ Cardinality(DOMAIN m) # 1)
    BY <1>1, <2>4, CountType DEF AllFull, Full, Count
  <2> HIDE DEF m
  <2>6. DOMAIN m # {} /\ (r.at \in K \/ Cardinality(DOMAIN m) > 1)
    BY <2>5, Singled
  <2>7. Forks(K, r.at)
    BY <2>3, <2>6 DEF Forks
  <2>8. r.at \in UNION {{Upto(q, i) : i \in 0 .. Len(q)} : q \in K}
    BY <2>2
  <2> QED BY <2>7, <2>8 DEF InnerPaths
<1>3. ASSUME NEW path \in InnerPaths(K)
      PROVE  \E r \in DOMAIN ns : r.at = path
  <2>1. path \in Path /\ Forks(K, path) /\ Len(path) \in Nat
    <3>1. PICK k \in K : \E i \in 0 .. Len(k) : path = Upto(k, i)
      BY DEF InnerPaths
    <3> QED BY <3>1, UptoStarts, Lengths DEF InnerPaths
  <2> DEFINE Gap(r) == Len(path) - Len(r.at)
             On == {r \in DOMAIN ns : Starts(r.at, path)}
             S == {Gap(r) : r \in On}
  <2>2. \A r \in On : Gap(r) \in Nat /\ Len(r.at) \in Nat /\ Len(r.at) <= Len(path)
    BY <1>1, <2>1, Lengths, StartsOrder
  <2>3. top \in On
    <3>1. top \in DOMAIN ns /\ Starts(top.at, path)
      BY <1>1, <2>1, NodeOnTheWay, StartsOrder
    <3> QED BY <3>1
  <2>4. PICK r \in On : \A s \in On : Len(s.at) <= Len(r.at)
    <3>1. S \subseteq Nat /\ S # {}
      BY <2>2, <2>3
    <3>2. PICK x \in S : \A y \in S : x <= y
      BY <3>1, LeastNumber
    <3>3. PICK r \in On : x = Gap(r)
      OBVIOUS
    <3>4. \A s \in On : Gap(r) <= Gap(s)
      BY <3>2, <3>3
    <3> QED BY <2>1, <2>2, <3>4
  <2>5. r.at = path
    <3> SUFFICES ASSUME r.at # path PROVE FALSE
      OBVIOUS
    <3>1. /\ Len(r.at) < Len(path) /\ path[Len(r.at) + 1] \in Byte
          /\ Starts(Append(r.at, path[Len(r.at) + 1]), path)
      BY <1>1, <2>1, NextByte
    <3> DEFINE b == path[Len(r.at) + 1]
               here == Append(r.at, b)
               c == ChildIn(ns, r, b)
    <3>2. /\ here \in Path /\ here # <<>> /\ Len(here) = Len(r.at) + 1
          /\ SlotOK(ns, K, c, here) /\ Starts(here, path)
      <4>1. here \in Path /\ here # <<>> /\ Len(here) = Len(r.at) + 1
        BY <1>1, <3>1, AppendStarts
      <4>2. SlotOK(ns, K, c, here)
        BY <1>1, <3>1, <4>1 DEF Linked
      <4> QED BY <3>1, <4>1, <4>2
    <3> HIDE DEF here, c
    <3>3. c \in DOMAIN ns /\ Starts(here, c.at) /\ Starts(c.at, path)
      BY <1>1, <2>1, <3>2, NodeOnTheWay
    <3>4. Len(here) <= Len(c.at) /\ Len(c.at) <= Len(r.at)
      BY <1>1, <2>4, <3>2, <3>3, StartsOrder
    <3> QED BY <2>2, <3>2, <3>3, <3>4
  <2> QED BY <2>5
<1> QED BY <1>2, <1>3

\* A node is what the reference definition puts at its path.
LEMMA NodeIsRefAt ==
  ASSUME NEW ns, NEW K \in SUBSET Path, Linked(ns, K, <<>>), AllFull(ns, K),
         NEW r \in DOMAIN ns
  PROVE  RefAt(K, r.at) = r
<1> DEFINE n == Cardinality(Nexts(K, r.at))
<1>1. r \in InnerRefs /\ r.kind \in InnerKinds
  BY LinkedTypes, RefKinds
<1>2. n \in Nat /\ KindFits(r.kind, n)
  <2>1. DOMAIN ns[r].children = Nexts(K, r.at)
    BY EdgesAreNexts
  <2>2. DOMAIN ns[r].children \subseteq Byte
    BY DEF Linked, NodeOK
  <2> QED BY <2>1, <2>2, CountType DEF AllFull, Full, Count
<1> HIDE DEF n
<1>3. \A j \in InnerKinds : KindFits(j, n) => j = r.kind
  BY <1>1, <1>2, KindUnique
<1>4. (CHOOSE kind \in InnerKinds : KindFits(kind, n)) = r.kind
  BY <1>1, <1>2, <1>3
<1>5. r = [kind |-> r.kind, at |-> r.at]
  BY <1>1 DEF InnerRefs
<1> QED BY <1>4, <1>5 DEF RefAt, n

\* A slot holds what the reference definition puts there.
LEMMA SlotIsTop ==
  ASSUME NEW ns, NEW K \in SUBSET Path, NEW top, Whole(ns, K, top),
         NEW path \in Path, NEW c, SlotOK(ns, K, c, path)
  PROVE  Top(K, path) = c
<1> DEFINE below == {q \in InnerPaths(K) : Starts(path, q)}
<1>1. /\ Linked(ns, K, <<>>) /\ AllFull(ns, K) /\ DOMAIN ns \subseteq InnerRefs
      /\ \A r \in DOMAIN ns : r.at \in Path
  BY LinkedTypes, RefKinds DEF Whole
<1>2. InnerPaths(K) = {r.at : r \in DOMAIN ns}
  BY NodesAreForks
<1>3. below = {r.at : r \in {s \in DOMAIN ns : Starts(path, s.at)}}
  BY <1>2
<1>4. CASE c = nil /\ EmptySlot(ns, K, path)
  <2>1. below = {} /\ Under(K, path) = {}
    BY <1>3, <1>4 DEF EmptySlot, Under
  <2> QED BY <1>4, <2>1 DEF Top
<1>5. CASE c = Leaf(c.at) /\ LeafSlot(ns, K, c.at, path)
  <2>1. below = {}
    BY <1>3, <1>5 DEF LeafSlot
  <2>2. Under(K, path) = {c.at}
    BY <1>5 DEF LeafSlot, Under
  <2>3. (CHOOSE k \in Under(K, path) : TRUE) = c.at
    BY <2>2
  <2> QED BY <1>5, <2>1, <2>2, <2>3 DEF Top
<1>6. CASE NodeSlot(ns, K, c, path)
  <2>1. c.at \in below /\ \A q \in below : Starts(c.at, q) /\ q \in Path
    BY <1>1, <1>3, <1>6 DEF NodeSlot
  <2> HIDE DEF below
  <2>2. c.at \in Path /\ \A q \in below : Len(c.at) <= Len(q)
    BY <2>1, StartsOrder
  <2>3. \A q \in below : (\A r \in below : Len(q) <= Len(r)) => q = c.at
    <3> SUFFICES ASSUME NEW q \in below, \A r \in below : Len(q) <= Len(r)
                 PROVE  q = c.at
      OBVIOUS
    <3>1. Len(q) <= Len(c.at) /\ Len(c.at) <= Len(q) /\ Len(q) \in Nat /\ Len(c.at) \in Nat
      BY <2>1, <2>2, Lengths
    <3>2. Len(q) = Len(c.at)
      BY <3>1
    <3> QED BY <2>1, <2>2, <3>2, StartsOrder
  <2>4. (CHOOSE q \in below : \A r \in below : Len(q) <= Len(r)) = c.at
    BY <2>1, <2>2, <2>3
  <2>5. RefAt(K, c.at) = c
    BY <1>1, <1>6, NodeIsRefAt DEF NodeSlot
  <2> QED BY <2>1, <2>4, <2>5 DEF Top, below
<1> QED BY <1>4, <1>5, <1>6 DEF SlotOK

\* A node's prefix is what its path does not share with the node above.
LEMMA PrefixIsPrefixAt ==
  ASSUME NEW ns, NEW K \in SUBSET Path, NEW top, Whole(ns, K, top),
         NEW r \in DOMAIN ns
  PROVE  PrefixAt(K, r.at) = ns[r].prefix
<1> DEFINE path == r.at
           above == {i \in 0 .. Len(path) - 1 : Upto(path, i) \in InnerPaths(K)}
<1>1. /\ Linked(ns, K, <<>>) /\ SlotOK(ns, K, top, <<>>) /\ DOMAIN ns \subseteq InnerRefs
      /\ \A s \in DOMAIN ns : s.at \in Path
      /\ \A s, t \in DOMAIN ns : s.at = t.at => s = t
      /\ <<>> \in Path /\ Len(<<>>) = 0 /\ path \in Path
      /\ InnerPaths(K) = {s.at : s \in DOMAIN ns}
  <2>1. Linked(ns, K, <<>>) /\ SlotOK(ns, K, top, <<>>)
    BY DEF Whole
  <2>2. DOMAIN ns \subseteq InnerRefs /\ \A s \in DOMAIN ns : s.at \in Path
    BY <2>1, LinkedTypes, RefKinds
  <2>3. \A s, t \in DOMAIN ns : s.at = t.at => s = t
    BY <2>1 DEF Linked
  <2> QED BY <2>1, <2>2, <2>3, NodesAreForks, StartsOrder
<1>2. Len(path) \in Nat /\ above \subseteq Nat
  BY <1>1, Lengths
<1> HIDE DEF path
\* A slot on the way to r holds r, unless there is a node between them.
<1>3. ASSUME NEW here \in Path, NEW c, SlotOK(ns, K, c, here), Starts(here, path),
             \A i \in above : ~ Len(here) <= i
      PROVE  ns[r].prefix = From(path, Len(here))
  <2>1. NodeSlot(ns, K, c, here)
    BY <1>3 DEF SlotOK, EmptySlot, LeafSlot, path
  <2>2. c \in DOMAIN ns /\ Starts(c.at, path) /\ c.at \in Path /\ Starts(here, c.at)
    BY <1>1, <1>3, <2>1 DEF NodeSlot, path
  <2>3. c = r
    <3> SUFFICES ASSUME c # r PROVE FALSE
      OBVIOUS
    <3>1. c.at # path
      BY <1>1, <2>2 DEF path
    <3>2. /\ Len(c.at) \in Nat /\ Len(c.at) <= Len(path) /\ Len(c.at) # Len(path)
          /\ Len(here) <= Len(c.at)
      BY <1>1, <1>3, <2>2, <3>1, Lengths, StartsOrder
    <3>3. Upto(path, Len(c.at)) = c.at
      BY <1>1, <2>2, UptoOfStart
    <3>4. Len(c.at) \in above
      BY <1>1, <1>2, <2>2, <3>2, <3>3
    <3> QED BY <1>3, <3>2, <3>4
  <2> QED BY <2>1, <2>3 DEF NodeSlot, path
<1>4. CASE above = {}
  <2>1. ns[r].prefix = From(path, 0)
    BY <1>1, <1>3, <1>4, StartsOrder
  <2>2. From(path, 0) = path
    <3>1. 0 \in 0 .. Len(path)
      BY <1>2
    <3>2. /\ From(path, 0) \in Path /\ Len(From(path, 0)) = Len(path)
          /\ \A j \in 1 .. Len(path) : From(path, 0)[j] = path[j]
      BY <1>1, <1>2, <3>1, FromBytes
    <3> QED BY <1>1, <3>2, SameString
  <2> QED BY <1>4, <2>1, <2>2 DEF PrefixAt, path
<1>5. CASE above # {}
  <2>1. PICK i \in above : \A j \in above : j <= i
    <3> DEFINE S == {Len(path) - i : i \in above}
    <3>1. S \subseteq Nat /\ S # {}
      BY <1>2, <1>5
    <3>2. PICK x \in S : \A y \in S : x <= y
      BY <3>1, LeastNumber
    <3>3. PICK i \in above : x = Len(path) - i
      OBVIOUS
    <3>4. \A j \in above : Len(path) - i <= Len(path) - j
      BY <3>2, <3>3
    <3> QED BY <1>2, <3>4
  <2>2. (CHOOSE j \in above : \A k \in above : k <= j) = i
    BY <1>2, <2>1
  <2>3. PICK s \in DOMAIN ns : s.at = Upto(path, i)
    BY <1>1, <2>1
  <2>4. /\ s.at \in Path /\ Len(s.at) = i /\ Starts(s.at, path) /\ s.at # path /\ i \in Nat
    <3>1. i \in 0 .. Len(path) /\ i # Len(path)
      BY <1>2, <2>1
    <3> QED BY <1>1, <2>3, <3>1, UptoStarts
  <2> DEFINE b == path[Len(s.at) + 1]
             here == Append(s.at, b)
             c == ChildIn(ns, s, b)
  <2>5. b \in Byte /\ Starts(here, path)
    BY <1>1, <2>4, NextByte
  <2>6. here \in Path /\ here # <<>> /\ Len(here) = i + 1
    BY <2>4, <2>5, AppendStarts
  <2>7. SlotOK(ns, K, c, here)
    BY <1>1, <2>5, <2>6 DEF Linked
  <2> HIDE DEF b, here, c
  <2>8. \A j \in above : ~ Len(here) <= j
    BY <1>2, <2>1, <2>4, <2>6
  <2>9. ns[r].prefix = From(path, i + 1)
    BY <1>3, <2>5, <2>6, <2>7, <2>8
  <2>10. i + 1 = 1 + i
    BY <2>4
  <2> QED BY <1>5, <2>2, <2>9, <2>10 DEF PrefixAt, path
<1> QED BY <1>4, <1>5

\* A whole tree is determined by its keys: no history shows in it.
THEOREM WholeIsShape ==
  ASSUME NEW ns, NEW K \in SUBSET Path, NEW top, Whole(ns, K, top), IsMap(ns)
  PROVE  top = Top(K, <<>>) /\ ns = ShapeOf(K)
<1>1. /\ Linked(ns, K, <<>>) /\ AllFull(ns, K) /\ SlotOK(ns, K, top, <<>>)
      /\ DOMAIN ns \subseteq InnerRefs /\ <<>> \in Path
      /\ InnerPaths(K) = {r.at : r \in DOMAIN ns}
  BY LinkedTypes, NodesAreForks, StartsOrder DEF Whole
<1>2. top = Top(K, <<>>)
  BY <1>1, SlotIsTop
<1> DEFINE refs == {RefAt(K, path) : path \in InnerPaths(K)}
           Node(r) == [prefix   |-> PrefixAt(K, r.at),
                       terminal |-> IF r.at \in K THEN Leaf(r.at) ELSE nil,
                       children |-> [b \in Nexts(K, r.at) |-> Top(K, Append(r.at, b))]]
<1>3. DOMAIN ns = refs
  <2>1. \A r \in DOMAIN ns : RefAt(K, r.at) = r
    BY <1>1, NodeIsRefAt
  <2>2. ASSUME NEW r \in DOMAIN ns
        PROVE  r \in refs
    <3>1. r.at \in InnerPaths(K)
      BY <1>1
    <3> QED BY <2>1, <3>1
  <2>3. ASSUME NEW r \in refs
        PROVE  r \in DOMAIN ns
    <3>1. PICK path \in InnerPaths(K) : r = RefAt(K, path)
      OBVIOUS
    <3>2. PICK s \in DOMAIN ns : path = s.at
      BY <1>1
    <3> QED BY <2>1, <3>1, <3>2
  <2> HIDE DEF refs
  <2> QED BY <2>2, <2>3
<1>4. ASSUME NEW r \in DOMAIN ns
      PROVE  ns[r] = Node(r)
  <2> DEFINE m == ns[r].children
  <2>1. /\ ns[r] = [prefix   |-> ns[r].prefix,
                    terminal |-> IF r.at \in K THEN Leaf(r.at) ELSE nil,
                    children |-> m]
        /\ IsMap(m) /\ DOMAIN m \subseteq Byte /\ r.at \in Path
    BY <1>1, RefKinds DEF Linked, NodeOK
  <2>2. ns[r].prefix = PrefixAt(K, r.at)
    BY PrefixIsPrefixAt
  <2>3. DOMAIN m = Nexts(K, r.at)
    BY <1>1, EdgesAreNexts
  <2>4. ASSUME NEW b \in DOMAIN m
        PROVE  m[b] = Top(K, Append(r.at, b))
    <3> DEFINE here == Append(r.at, b)
               c == ChildIn(ns, r, b)
    <3>1. here \in Path /\ here # <<>> /\ b \in Byte
      BY <2>1, AppendStarts
    <3>2. SlotOK(ns, K, c, here) /\ c = m[b]
      BY <1>1, <3>1 DEF Linked, ChildIn
    <3> HIDE DEF here, c
    <3>3. Top(K, here) = c
      BY <3>1, <3>2, SlotIsTop
    <3> QED BY <3>2, <3>3 DEF here
  <2> HIDE DEF m
  <2>5. m = [b \in Nexts(K, r.at) |-> Top(K, Append(r.at, b))]
    BY <2>1, <2>3, <2>4 DEF IsMap
  <2> QED BY <2>1, <2>2, <2>5
<1>5. ns = [r \in refs |-> Node(r)]
  BY <1>3, <1>4 DEF IsMap
<1> QED BY <1>2, <1>5 DEF ShapeOf

-----------------------------------------------------------------------------
\* A node that keeps its children is as full as it was, with more keys too.
LEMMA StaysFull ==
  ASSUME NEW ns, NEW K, NEW ms, NEW J, K \subseteq J, NEW r,
         Full(ns, K, r), Inhabited(K, r), ms[r].children = ns[r].children
  PROVE  Full(ms, J, r) /\ Inhabited(J, r)
  BY DEF Full, Inhabited

\* Heaps are functions.
LEMMA HeapsAreMaps ==
  /\ \A m, k, x : IsMap(With(m, k, x)) /\ IsMap(Without(m, k))
  /\ \A m, k, x : IsMap([m EXCEPT ![k] = x])
  BY DEF IsMap, With, Without

-----------------------------------------------------------------------------
\* The rest of a rest.
LEMMA FromOfFrom ==
  ASSUME NEW k \in Path, NEW i \in 0 .. Len(k), NEW j \in 0 .. Len(k) - i
  PROVE  From(From(k, i), j) = From(k, i + j)
<1> DEFINE x == From(k, i)
           y == From(x, j)
           z == From(k, i + j)
<1>1. Len(k) \in Nat /\ i \in Nat /\ j \in Nat /\ i + j \in 0 .. Len(k)
  BY Lengths
<1>2. x \in Path /\ Len(x) = Len(k) - i /\ \A e \in 1 .. Len(k) - i : x[e] = k[i + e]
  BY FromBytes
<1> HIDE DEF x
<1>3. y \in Path /\ Len(y) = Len(k) - i - j /\ \A e \in 1 .. Len(k) - i - j : y[e] = x[j + e]
  <2>1. j \in 0 .. Len(x)
    BY <1>2
  <2>2. /\ From(x, j) \in Path /\ Len(From(x, j)) = Len(x) - j
        /\ \A e \in 1 .. Len(x) - j : From(x, j)[e] = x[j + e]
    BY ONLY <1>2, <2>1, FromBytes
  <2> QED BY <1>2, <2>2
<1>4. z \in Path /\ Len(z) = Len(k) - (i + j) /\ \A e \in 1 .. Len(k) - (i + j) : z[e] = k[i + j + e]
  BY <1>1, FromBytes
<1> HIDE DEF y, z
<1>5. ASSUME NEW e \in 1 .. Len(k) - i - j PROVE y[e] = z[e]
  <2>1. j + e \in 1 .. Len(k) - i /\ i + (j + e) = i + j + e
    BY <1>1
  <2> QED BY <1>1, <1>2, <1>3, <1>4, <2>1
<1>6. y = z
  <2>1. Len(y) = Len(z) /\ \A e \in 1 .. Len(y) : y[e] = z[e]
    BY <1>1, <1>3, <1>4, <1>5
  <2> QED BY ONLY <1>3, <1>4, <2>1, SameString
<1> QED BY <1>6 DEF x, y, z

\* The beginning of a rest.
LEMMA UptoOfFrom ==
  ASSUME NEW path \in Path, NEW e \in Path, NEW k \in Path, Starts(path, e), Starts(e, k)
  PROVE  Upto(From(k, Len(path)), Len(e) - Len(path)) = From(e, Len(path))
<1> DEFINE d == Len(path)
           n == Len(e) - d
           x == From(k, d)
           y == Upto(x, n)
           z == From(e, d)
<1>1. /\ d \in Nat /\ Len(e) \in Nat /\ Len(k) \in Nat /\ d <= Len(e) /\ Len(e) <= Len(k)
      /\ \A i \in 1 .. Len(e) : e[i] = k[i]
  BY Lengths, StartsOrder, StartsBytewise
<1> HIDE DEF d
<1>2. x \in Path /\ Len(x) = Len(k) - d /\ \A i \in 1 .. Len(k) - d : x[i] = k[d + i]
  <2>1. d \in 0 .. Len(k)
    BY <1>1
  <2> QED BY <2>1, FromBytes
<1>3. z \in Path /\ Len(z) = n /\ \A i \in 1 .. n : z[i] = e[d + i]
  BY <1>1, FromBytes
<1> HIDE DEF x
<1>4. y \in Path /\ Len(y) = n /\ \A i \in 1 .. n : y[i] = x[i]
  <2>1. n \in 0 .. Len(x)
    BY <1>1, <1>2
  <2> HIDE DEF n
  <2>2. y \in Path /\ Len(y) = n /\ Starts(y, x)
    BY <1>2, <2>1, UptoStarts
  <2> HIDE DEF y
  <2> QED BY <1>2, <2>2, StartsBytewise
<1> HIDE DEF y, z
<1>5. ASSUME NEW i \in 1 .. n PROVE y[i] = z[i]
  <2>1. i \in 1 .. Len(k) - d /\ d + i \in 1 .. Len(e)
    BY <1>1
  <2> QED BY <1>1, <1>2, <1>3, <1>4, <2>1
<1>6. y = z
  BY <1>3, <1>4, <1>5, SameString
<1> QED BY <1>6 DEF x, y, z, n, d
-----------------------------------------------------------------------------
(***************************************************************************)
(* The tree that keys determine is whole: WholeIsShape read backwards.     *)
(***************************************************************************)
\* The bytes with which keys go on from path are the edges with keys behind them.
LEMMA NextsAreEdges ==
  ASSUME NEW K \in SUBSET Path, NEW path \in Path
  PROVE  /\ Nexts(K, path) \subseteq Byte /\ IsFiniteSet(Nexts(K, path))
         /\ Cardinality(Nexts(K, path)) \in Nat
         /\ Cardinality(Nexts(K, path)) <= node256Capacity
         /\ \A b \in Byte : b \in Nexts(K, path) <=> \E k \in K : Starts(Append(path, b), k)
<1>1. ASSUME NEW k \in Under(K, path) \ {path}
      PROVE  k[Len(path) + 1] \in Byte /\ Starts(Append(path, k[Len(path) + 1]), k)
  BY NextByte DEF Under
<1>2. Nexts(K, path) \subseteq Byte
  BY <1>1 DEF Nexts
<1>3. ASSUME NEW b \in Byte, NEW k \in K, Starts(Append(path, b), k)
      PROVE  b \in Nexts(K, path)
  <2>1. Starts(path, k) /\ Len(path) < Len(k) /\ k[Len(path) + 1] = b
    BY <1>3, AppendStarts
  <2>2. k # path
    BY <2>1, Lengths
  <2> QED BY <2>1, <2>2 DEF Nexts, Under
<1>4. ASSUME NEW b \in Nexts(K, path)
      PROVE  \E k \in K : Starts(Append(path, b), k)
  BY <1>1 DEF Nexts, Under
<1>5. IsFiniteSet(Nexts(K, path)) /\ Cardinality(Nexts(K, path)) <= node256Capacity
  BY <1>2, ByteFinite, FS_Subset
<1> QED BY <1>2, <1>3, <1>4, <1>5, FS_CardinalityType

\* Each count has its type of node.
LEMMA SomeKindFits ==
  ASSUME NEW n \in Nat, n <= node256Capacity
  PROVE  \E kind \in InnerKinds : KindFits(kind, n)
<1>1. /\ n <= node4Capacity => KindFits("node4", n)
      /\ node4Capacity < n /\ n <= node16Capacity => KindFits("node16", n)
      /\ node16Capacity < n /\ n <= node48Capacity => KindFits("node48", n)
      /\ node48Capacity < n => KindFits("node256", n)
  BY DEF KindFits, Capacity, Smaller
<1> QED BY <1>1, CapacityAssumption DEF InnerKinds

\* What the reference definition puts where keys part company.
LEMMA RefAtFits ==
  ASSUME NEW K \in SUBSET Path, NEW path \in Path
  PROVE  /\ RefAt(K, path) \in InnerRefs /\ RefAt(K, path).at = path
         /\ KindFits(RefAt(K, path).kind, Cardinality(Nexts(K, path)))
<1> DEFINE n == Cardinality(Nexts(K, path))
<1>1. n \in Nat /\ n <= node256Capacity
  BY NextsAreEdges
<1> HIDE DEF n
<1> DEFINE kind == CHOOSE k \in InnerKinds : KindFits(k, n)
<1>2. kind \in InnerKinds /\ KindFits(kind, n)
  BY <1>1, SomeKindFits
<1> HIDE DEF kind
<1>3. RefAt(K, path) = [kind |-> kind, at |-> path]
  BY DEF RefAt, kind, n
<1> QED BY <1>2, <1>3 DEF InnerRefs, n

\* Inner nodes stand at the forks; there are keys below them.
LEMMA ForkPaths ==
  ASSUME NEW K \in SUBSET Path
  PROVE  /\ \A path \in InnerPaths(K) :
              path \in Path /\ Forks(K, path) /\ \E k \in K : Starts(path, k)
         /\ \A path \in Path : Forks(K, path) => path \in InnerPaths(K)
<1>1. ASSUME NEW path \in InnerPaths(K)
      PROVE  path \in Path /\ Forks(K, path) /\ \E k \in K : Starts(path, k)
  <2>1. PICK k \in K : \E i \in 0 .. Len(k) : path = Upto(k, i)
    BY DEF InnerPaths
  <2> QED BY <2>1, UptoStarts DEF InnerPaths
<1>2. ASSUME NEW path \in Path, Forks(K, path)
      PROVE  path \in InnerPaths(K)
  <2>1. PICK k \in K : Starts(path, k)
    BY <1>2 DEF Forks, Nexts, Under
  <2>2. path = Upto(k, Len(path)) /\ Len(path) \in 0 .. Len(k)
    BY <2>1, UptoOfStart, StartsOrder, Lengths
  <2>3. path \in UNION {{Upto(q, i) : i \in 0 .. Len(q)} : q \in K}
    BY <2>2
  <2> QED BY <1>2, <2>3 DEF InnerPaths
<1> QED BY <1>1, <1>2

\* Two keys behind a slot part company behind it.
LEMMA ForkBetween ==
  ASSUME NEW K \in SUBSET Path, NEW path \in Path, NEW a \in K, NEW b \in K,
         a # b, Starts(path, a), Starts(path, b)
  PROVE  \E q \in InnerPaths(K) : Starts(path, q) /\ Starts(q, a) /\ Starts(q, b)
<1> DEFINE i == SharedLen(From(a, Len(path)), From(b, Len(path)))
           e == Upto(b, Len(path) + i)
<1>1. /\ e \in Path /\ Starts(path, e) /\ Starts(e, a) /\ Starts(e, b)
      /\ Len(e) < Len(a) /\ Len(e) < Len(b) => a[Len(e) + 1] # b[Len(e) + 1]
  BY MeetAt
<1> HIDE DEF i, e
<1>2. /\ a # e => a[Len(e) + 1] \in Nexts(K, e) /\ Len(e) < Len(a)
      /\ b # e => b[Len(e) + 1] \in Nexts(K, e) /\ Len(e) < Len(b)
  BY <1>1, NextByte DEF Nexts, Under
<1>3. Forks(K, e)
  <2>1. CASE a = e \/ b = e
    BY <1>2, <2>1 DEF Forks
  <2>2. CASE a # e /\ b # e
    <3>1. IsFiniteSet(Nexts(K, e))
      BY <1>1, NextsAreEdges
    <3>2. Cardinality(Nexts(K, e)) > 1
      BY <1>1, <1>2, <2>2, <3>1, Singled
    <3> QED BY <1>2, <2>2, <3>2 DEF Forks
  <2> QED BY <2>1, <2>2
<1> QED BY <1>1, <1>3, ForkPaths

\* The shortest fork behind a slot is above everything else behind it.
Lowest(Q, q) == q \in Q /\ \A r \in Q : Len(q) <= Len(r)

LEMMA FirstFork ==
  ASSUME NEW K \in SUBSET Path, NEW path \in Path,
         NEW q, Lowest({x \in InnerPaths(K) : Starts(path, x)}, q)
  PROVE  /\ q \in InnerPaths(K) /\ q \in Path /\ Starts(path, q)
         /\ \A k \in K : Starts(path, k) => Starts(q, k)
         /\ \A r \in InnerPaths(K) : Starts(path, r) => Starts(q, r)
<1>1. /\ q \in InnerPaths(K) /\ Starts(path, q)
      /\ \A r \in InnerPaths(K) : Starts(path, r) => Len(q) <= Len(r)
  BY DEF Lowest
<1>2. q \in Path /\ \E k \in K : Starts(q, k)
  BY <1>1, ForkPaths
<1>3. ASSUME NEW k \in K, Starts(path, k)
      PROVE  Starts(q, k)
  <2>1. PICK j \in K : Starts(q, j)
    BY <1>2
  <2>2. CASE j = k
    BY <2>1, <2>2
  <2>3. CASE j # k
    <3>1. Starts(path, j)
      BY <1>1, <1>2, <2>1, StartsOrder
    <3>2. PICK e \in InnerPaths(K) : Starts(path, e) /\ Starts(e, k) /\ Starts(e, j)
      BY <1>3, <2>3, <3>1, ForkBetween
    <3>3. e \in Path /\ Len(q) <= Len(e)
      BY <1>1, <3>2, ForkPaths
    <3> QED BY <1>2, <2>1, <3>2, <3>3, StartsOrder
  <2> QED BY <2>2, <2>3
<1>4. ASSUME NEW r \in InnerPaths(K), Starts(path, r)
      PROVE  Starts(q, r)
  <2>1. PICK k \in K : Starts(r, k) /\ r \in Path
    BY ForkPaths
  <2>2. Starts(path, k)
    BY <1>4, <2>1, StartsOrder
  <2>3. Starts(q, k)
    BY <1>3, <2>2
  <2> QED BY <1>1, <1>2, <1>4, <2>1, <2>3, StartsOrder
<1> QED BY <1>1, <1>2, <1>3, <1>4

\* There is a shortest one.
LEMMA LowestExists ==
  ASSUME NEW Q \in SUBSET Path, Q # {}
  PROVE  \E q : Lowest(Q, q)
<1> DEFINE S == {Len(q) : q \in Q}
<1>1. S \subseteq Nat /\ S # {}
  BY Lengths
<1>2. PICK x \in S : \A y \in S : x <= y
  BY <1>1, LeastNumber
<1> QED BY <1>2 DEF Lowest

\* A node of the reference tree.
ShapeNode(K, r) ==
  [prefix   |-> PrefixAt(K, r.at),
   terminal |-> IF r.at \in K THEN Leaf(r.at) ELSE nil,
   children |-> [b \in Nexts(K, r.at) |-> Top(K, Append(r.at, b))]]

LEMMA ShapeNodes ==
  ASSUME NEW K \in SUBSET Path
  PROVE  /\ IsMap(ShapeOf(K))
         /\ \A r \in DOMAIN ShapeOf(K) :
              /\ r \in InnerRefs /\ r.at \in InnerPaths(K) /\ r.at \in Path
              /\ r = RefAt(K, r.at) /\ ShapeOf(K)[r] = ShapeNode(K, r)
         /\ \A path \in InnerPaths(K) :
              RefAt(K, path) \in DOMAIN ShapeOf(K) /\ RefAt(K, path).at = path
<1> DEFINE ns == ShapeOf(K)
           refs == {RefAt(K, path) : path \in InnerPaths(K)}
<1>1. ns = [r \in refs |-> ShapeNode(K, r)]
  BY DEF ShapeOf, ShapeNode
<1>2. \A path \in InnerPaths(K) : path \in Path /\ RefAt(K, path) \in InnerRefs /\ RefAt(K, path).at = path
  BY ForkPaths, RefAtFits
<1> HIDE DEF ns
<1>3. \A r \in DOMAIN ns :
        /\ r \in InnerRefs /\ r.at \in InnerPaths(K) /\ r.at \in Path
        /\ r = RefAt(K, r.at) /\ ns[r] = ShapeNode(K, r)
  BY <1>1, <1>2
<1>4. IsMap(ns)
  BY <1>1 DEF IsMap
<1>5. \A path \in InnerPaths(K) : RefAt(K, path) \in DOMAIN ns /\ RefAt(K, path).at = path
  BY <1>1, <1>2
<1> QED BY <1>3, <1>4, <1>5 DEF ns

\* The slots of the reference tree: the root, and the edges of its forks.
ShapeSlot(K, path) ==
  path = <<>> \/ \E s \in InnerPaths(K), b \in Byte : path = Append(s, b)

\* The prefix of a node spans the bytes from the slot that it hangs from.
LEMMA ShapePrefix ==
  ASSUME NEW K \in SUBSET Path, NEW path \in Path, ShapeSlot(K, path),
         NEW q, Lowest({x \in InnerPaths(K) : Starts(path, x)}, q)
  PROVE  PrefixAt(K, q) = From(q, Len(path))
<1> DEFINE above == {i \in 0 .. Len(q) - 1 : Upto(q, i) \in InnerPaths(K)}
<1>1. /\ q \in Path /\ Starts(path, q) /\ Len(q) \in Nat /\ Len(path) \in Nat
      /\ Len(path) <= Len(q)
  BY FirstFork, Lengths, StartsOrder
<1>2. ASSUME NEW i \in above PROVE i \in Nat /\ i < Len(path)
  <2>1. i \in Nat /\ i \in 0 .. Len(q) /\ i < Len(q)
    BY <1>1
  <2>2. Upto(q, i) \in Path /\ Len(Upto(q, i)) = i /\ Starts(Upto(q, i), q)
    BY <1>1, <2>1, UptoStarts
  <2>3. CASE Len(path) <= i
    <3>1. Starts(path, Upto(q, i))
      BY <1>1, <2>2, <2>3, StartsOrder
    <3>2. Len(q) <= Len(Upto(q, i))
      BY <3>1 DEF Lowest
    <3> QED BY <1>1, <2>1, <2>2, <3>2
  <2> QED BY <1>1, <2>1, <2>3
<1>3. CASE path = <<>>
  <2>1. above = {} /\ Len(path) = 0
    BY <1>2, <1>3, StartsOrder
  <2>2. From(q, 0) = q
    <3>1. 0 \in 0 .. Len(q)
      BY <1>1
    <3>2. /\ From(q, 0) \in Path /\ Len(From(q, 0)) = Len(q)
          /\ \A j \in 1 .. Len(q) : From(q, 0)[j] = q[j]
      BY <1>1, <3>1, FromBytes
    <3> QED BY <1>1, <3>2, SameString
  <2> QED BY <2>1, <2>2 DEF PrefixAt
<1>4. ASSUME NEW s \in InnerPaths(K), NEW b \in Byte, path = Append(s, b)
      PROVE  PrefixAt(K, q) = From(q, Len(path))
  <2>1. /\ s \in Path /\ Len(path) = Len(s) + 1 /\ Starts(s, path) /\ Len(s) \in Nat
    BY <1>4, ForkPaths, AppendStarts, Lengths
  <2>2. Starts(s, q) /\ Upto(q, Len(s)) = s
    BY <1>1, <2>1, StartsOrder, UptoOfStart
  <2>3. Len(s) \in above
    BY <1>1, <2>1, <2>2
  <2>4. \A j \in above : j \in Nat /\ j <= Len(s)
    BY <1>2, <2>1
  <2>5. (CHOOSE j \in above : \A k \in above : k <= j) = Len(s)
    BY <2>1, <2>3, <2>4
  <2>6. 1 + Len(s) = Len(path)
    BY <2>1
  <2> QED BY <2>3, <2>5, <2>6 DEF PrefixAt
<1> QED BY <1>3, <1>4 DEF ShapeSlot

\* What the reference definition puts into a slot belongs there.
LEMMA TopBelongs ==
  ASSUME NEW K \in SUBSET Path, NEW path \in Path, ShapeSlot(K, path)
  PROVE  /\ SlotOK(ShapeOf(K), K, Top(K, path), path)
         /\ (\E k \in K : Starts(path, k)) => Top(K, path) # nil
<1> DEFINE below == {q \in InnerPaths(K) : Starts(path, q)}
           ns == ShapeOf(K)
<1>1. below \subseteq Path
  BY ForkPaths
<1>2. \A r \in DOMAIN ns : Starts(path, r.at) => r.at \in below
  BY ShapeNodes
<1>3. CASE below # {}
  <2> DEFINE q == CHOOSE x \in below : \A r \in below : Len(x) <= Len(r)
  <2>1. Lowest(below, q)
    <3>1. PICK x : Lowest(below, x)
      BY <1>1, <1>3, LowestExists
    <3> HIDE DEF below
    <3> QED BY <3>1 DEF Lowest
  <2>2. Top(K, path) = RefAt(K, q)
    BY <1>3 DEF Top
  <2> HIDE DEF q
  <2>3. /\ q \in InnerPaths(K) /\ q \in Path /\ Starts(path, q)
        /\ \A k \in K : Starts(path, k) => Starts(q, k)
        /\ \A r \in InnerPaths(K) : Starts(path, r) => Starts(q, r)
    BY <2>1, FirstFork
  <2> DEFINE c == RefAt(K, q)
  <2>4. c \in DOMAIN ns /\ c.at = q
    BY <2>3, ShapeNodes
  <2>5. ns[c] = ShapeNode(K, c) /\ c \in InnerRefs
    BY <2>4, ShapeNodes
  <2> HIDE DEF c, ns
  <2>6. ns[c].prefix = From(c.at, Len(path))
    <3>1. PrefixAt(K, q) = From(q, Len(path))
      BY <2>1, ShapePrefix
    <3> QED BY <2>4, <2>5, <3>1 DEF ShapeNode
  <2>7. NodeSlot(ns, K, c, path)
    BY <1>2, <2>3, <2>4, <2>6 DEF NodeSlot
  <2>8. c # nil
    BY <2>5, RefKinds
  <2> QED BY <2>2, <2>7, <2>8 DEF SlotOK, c, ns
<1>4. CASE below = {} /\ Under(K, path) = {}
  <2>1. Top(K, path) = nil
    BY <1>4 DEF Top
  <2>2. EmptySlot(ns, K, path)
    BY <1>2, <1>4 DEF EmptySlot, Under
  <2> QED BY <2>1, <2>2 DEF SlotOK, EmptySlot
<1>5. CASE below = {} /\ Under(K, path) # {}
  <2> DEFINE k == CHOOSE x \in Under(K, path) : TRUE
  <2>1. k \in K /\ Starts(path, k)
    BY <1>5 DEF Under
  <2>2. Top(K, path) = Leaf(k)
    BY <1>5 DEF Top
  <2> HIDE DEF k
  <2>3. \A j \in K : Starts(path, j) => j = k
    BY <1>5, <2>1, ForkBetween
  <2>4. Leaf(k).at = k /\ Leaf(k) # nil
    BY <2>1, RefKinds
  <2>5. LeafSlot(ns, K, k, path)
    BY <1>2, <1>5, <2>1, <2>3 DEF LeafSlot
  <2> QED BY <2>2, <2>4, <2>5 DEF SlotOK
<1> QED BY <1>3, <1>4, <1>5

\* The tree that keys determine is whole.
THEOREM ShapeIsWhole ==
  ASSUME NEW K \in SUBSET Path
  PROVE  Whole(ShapeOf(K), K, Top(K, <<>>))
<1> DEFINE ns == ShapeOf(K)
<1>1. SlotOK(ns, K, Top(K, <<>>), <<>>)
  BY TopBelongs, StartsOrder DEF ShapeSlot
<1>2. \A r \in DOMAIN ns :
        /\ r \in InnerRefs /\ r.at \in InnerPaths(K) /\ r.at \in Path
        /\ r = RefAt(K, r.at) /\ ns[r] = ShapeNode(K, r)
  BY ShapeNodes
<1> HIDE DEF ns
<1>3. ASSUME NEW r \in DOMAIN ns, NEW b \in Byte
      PROVE  /\ Append(r.at, b) \in Path /\ Append(r.at, b) # <<>>
             /\ SlotOK(ns, K, Top(K, Append(r.at, b)), Append(r.at, b))
             /\ b \in Nexts(K, r.at) <=> \E k \in K : Starts(Append(r.at, b), k)
             /\ b \in Nexts(K, r.at) => Top(K, Append(r.at, b)) # nil
  <2>1. Append(r.at, b) \in Path /\ Append(r.at, b) # <<>> /\ ShapeSlot(K, Append(r.at, b))
    BY <1>2, AppendStarts DEF ShapeSlot
  <2>2. b \in Nexts(K, r.at) <=> \E k \in K : Starts(Append(r.at, b), k)
    BY <1>2, NextsAreEdges
  <2> QED BY <2>1, <2>2, TopBelongs DEF ns
<1>4. ASSUME NEW r \in DOMAIN ns PROVE NodeOK(ns, K, r)
  <2> DEFINE m == [b \in Nexts(K, r.at) |-> Top(K, Append(r.at, b))]
  <2>1. ns[r] = [prefix   |-> PrefixAt(K, r.at),
                 terminal |-> IF r.at \in K THEN Leaf(r.at) ELSE nil,
                 children |-> m]
    BY <1>2 DEF ShapeNode
  <2>2. Nexts(K, r.at) \subseteq Byte
    BY <1>2, NextsAreEdges
  <2>3. IsMap(m) /\ DOMAIN m \subseteq Byte /\ \A b \in DOMAIN m : m[b] # nil
    BY <1>3, <2>2 DEF IsMap
  <2>4. PrefixAt(K, r.at) \in Path
    <3>1. r.at \in Path /\ Len(r.at) \in Nat
      BY <1>2, Lengths
    <3> DEFINE above == {i \in 0 .. Len(r.at) - 1 : Upto(r.at, i) \in InnerPaths(K)}
               i == CHOOSE i \in above : \A j \in above : j <= i
    <3>2. CASE above = {}
      BY <3>1, <3>2 DEF PrefixAt
    <3>3. CASE above # {}
      <4>1. \E x \in above : \A j \in above : j <= x
        <5> DEFINE S == {Len(r.at) - x : x \in above}
        <5>0. \A x \in above : Len(r.at) - x \in Nat
          BY <3>1
        <5>1. S \subseteq Nat /\ S # {}
          BY <3>3, <5>0
        <5>2. PICK x \in S : \A y \in S : x <= y
          BY <5>1, LeastNumber
        <5>3. PICK y \in above : x = Len(r.at) - y
          OBVIOUS
        <5>4. \A j \in above : Len(r.at) - y <= Len(r.at) - j
          BY <5>2, <5>3
        <5> QED BY <3>1, <5>4
      <4>2. i \in above
        BY <4>1
      <4>3. 1 + i \in 0 .. Len(r.at)
        BY <3>1, <4>2
      <4>4. From(r.at, 1 + i) \in Path
        BY <3>1, <4>3, FromBytes
      <4> QED BY <3>3, <4>4 DEF PrefixAt
    <3> QED BY <3>2, <3>3
  <2> HIDE DEF m
  <2> QED BY <1>2, <2>1, <2>3, <2>4 DEF NodeOK
<1>5. ASSUME NEW r \in DOMAIN ns, NEW b \in Byte
      PROVE  SlotOK(ns, K, ChildIn(ns, r, b), Append(r.at, b))
  <2>1. ns[r].children = [e \in Nexts(K, r.at) |-> Top(K, Append(r.at, e))]
    BY <1>2 DEF ShapeNode
  <2>2. CASE b \in Nexts(K, r.at)
    BY <1>3, <2>1, <2>2 DEF ChildIn
  <2>3. CASE b \notin Nexts(K, r.at)
    <3>1. ChildIn(ns, r, b) = nil
      BY <2>1, <2>3 DEF ChildIn
    <3>2. \A k \in K : ~ Starts(Append(r.at, b), k)
      BY <1>3, <2>3
    <3>3. \A s \in DOMAIN ns : ~ Starts(Append(r.at, b), s.at)
      BY <1>2, <1>3, <3>2, ForkPaths, StartsOrder
    <3> QED BY <3>1, <3>2, <3>3 DEF SlotOK, EmptySlot
  <2> QED BY <2>2, <2>3
<1>6. Linked(ns, K, <<>>)
  BY <1>2, <1>4, <1>5 DEF Linked
<1>7. ASSUME NEW r \in DOMAIN ns PROVE Full(ns, K, r) /\ Inhabited(K, r)
  <2>1. r.at \in Path /\ Forks(K, r.at) /\ \E k \in K : Starts(r.at, k)
    BY <1>2, ForkPaths
  <2>2. Count(ns[r].children) = Cardinality(Nexts(K, r.at))
    BY <1>2 DEF ShapeNode, Count
  <2>3. KindFits(r.kind, Cardinality(Nexts(K, r.at)))
    BY <1>2, <2>1, RefAtFits
  <2>4. IsFiniteSet(Nexts(K, r.at)) /\ Cardinality(Nexts(K, r.at)) \in Nat
    BY <2>1, NextsAreEdges
  <2>5. Cardinality(Nexts(K, r.at)) # 0
    BY <2>1, <2>4, Singled DEF Forks
  <2>6. r.at \in K \/ Cardinality(Nexts(K, r.at)) # 1
    BY <2>1, <2>4 DEF Forks
  <2> QED BY <2>1, <2>2, <2>3, <2>5, <2>6 DEF Full, Inhabited
<1> QED BY <1>1, <1>6, <1>7 DEF Whole, AllFull, ns
-----------------------------------------------------------------------------
(***************************************************************************)
(* The order of byte strings, and of the subtrees behind slots.            *)
(***************************************************************************)
\* a and b agree on their first i bytes, and not on one more.
MeetIn(a, b, i) ==
  /\ i \in Nat /\ i <= Len(a) /\ i <= Len(b)
  /\ \A j \in 1 .. i : a[j] = b[j]
  /\ i < Len(a) /\ i < Len(b) => a[i + 1] # b[i + 1]

\* There is one such number, and it decides the comparison.
LEMMA LessBytewise ==
  ASSUME NEW a \in Path, NEW b \in Path
  PROVE  /\ \E i : MeetIn(a, b, i)
         /\ \A i : MeetIn(a, b, i) =>
              (Less(a, b) <=> i < Len(b) /\ (i < Len(a) => a[i + 1] < b[i + 1]))
<1> DEFINE n == SharedLen(a, b)
<1>1. Len(a) \in Nat /\ Len(b) \in Nat
  BY Lengths
<1>2. MeetIn(a, b, n)
  <2>1. /\ n \in 0 .. Len(a) /\ n <= Len(b)
        /\ \A j \in 1 .. n : a[j] = b[j]
        /\ n < Len(a) /\ n < Len(b) => a[n + 1] # b[n + 1]
    BY SharedLenMeets
  <2> QED BY <1>1, <2>1 DEF MeetIn
<1>3. Less(a, b) <=> n < Len(b) /\ (n < Len(a) => a[n + 1] < b[n + 1])
  BY DEF Less
<1> HIDE DEF n
<1>4. ASSUME NEW i, MeetIn(a, b, i) PROVE i = n
  <2>1. CASE i < n
    <3>1. i + 1 \in 1 .. n /\ i < Len(a) /\ i < Len(b)
      BY <1>1, <1>2, <1>4, <2>1 DEF MeetIn
    <3> QED BY <1>2, <1>4, <3>1 DEF MeetIn
  <2>2. CASE n < i
    <3>1. n + 1 \in 1 .. i /\ n < Len(a) /\ n < Len(b)
      BY <1>1, <1>2, <1>4, <2>2 DEF MeetIn
    <3> QED BY <1>2, <1>4, <3>1 DEF MeetIn
  <2> QED BY <1>2, <1>4, <2>1, <2>2 DEF MeetIn
<1> QED BY <1>2, <1>3, <1>4

\* A proper start comes first, and so does what branches off at a smaller byte.
LEMMA LessEdges ==
  /\ \A a, b \in Path : Starts(a, b) /\ a # b => Less(a, b)
  /\ \A p, a, b \in Path, x, y \in Byte :
       x < y /\ Starts(Append(p, x), a) /\ Starts(Append(p, y), b) => Less(a, b)
<1>1. ASSUME NEW a \in Path, NEW b \in Path, Starts(a, b), a # b
      PROVE  Less(a, b)
  <2>1. Len(a) \in Nat /\ Len(a) < Len(b) /\ \A j \in 1 .. Len(a) : a[j] = b[j]
    BY <1>1, Lengths, NextByte, StartsBytewise
  <2>2. MeetIn(a, b, Len(a)) /\ ~ (Len(a) < Len(a))
    BY <2>1, Lengths DEF MeetIn
  <2> QED BY <2>1, <2>2, LessBytewise
<1>2. ASSUME NEW p \in Path, NEW a \in Path, NEW b \in Path, NEW x \in Byte, NEW y \in Byte,
             x < y, Starts(Append(p, x), a), Starts(Append(p, y), b)
      PROVE  Less(a, b)
  <2> DEFINE i == Len(p)
  <2>1. /\ i \in Nat /\ i < Len(a) /\ i < Len(b) /\ Len(a) \in Nat /\ Len(b) \in Nat
        /\ Starts(p, a) /\ Starts(p, b) /\ a[i + 1] = x /\ b[i + 1] = y
    BY <1>2, Lengths, AppendStarts
  <2>2. \A j \in 1 .. i : a[j] = b[j]
    BY <2>1, StartsBytewise
  <2>3. x \in Nat /\ y \in Nat /\ x # y
    BY <1>2, ByteFinite
  <2> HIDE DEF i
  <2>4. MeetIn(a, b, i)
    BY <2>1, <2>2, <2>3 DEF MeetIn
  <2> QED BY <1>2, <2>1, <2>4, LessBytewise
<1> QED BY <1>1, <1>2

\* There is no third way to come first.
LEMMA LessWays ==
  ASSUME NEW a \in Path, NEW b \in Path, Less(a, b)
  PROVE  \/ Starts(a, b) /\ a # b
         \/ \E p \in Path, x \in Byte, y \in Byte :
              x < y /\ Starts(Append(p, x), a) /\ Starts(Append(p, y), b)
<1>1. Len(a) \in Nat /\ Len(b) \in Nat
  BY Lengths
<1>2. PICK i : MeetIn(a, b, i)
  BY LessBytewise
<1>3. i < Len(b) /\ (i < Len(a) => a[i + 1] < b[i + 1])
  BY <1>2, LessBytewise
<1>4. CASE i = Len(a)
  <2>1. Starts(a, b) /\ a # b
    BY <1>1, <1>2, <1>3, <1>4, StartsBytewise DEF MeetIn
  <2> QED BY <2>1
<1>5. CASE i < Len(a)
  <2> DEFINE p == Upto(a, i)
             x == a[i + 1]
             y == b[i + 1]
  <2>1. i \in 0 .. Len(a) /\ i + 1 \in 1 .. Len(a) /\ i + 1 \in 1 .. Len(b) /\ i \in Nat
    BY <1>1, <1>2, <1>3, <1>5 DEF MeetIn
  <2>2. x \in Byte /\ y \in Byte /\ x < y
    BY <1>3, <1>5, <2>1, Lengths
  <2>3. p \in Path /\ Len(p) = i /\ Starts(p, a)
    BY <2>1, UptoStarts
  <2>4. x = a[i + 1] /\ y = b[i + 1]
    OBVIOUS
  <2> HIDE DEF p, x, y
  <2>5. Starts(p, b)
    <3>1. \A j \in 1 .. Len(p) : p[j] = a[j]
      BY <2>3, StartsBytewise
    <3>2. \A j \in 1 .. i : a[j] = b[j]
      BY <1>2 DEF MeetIn
    <3>3. Len(p) <= Len(b) /\ \A j \in 1 .. Len(p) : p[j] = b[j]
      BY <1>1, <1>3, <2>1, <2>3, <3>1, <3>2
    <3> QED BY <2>3, <3>3, StartsBytewise
  <2>6. Starts(Append(p, x), a) /\ Starts(Append(p, y), b)
    BY <1>3, <1>5, <2>2, <2>3, <2>4, <2>5, AppendStarts
  <2> QED BY <2>2, <2>3, <2>6
<1> QED BY <1>1, <1>2, <1>4, <1>5 DEF MeetIn

\* Less orders byte strings strictly and totally.
LEMMA LessOrder ==
  /\ \A a, b \in Path : Less(a, b) => ~ Less(b, a) /\ a # b
  /\ \A a, b \in Path : a = b \/ Less(a, b) \/ Less(b, a)
  /\ \A a, b, c \in Path : Less(a, b) /\ Less(b, c) => Less(a, c)
<1>1. ASSUME NEW a \in Path, NEW b \in Path
      PROVE  /\ Less(a, b) => ~ Less(b, a) /\ a # b
             /\ a = b \/ Less(a, b) \/ Less(b, a)
  <2>1. Len(a) \in Nat /\ Len(b) \in Nat
    BY Lengths
  <2>2. PICK i : MeetIn(a, b, i)
    BY LessBytewise
  <2>3. MeetIn(b, a, i)
    BY <2>2 DEF MeetIn
  <2>4. /\ Less(a, b) <=> i < Len(b) /\ (i < Len(a) => a[i + 1] < b[i + 1])
        /\ Less(b, a) <=> i < Len(a) /\ (i < Len(b) => b[i + 1] < a[i + 1])
    BY <2>2, <2>3, LessBytewise
  <2>5. i \in Nat /\ i <= Len(a) /\ i <= Len(b)
    BY <2>2 DEF MeetIn
  <2>6. ASSUME i < Len(a), i < Len(b)
        PROVE  /\ a[i + 1] \in Nat /\ b[i + 1] \in Nat /\ a[i + 1] # b[i + 1] /\ a # b
    <3>1. i + 1 \in 1 .. Len(a) /\ i + 1 \in 1 .. Len(b)
      BY <2>1, <2>5, <2>6
    <3> QED BY <2>2, <2>6, <3>1, Lengths, ByteFinite DEF MeetIn
  <2>7. CASE i < Len(a) /\ i < Len(b)
    BY <2>4, <2>6, <2>7
  <2>8. CASE i = Len(a) /\ i = Len(b)
    <3>1. a = b
      BY <2>2, <2>8, SameString DEF MeetIn
    <3> QED BY <2>1, <2>4, <2>8, <3>1
  <2>9. CASE i = Len(a) /\ i < Len(b)
    BY <2>1, <2>4, <2>5, <2>9
  <2>10. CASE i < Len(a) /\ i = Len(b)
    BY <2>1, <2>4, <2>5, <2>10
  <2> QED BY <2>1, <2>5, <2>7, <2>8, <2>9, <2>10
<1>2. ASSUME NEW a \in Path, NEW b \in Path, NEW c \in Path, Less(a, b), Less(b, c)
      PROVE  Less(a, c)
  <2>1. CASE Starts(a, b) /\ a # b
    <3>1. CASE Starts(b, c) /\ b # c
      <4>1. Starts(a, c)
        BY <2>1, <3>1, StartsOrder
      <4>2. Len(a) < Len(b) /\ Len(b) < Len(c) /\ Len(a) \in Nat /\ Len(b) \in Nat /\ Len(c) \in Nat
        BY <2>1, <3>1, NextByte, Lengths
      <4> QED BY <4>1, <4>2, LessEdges
    <3>2. ASSUME NEW p \in Path, NEW x \in Byte, NEW y \in Byte,
                 x < y, Starts(Append(p, x), b), Starts(Append(p, y), c)
          PROVE  Less(a, c)
      <4>1. Append(p, x) \in Path /\ Append(p, y) \in Path /\ Len(a) \in Nat /\ Len(p) \in Nat
            /\ Len(Append(p, x)) = Len(p) + 1 /\ Starts(p, Append(p, x)) /\ Starts(p, Append(p, y))
        BY AppendStarts, Lengths
      <4>2. CASE Len(a) <= Len(p)
        <5>1. Starts(p, b) /\ Starts(p, c)
          BY <3>2, <4>1, StartsOrder
        <5>2. Starts(a, c)
          BY <2>1, <4>2, <5>1, StartsOrder
        <5>3. Len(a) < Len(c)
          <6>1. Len(p) < Len(c) /\ Len(c) \in Nat
            BY <3>2, AppendStarts, Lengths
          <6> QED BY <4>1, <4>2, <6>1
        <5>4. a # c
          BY <4>1, <5>3
        <5> QED BY <5>2, <5>4, LessEdges
      <4>3. CASE Len(p) < Len(a)
        <5>1. Len(Append(p, x)) <= Len(a)
          BY <4>1, <4>3
        <5>2. Starts(Append(p, x), a)
          BY <2>1, <3>2, <4>1, <5>1, StartsOrder
        <5> QED BY <3>2, <5>2, LessEdges
      <4> QED BY <4>1, <4>2, <4>3
    <3> QED BY <1>2, <3>1, <3>2, LessWays
  <2>2. ASSUME NEW p \in Path, NEW x \in Byte, NEW y \in Byte,
               x < y, Starts(Append(p, x), a), Starts(Append(p, y), b)
        PROVE  Less(a, c)
    <3>0. /\ Append(p, x) \in Path /\ Append(p, y) \in Path /\ Len(p) \in Nat
          /\ Starts(p, a) /\ Starts(p, b) /\ b[Len(p) + 1] = y /\ a[Len(p) + 1] = x
          /\ Len(p) < Len(a) /\ Len(p) < Len(b) /\ x \in Nat /\ y \in Nat
      BY <2>2, AppendStarts, Lengths, ByteFinite
    <3>1. CASE Starts(b, c) /\ b # c
      <4>1. Starts(Append(p, y), c)
        BY <2>2, <3>0, <3>1, StartsOrder
      <4> QED BY <2>2, <4>1, LessEdges
    <3>2. ASSUME NEW q \in Path, NEW u \in Byte, NEW v \in Byte,
                 u < v, Starts(Append(q, u), b), Starts(Append(q, v), c)
          PROVE  Less(a, c)
      <4>1. /\ Append(q, u) \in Path /\ Append(q, v) \in Path /\ Len(q) \in Nat
            /\ Starts(q, b) /\ Starts(q, c) /\ b[Len(q) + 1] = u /\ c[Len(q) + 1] = v
            /\ Len(q) < Len(b) /\ Len(q) < Len(c) /\ u \in Nat /\ v \in Nat
        BY <3>2, AppendStarts, Lengths, ByteFinite
      <4>2. CASE Len(p) = Len(q)
        <5>1. p = q
          BY <3>0, <4>1, <4>2, StartsOrder
        <5>2. x < v
          BY <2>2, <3>0, <3>2, <4>1, <4>2
        <5> QED BY <2>2, <3>2, <5>1, <5>2, LessEdges
      <4>3. CASE Len(p) < Len(q)
        <5>1. Starts(p, c) /\ Len(p) < Len(c) /\ c[Len(p) + 1] = y
          <6>1. Starts(p, q)
            BY <3>0, <4>1, <4>3, StartsOrder
          <6>2. Len(p) + 1 \in 1 .. Len(q) /\ Len(c) \in Nat
            BY <3>0, <4>1, <4>3, Lengths
          <6>3. q[Len(p) + 1] = b[Len(p) + 1] /\ q[Len(p) + 1] = c[Len(p) + 1]
            BY <4>1, <6>2, StartsBytewise
          <6> QED BY <3>0, <4>1, <4>3, <6>1, <6>2, <6>3, StartsOrder
        <5>2. Starts(Append(p, y), c)
          BY <5>1, AppendStarts
        <5> QED BY <2>2, <5>2, LessEdges
      <4>4. CASE Len(q) < Len(p)
        <5>1. Starts(q, a) /\ Len(q) < Len(a) /\ a[Len(q) + 1] = u
          <6>1. Starts(q, p)
            BY <3>0, <4>1, <4>4, StartsOrder
          <6>2. Len(q) + 1 \in 1 .. Len(p) /\ Len(a) \in Nat
            BY <3>0, <4>1, <4>4, Lengths
          <6>3. p[Len(q) + 1] = b[Len(q) + 1] /\ p[Len(q) + 1] = a[Len(q) + 1]
            BY <3>0, <6>2, StartsBytewise
          <6> QED BY <3>0, <4>1, <4>4, <6>1, <6>2, <6>3, StartsOrder
        <5>2. Starts(Append(q, u), a)
          BY <5>1, AppendStarts
        <5> QED BY <3>2, <5>2, LessEdges
      <4> QED BY <3>0, <4>1, <4>2, <4>3, <4>4
    <3> QED BY <1>2, <3>1, <3>2, LessWays
  <2> QED BY <1>2, <2>1, <2>2, LessWays
<1> QED BY <1>1, <1>2

\* What comes before a path that does not begin with it comes before all behind
\* it, and what is behind a path does not come before it.
LEMMA LessBehind ==
  ASSUME NEW p \in Path, NEW k \in Path, NEW j \in Path, Starts(p, k)
  PROVE  /\ Less(p, j) /\ ~ Starts(p, j) => Less(k, j)
         /\ ~ Less(p, j) => ~ Less(k, j)
         /\ Less(j, p) => Less(j, k)
<1>1. ASSUME Less(p, j), ~ Starts(p, j) PROVE Less(k, j)
  <2>1. PICK q \in Path, x \in Byte, y \in Byte :
           x < y /\ Starts(Append(q, x), p) /\ Starts(Append(q, y), j)
    BY <1>1, LessWays
  <2>2. Starts(Append(q, x), k)
    BY <2>1, AppendStarts, StartsOrder
  <2> QED BY <2>1, <2>2, LessEdges
<1>2. p = k \/ Less(p, k)
  BY LessEdges
<1>3. ~ Less(p, j) => ~ Less(k, j)
  BY <1>2, LessOrder
<1>4. Less(j, p) => Less(j, k)
  BY <1>2, LessOrder
<1> QED BY <1>1, <1>3, <1>4
=============================================================================
