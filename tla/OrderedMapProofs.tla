--------------------------- MODULE OrderedMapProofs ---------------------------
(***************************************************************************)
(* Proofs about artmap.Ordered.  The codec first, for words of any number  *)
(* of bytes a key may have: the bytes of a word, the word of a key, the    *)
(* order of both.  Then the map: an invariant, and that it implements the  *)
(* map its typed callers see.                                              *)
(***************************************************************************)
EXTENDS OrderedMap, FiniteSetTheorems, WellFoundedInduction, TLAPS

\* A set of numbers that is not empty has a least one.
LEMMA LeastNumber ==
  ASSUME NEW S, S \subseteq Nat, S # {}
  PROVE  \E x \in S : \A y \in S : x <= y
<1>1. PICK x \in S : \A y \in S : <<y, x>> \notin OpToRel(<, Nat)
  BY WFMin, NatLessThanWellFounded
<1>2. \A y \in S : ~ (y < x)
  BY <1>1 DEF OpToRel
<1> QED BY <1>2

\* A quotient and a remainder are determined by what they add up to.
LEMMA Division ==
  ASSUME NEW d \in Nat \ {0}, NEW q \in Int, NEW r \in 0 .. d - 1, NEW x, x = d * q + r
  PROVE  x \div d = q /\ x % d = r
  OBVIOUS

\* Every number is so divided.
LEMMA Divided ==
  ASSUME NEW d \in Nat \ {0}, NEW x \in Nat
  PROVE  /\ x \div d \in Nat /\ x % d \in 0 .. d - 1
         /\ x = d * (x \div d) + (x % d)
  OBVIOUS

\* A quotient does not fall when the number grows.
LEMMA DivMonotone ==
  ASSUME NEW d \in Nat \ {0}, NEW x \in Nat, NEW y \in Nat, x <= y
  PROVE  x \div d <= y \div d
  OBVIOUS

\* Dividing twice is dividing by the product.
LEMMA DivTwice ==
  ASSUME NEW d \in Nat \ {0}, NEW e \in Nat \ {0}, NEW x \in Nat
  PROVE  (x \div d) \div e = x \div (e * d)
  OBVIOUS

\* The equation the table of powers is chosen by.
IsPower(f) == f = [n \in 0 .. 8 |-> IF n = 0 THEN 1 ELSE ByteSize * f[n - 1]]

\* What the table holds.
LEMMA Powers ==
  /\ Power[0] = 1
  /\ \A n \in 0 .. 7 : Power[n + 1] = ByteSize * Power[n]
  /\ \A n \in 0 .. 8 : Power[n] \in Nat \ {0}
<1> DEFINE p == CHOOSE f : IsPower(f)
           p1 == ByteSize
           p2 == ByteSize * p1
           p3 == ByteSize * p2
           p4 == ByteSize * p3
           p5 == ByteSize * p4
           p6 == ByteSize * p5
           p7 == ByteSize * p6
           p8 == ByteSize * p7
           g == [n \in 0 .. 8 |->
                   CASE n = 0 -> 1  [] n = 1 -> p1 [] n = 2 -> p2
                     [] n = 3 -> p3 [] n = 4 -> p4 [] n = 5 -> p5
                     [] n = 6 -> p6 [] n = 7 -> p7 [] n = 8 -> p8]
<1>1. Power = [n \in 0 .. 8 |-> p[n]]
  BY DEF Power, IsPower
<1>2. \A m, n \in Nat \ {0} : m * n \in Nat \ {0}
  OBVIOUS
<1>3. {p1, p2, p3, p4, p5, p6, p7, p8} \subseteq Nat \ {0} /\ ByteSize * 1 = p1
  BY <1>2, ByteAssumption
<1>4. /\ g[0] = 1 /\ g[1] = p1 /\ g[2] = p2 /\ g[3] = p3 /\ g[4] = p4
      /\ g[5] = p5 /\ g[6] = p6 /\ g[7] = p7 /\ g[8] = p8
  OBVIOUS
<1>5. g = [n \in 0 .. 8 |-> g[n]]
  OBVIOUS
<1> HIDE DEF g
<1>6. \A n \in 0 .. 8 : g[n] = IF n = 0 THEN 1 ELSE ByteSize * g[n - 1]
  <2>1. /\ g[1] = ByteSize * g[0] /\ g[2] = ByteSize * g[1] /\ g[3] = ByteSize * g[2]
        /\ g[4] = ByteSize * g[3] /\ g[5] = ByteSize * g[4] /\ g[6] = ByteSize * g[5]
        /\ g[7] = ByteSize * g[6] /\ g[8] = ByteSize * g[7]
    BY <1>3, <1>4
  <2> HIDE DEF p1, p2, p3, p4, p5, p6, p7, p8
  <2> QED BY <1>4, <2>1
<1>7. IsPower(g)
  BY <1>5, <1>6 DEF IsPower
<1>8. IsPower(p)
  BY <1>7
<1> HIDE DEF p
<1>9. \A n \in 0 .. 8 : p[n] = IF n = 0 THEN 1 ELSE ByteSize * p[n - 1]
  BY <1>8 DEF IsPower
<1>10. \A n \in 0 .. 8 : p[n] \in Nat \ {0}
  <2> DEFINE Bad == {n \in 0 .. 8 : p[n] \notin Nat \ {0}}
  <2>1. SUFFICES ASSUME Bad # {} PROVE FALSE
    OBVIOUS
  <2>2. PICK n \in Bad : \A m \in Bad : n <= m
    BY <2>1, LeastNumber
  <2>3. n # 0 /\ n - 1 \in 0 .. 8 /\ n - 1 \notin Bad
    BY <1>9, <2>2
  <2>4. p[n] = ByteSize * p[n - 1] /\ p[n - 1] \in Nat \ {0}
    BY <1>9, <2>3
  <2> QED BY <1>2, <2>4, ByteAssumption
<1>11. \A n \in 0 .. 8 : Power[n] = p[n]
  BY <1>1
<1>12. ASSUME NEW n \in 0 .. 7 PROVE Power[n + 1] = ByteSize * Power[n]
  <2>1. n + 1 \in 0 .. 8 /\ n \in 0 .. 8 /\ n + 1 # 0 /\ (n + 1) - 1 = n
    OBVIOUS
  <2> QED BY <1>9, <1>11, <2>1
<1> QED BY <1>9, <1>10, <1>11, <1>12
-----------------------------------------------------------------------------
(***************************************************************************)
(* Byte strings and their order.                                           *)
(***************************************************************************)
Byte == 0 .. ByteSize - 1
Texts == Seq(Byte)

\* Keys and the paths of nodes are byte strings.
LEMMA Lengths ==
  ASSUME NEW k \in Texts
  PROVE  /\ Len(k) \in Nat /\ DOMAIN k = 1 .. Len(k)
         /\ \A i \in 1 .. Len(k) : k[i] \in Byte
  BY DEF Texts

\* What SubSeq cuts out of a string.
LEMMA SubStrings ==
  ASSUME NEW k \in Texts, NEW m \in Nat, NEW n \in 0 .. Len(k), m >= 1
  PROVE  /\ SubSeq(k, m, n) \in Texts
         /\ Len(SubSeq(k, m, n)) = IF m <= n THEN n - m + 1 ELSE 0
         /\ \A i \in 1 .. n - m + 1 : SubSeq(k, m, n)[i] = k[m + i - 1]
  BY DEF Texts

\* Strings are equal that have the same bytes.
LEMMA SameString ==
  ASSUME NEW p \in Texts, NEW q \in Texts, Len(p) = Len(q),
         \A i \in 1 .. Len(p) : p[i] = q[i]
  PROVE  p = q
  BY DEF Texts

\* Two strings agree up to SharedLen and part company there, if both go on.
LEMMA SharedLenMeets ==
  ASSUME NEW a \in Texts, NEW b \in Texts
  PROVE  LET i == SharedLen(a, b)
         IN  /\ i \in 0 .. Len(a) /\ i <= Len(b)
             /\ \A j \in 1 .. i : a[j] = b[j]
             /\ i < Len(a) /\ i < Len(b) => a[i + 1] # b[i + 1]
<1> DEFINE Parts(i) == /\ i <= Len(b) /\ Upto(a, i) = Upto(b, i)
                       /\ i < Len(a) /\ i < Len(b) => a[i + 1] # b[i + 1]
           S == {i \in 0 .. Len(a) : i < Len(a) /\ i < Len(b) => a[i + 1] # b[i + 1]}
<1>1. Len(a) \in Nat /\ Len(b) \in Nat
  BY Lengths
<1>2. Len(a) \in S /\ S \subseteq Nat
  BY <1>1
<1>3. PICK i \in S : \A j \in S : i <= j
  BY <1>2, LeastNumber
<1>4. i <= Len(b)
  <2>1. Len(b) <= Len(a) => Len(b) \in S
    BY <1>1
  <2> QED BY <1>1, <1>2, <1>3, <2>1
<1>5. \A j \in 1 .. i : a[j] = b[j]
  <2> SUFFICES ASSUME NEW j \in 1 .. i, a[j] # b[j] PROVE FALSE
    OBVIOUS
  <2>1. j - 1 \in 0 .. Len(a) /\ (j - 1) + 1 = j /\ ~ (i <= j - 1)
    BY <1>1, <1>3
  <2>2. j - 1 \in S
    BY <2>1
  <2> QED BY <1>3, <2>1, <2>2
<1>6. i \in 0 .. Len(a)
  BY <1>3
<1>7. Upto(a, i) = Upto(b, i)
  <2>1. i \in 0 .. Len(b)
    BY <1>1, <1>4, <1>6
  <2>2. /\ SubSeq(a, 1, i) \in Texts /\ Len(SubSeq(a, 1, i)) = i
        /\ \A j \in 1 .. i : SubSeq(a, 1, i)[j] = a[j]
        /\ SubSeq(b, 1, i) \in Texts /\ Len(SubSeq(b, 1, i)) = i
        /\ \A j \in 1 .. i : SubSeq(b, 1, i)[j] = b[j]
    BY <1>1, <1>6, <2>1, SubStrings
  <2> QED BY <1>5, <2>2, SameString DEF Upto
<1>8. \E x \in 0 .. Len(a) : Parts(x)
  BY <1>3, <1>4, <1>6, <1>7
<1>9. SharedLen(a, b) \in 0 .. Len(a) /\ Parts(SharedLen(a, b))
  BY <1>8 DEF SharedLen
<1> DEFINE n == SharedLen(a, b)
<1> HIDE DEF n, S
<1>10. n \in 0 .. Len(a) /\ Parts(n)
  BY <1>9 DEF n
<1>11. \A j \in 1 .. n : a[j] = b[j]
  <2>1. n \in 0 .. Len(b)
    BY <1>1, <1>10
  <2>2. /\ \A j \in 1 .. n : SubSeq(a, 1, n)[j] = a[j]
        /\ \A j \in 1 .. n : SubSeq(b, 1, n)[j] = b[j]
    BY <1>1, <1>10, <2>1, SubStrings
  <2> QED BY <1>10, <2>2 DEF Upto
<1> QED BY <1>10, <1>11 DEF n

\* a and b agree on their first i bytes, and not on one more.
MeetIn(a, b, i) ==
  /\ i \in Nat /\ i <= Len(a) /\ i <= Len(b)
  /\ \A j \in 1 .. i : a[j] = b[j]
  /\ i < Len(a) /\ i < Len(b) => a[i + 1] # b[i + 1]

\* There is one such number, and it decides the comparison.
LEMMA LessBytewise ==
  ASSUME NEW a \in Texts, NEW b \in Texts
  PROVE  /\ \E i : MeetIn(a, b, i)
         /\ \A i : MeetIn(a, b, i) =>
              (Less(a, b) <=> i < Len(b) /\ (i < Len(a) => a[i + 1] < b[i + 1]))
<1> DEFINE n == SharedLen(a, b)
<1>1. Len(a) \in Nat /\ Len(b) \in Nat
  BY Lengths
<1>2. MeetIn(a, b, n)
  <2>1. /\ n \in 0 .. Len(a) /\ n <= Len(b)
        /\ \A j \in 1 .. n : a[j] = b[j]
        /\ n < Len(a) /\ n < Len(b) => a[n + 1] # b[n + 1]
    BY SharedLenMeets
  <2> QED BY <1>1, <2>1 DEF MeetIn
<1>3. Less(a, b) <=> n < Len(b) /\ (n < Len(a) => a[n + 1] < b[n + 1])
  BY DEF Less
<1> HIDE DEF n
<1>4. ASSUME NEW i, MeetIn(a, b, i) PROVE i = n
  <2>1. CASE i < n
    <3>1. i + 1 \in 1 .. n /\ i < Len(a) /\ i < Len(b)
      BY <1>1, <1>2, <1>4, <2>1 DEF MeetIn
    <3> QED BY <1>2, <1>4, <3>1 DEF MeetIn
  <2>2. CASE n < i
    <3>1. n + 1 \in 1 .. i /\ n < Len(a) /\ n < Len(b)
      BY <1>1, <1>2, <1>4, <2>2 DEF MeetIn
    <3> QED BY <1>2, <1>4, <3>1 DEF MeetIn
  <2> QED BY <1>2, <1>4, <2>1, <2>2 DEF MeetIn
<1> QED BY <1>2, <1>3, <1>4
-----------------------------------------------------------------------------
(***************************************************************************)
(* The bytes of a word, most significant first.  Leading is the word       *)
(* without its last bytes: each byte adds one to it.                       *)
(***************************************************************************)
Widths == {1, 2, 4, 8}
Leading(bits, width, i) == bits \div Power[width - i]

\* The bytes of a word are bytes, and each adds itself to what those before it make.
LEMMA Digits ==
  ASSUME NEW width \in Widths, NEW x \in 0 .. Size(width) - 1
  PROVE  /\ BigEndian(x, width) \in Texts /\ Len(BigEndian(x, width)) = width
         /\ Leading(x, width, 0) = 0 /\ Leading(x, width, width) = x
         /\ \A i \in 0 .. width : Leading(x, width, i) \in Nat
         /\ \A i \in 1 .. width :
              /\ BigEndian(x, width)[i] \in Byte
              /\ Leading(x, width, i) = Leading(x, width, i - 1) * ByteSize + BigEndian(x, width)[i]
<1>1. width \in 1 .. 8 /\ x \in Nat
  <2>1. width \in 0 .. 8
    BY DEF Widths
  <2>2. Power[width] \in Nat
    BY <2>1, Powers
  <2> QED BY <2>2 DEF Size, Widths
<1>2. ASSUME NEW i \in 0 .. width
      PROVE  Power[width - i] \in Nat \ {0} /\ Leading(x, width, i) \in Nat
  <2>1. width - i \in 0 .. 8
    BY <1>1
  <2>2. Power[width - i] \in Nat \ {0}
    BY <2>1, Powers
  <2> QED BY <1>1, <2>2, Divided DEF Leading
<1>3. Leading(x, width, 0) = 0
  <2>1. width - 0 = width /\ Power[width] \in Nat \ {0} /\ x \in 0 .. Power[width] - 1
    BY <1>1, <1>2 DEF Size
  <2>2. x = Power[width] * 0 + x
    BY <1>1, <2>1
  <2> QED BY <2>1, <2>2, Division DEF Leading
<1>4. Leading(x, width, width) = x
  <2>1. width - width = 0 /\ x \div 1 = x
    BY <1>1
  <2> QED BY <2>1, Powers DEF Leading
<1>5. ASSUME NEW i \in 1 .. width
      PROVE  /\ BigEndian(x, width)[i] \in Byte
             /\ Leading(x, width, i) = Leading(x, width, i - 1) * ByteSize + BigEndian(x, width)[i]
  <2> DEFINE h == Leading(x, width, i)
             g == Leading(x, width, i - 1)
             d == BigEndian(x, width)[i]
             p == Power[width - i]
  <2>1. d = h % ByteSize
    BY DEF BigEndian, Leading
  <2>2. /\ width - i \in 0 .. 7 /\ (width - i) + 1 = width - (i - 1)
        /\ i \in 0 .. width /\ i - 1 \in 0 .. width
    BY <1>1
  <2>3. Power[width - (i - 1)] = ByteSize * p
    BY <2>2, Powers
  <2>4. p \in Nat \ {0} /\ h \in Nat
    BY <1>2, <2>2
  <2>5. h \div ByteSize = g
    <3>1. h = x \div p /\ g = x \div (ByteSize * p)
      BY <2>3 DEF Leading
    <3> HIDE DEF h, g, p
    <3> QED BY <1>1, <2>4, <3>1, ByteAssumption, DivTwice
  <2> HIDE DEF h, g, d
  <2>6. h = ByteSize * g + d /\ d \in 0 .. ByteSize - 1 /\ g \in Nat
    BY <2>1, <2>4, <2>5, ByteAssumption, Divided
  <2>7. ByteSize * g = g * ByteSize
    BY <2>6, ByteAssumption
  <2> QED BY <2>6, <2>7 DEF h, g, d, Byte
<1>6. BigEndian(x, width) \in Texts /\ Len(BigEndian(x, width)) = width
  <2>1. BigEndian(x, width) = [i \in 1 .. width |-> BigEndian(x, width)[i]]
    BY DEF BigEndian
  <2>2. BigEndian(x, width) \in [1 .. width -> Byte]
    BY <1>5, <2>1
  <2> QED BY <1>1, <2>2 DEF Texts
<1> QED BY <1>2, <1>3, <1>4, <1>5, <1>6

IsRead(b, f) == f = [i \in 0 .. Len(b) |-> IF i = 0 THEN 0 ELSE f[i - 1] * ByteSize + b[i]]

\* Reading the bytes of a word gives the word (binary.BigEndian's Uint and PutUint).
LEMMA ReadBack ==
  ASSUME NEW width \in Widths, NEW x \in 0 .. Size(width) - 1
  PROVE  FromBigEndian(BigEndian(x, width)) = x
<1> DEFINE b == BigEndian(x, width)
           f == CHOOSE g : IsRead(b, g)
           heads == [i \in 0 .. width |-> Leading(x, width, i)]
<1>1. /\ Len(b) = width /\ Leading(x, width, 0) = 0 /\ Leading(x, width, width) = x
      /\ \A i \in 1 .. width : Leading(x, width, i) = Leading(x, width, i - 1) * ByteSize + b[i]
  BY Digits
<1>2. FromBigEndian(b) = f[Len(b)]
  BY DEF FromBigEndian, IsRead
<1>3. width \in Nat
  BY DEF Widths
<1> HIDE DEF b, f
<1>4. IsRead(b, heads)
  <2>1. \A i \in 0 .. width :
          Leading(x, width, i) = IF i = 0 THEN 0 ELSE Leading(x, width, i - 1) * ByteSize + b[i]
    BY <1>1
  <2>2. \A i \in 0 .. width : heads[i] = IF i = 0 THEN 0 ELSE heads[i - 1] * ByteSize + b[i]
    BY <1>3, <2>1
  <2>3. heads = [i \in 0 .. width |-> heads[i]]
    OBVIOUS
  <2> HIDE DEF heads
  <2> QED BY <1>1, <2>2, <2>3 DEF IsRead
<1>5. IsRead(b, f)
  BY <1>4 DEF f
<1>6. \A i \in 0 .. width : f[i] = IF i = 0 THEN 0 ELSE f[i - 1] * ByteSize + b[i]
  BY <1>1, <1>5 DEF IsRead
<1>7. f[width] = Leading(x, width, width)
  <2> DEFINE Wrong == {i \in 0 .. width : f[i] # Leading(x, width, i)}
  <2>1. SUFFICES ASSUME Wrong # {} PROVE FALSE
    BY <1>3
  <2>2. PICK i \in Wrong : \A j \in Wrong : i <= j
    <3>1. Wrong \subseteq Nat
      BY <1>3
    <3> HIDE DEF Wrong
    <3> QED BY <2>1, <3>1, LeastNumber
  <2>3. i # 0 /\ i - 1 \in 0 .. width /\ i - 1 \notin Wrong /\ i \in 1 .. width
    BY <1>1, <1>3, <1>6, <2>2
  <2>4. f[i - 1] = Leading(x, width, i - 1)
    BY <2>3
  <2> QED BY <1>1, <1>6, <2>3, <2>4
<1> QED BY <1>1, <1>2, <1>7 DEF b

\* Words sort as their bytes do.
LEMMA BytesKeepOrder ==
  ASSUME NEW width \in Widths, NEW x \in 0 .. Size(width) - 1, NEW y \in 0 .. Size(width) - 1
  PROVE  Less(BigEndian(x, width), BigEndian(y, width)) <=> x < y
<1> DEFINE a == BigEndian(x, width)
           b == BigEndian(y, width)
           X(i) == Leading(x, width, i)
           Y(i) == Leading(y, width, i)
<1>1. /\ a \in Texts /\ Len(a) = width /\ X(0) = 0 /\ X(width) = x
      /\ \A i \in 0 .. width : X(i) \in Nat
      /\ \A i \in 1 .. width : a[i] \in Byte /\ X(i) = X(i - 1) * ByteSize + a[i]
  BY Digits
<1>2. /\ b \in Texts /\ Len(b) = width /\ Y(0) = 0 /\ Y(width) = y
      /\ \A i \in 0 .. width : Y(i) \in Nat
      /\ \A i \in 1 .. width : b[i] \in Byte /\ Y(i) = Y(i - 1) * ByteSize + b[i]
  BY Digits
<1>3. width \in 1 .. 8 /\ x \in Nat /\ y \in Nat
  <2>1. width \in 0 .. 8
    BY DEF Widths
  <2>2. Power[width] \in Nat
    BY <2>1, Powers
  <2> QED BY <2>2 DEF Size, Widths
<1>4. /\ x <= y => \A i \in 0 .. width : X(i) <= Y(i)
      /\ y <= x => \A i \in 0 .. width : Y(i) <= X(i)
  <2>1. \A i \in 0 .. width : width - i \in 0 .. 8
    BY <1>3
  <2>2. \A i \in 0 .. width : Power[width - i] \in Nat \ {0}
    BY <2>1, Powers
  <2> QED BY <1>3, <2>2, DivMonotone DEF Leading
<1>5. PICK m : MeetIn(a, b, m)
  BY <1>1, <1>2, LessBytewise
<1>6. Less(a, b) <=> m < Len(b) /\ (m < Len(a) => a[m + 1] < b[m + 1])
  BY <1>1, <1>2, <1>5, LessBytewise
<1>7. /\ m \in 0 .. width /\ \A j \in 1 .. m : a[j] = b[j]
      /\ m < width => a[m + 1] # b[m + 1]
  BY <1>1, <1>2, <1>3, <1>5 DEF MeetIn
<1> SUFFICES Less(a, b) <=> x < y
  OBVIOUS
<1> HIDE DEF a, b, X, Y
<1>8. X(m) = Y(m)
  <2> DEFINE Wrong == {i \in 0 .. m : X(i) # Y(i)}
  <2>1. SUFFICES ASSUME Wrong # {} PROVE FALSE
    BY <1>7
  <2>2. PICK i \in Wrong : \A j \in Wrong : i <= j
    <3>1. Wrong \subseteq Nat
      BY <1>7
    <3> HIDE DEF Wrong
    <3> QED BY <2>1, <3>1, LeastNumber
  <2>3. i # 0 /\ i - 1 \in 0 .. m /\ i - 1 \notin Wrong /\ i \in 1 .. m /\ i \in 1 .. width
    BY <1>1, <1>2, <1>7, <2>2
  <2>4. X(i - 1) = Y(i - 1) /\ a[i] = b[i]
    BY <1>7, <2>3
  <2> QED BY <1>1, <1>2, <2>3, <2>4
<1>9. CASE m = width
  BY <1>1, <1>2, <1>3, <1>6, <1>8, <1>9
<1>10. CASE m < width
  <2>1. m + 1 \in 1 .. width /\ m + 1 \in 0 .. width /\ (m + 1) - 1 = m
    BY <1>3, <1>7, <1>10
  <2>2. X(m + 1) = X(m) * ByteSize + a[m + 1] /\ Y(m + 1) = X(m) * ByteSize + b[m + 1]
    BY <1>1, <1>2, <1>8, <2>1
  <2>3. a[m + 1] \in Nat /\ b[m + 1] \in Nat /\ X(m) * ByteSize \in Nat
    <3>1. X(m) \in Nat
      BY <1>1, <1>7
    <3> QED BY <1>1, <1>2, <2>1, <3>1, ByteAssumption DEF Byte
  <2>4. Less(a, b) <=> a[m + 1] < b[m + 1]
    BY <1>1, <1>2, <1>6, <1>10
  <2>5. X(m + 1) < Y(m + 1) <=> a[m + 1] < b[m + 1]
    BY <2>2, <2>3
  <2>6. a[m + 1] # b[m + 1]
    BY <1>7, <1>10
  <2>7. CASE a[m + 1] < b[m + 1]
    <3>1. ~ (Y(m + 1) <= X(m + 1))
      BY <2>2, <2>3, <2>7
    <3> QED BY <1>3, <1>4, <2>1, <2>4, <2>7, <3>1
  <2>8. CASE b[m + 1] < a[m + 1]
    <3>1. ~ (X(m + 1) <= Y(m + 1))
      BY <2>2, <2>3, <2>8
    <3> QED BY <1>3, <1>4, <2>1, <2>3, <2>4, <2>8, <3>1
  <2> QED BY <2>3, <2>6, <2>7, <2>8
<1> QED BY <1>3, <1>7, <1>9, <1>10
-----------------------------------------------------------------------------
(***************************************************************************)
(* The words of keys.                                                      *)
(***************************************************************************)
NumericTypes == {type \in KeyTypes : Family(type) # "string"}

\* x % m is x below m.
LEMMA ModSmall ==
  ASSUME NEW m \in Nat \ {0}, NEW x \in 0 .. m - 1
  PROVE  x % m = x
  OBVIOUS

\* x % m is x - m from m to 2m.
LEMMA ModOnce ==
  ASSUME NEW m \in Nat \ {0}, NEW x \in m .. 2 * m - 1
  PROVE  x % m = x - m
<1>1. x - m \in 0 .. m - 1
  OBVIOUS
<1>2. x = m * 1 + (x - m)
  OBVIOUS
<1> QED BY <1>1, <1>2

\* The halves of a word.
LEMMA Words ==
  ASSUME NEW width \in Widths
  PROVE  /\ Size(width) \in Nat \ {0} /\ Half(width) \in Nat \ {0}
         /\ Size(width) = 2 * Half(width)
<1> DEFINE half == ByteSize \div 2
           rest == Power[width - 1]
<1>1. width \in 0 .. 8 /\ width - 1 \in 0 .. 7 /\ (width - 1) + 1 = width /\ width - 1 \in 0 .. 8
  BY DEF Widths
<1>2. Size(width) \in Nat \ {0} /\ Size(width) = ByteSize * rest /\ rest \in Nat \ {0}
  <2>1. Power[width] = ByteSize * rest
    BY <1>1, Powers
  <2> QED BY <1>1, <2>1, Powers DEF Size
<1>3. ByteSize \in Nat \ {0} /\ ByteSize = 2 * half /\ half \in Nat
  BY ByteAssumption, Divided
<1> HIDE DEF half, rest
<1>4. Size(width) = 2 * (half * rest) + 0 /\ half * rest \in Nat
  BY <1>2, <1>3
<1>5. Half(width) = half * rest
  <2> DEFINE q == half * rest
  <2>1. q \in Int /\ Size(width) = 2 * q + 0
    BY <1>4
  <2> HIDE DEF q
  <2>2. Size(width) \div 2 = q
    BY <2>1
  <2> QED BY <2>2 DEF Half, q
<1> QED BY <1>2, <1>4, <1>5

\* Flipping the sign bit adds half the word below the middle and takes it away above.
LEMMA Flipped ==
  ASSUME NEW width \in Widths, NEW x \in 0 .. Size(width) - 1
  PROVE  FlipSign(x, width) = IF x < Half(width) THEN x + Half(width) ELSE x - Half(width)
<1> DEFINE S == Size(width)
           H == Half(width)
<1>1. S \in Nat \ {0} /\ H \in Nat \ {0} /\ S = 2 * H
  BY Words
<1> HIDE DEF S, H
<1>2. x \in 0 .. S - 1
  BY DEF S
<1>3. (x + H) % S = IF x < H THEN x + H ELSE x - H
  <2>1. CASE x < H
    <3>1. x + H \in 0 .. S - 1
      BY <1>1, <1>2, <2>1
    <3> QED BY <1>1, <2>1, <3>1, ModSmall
  <2>2. CASE ~ x < H
    <3>1. x + H \in S .. 2 * S - 1
      BY <1>1, <1>2, <2>2
    <3>2. \A y \in S .. 2 * S - 1 : y % S = y - S
      BY <1>1, ModOnce
    <3>3. (x + H) % S = (x + H) - S
      BY ONLY <3>1, <3>2, Zenon
    <3> QED BY <1>1, <1>2, <2>2, <3>3
  <2> QED BY <2>1, <2>2
<1> QED BY <1>3 DEF FlipSign, S, H

\* The encoding of a numeric type has its family and its size.
LEMMA Picked ==
  ASSUME NEW type \in NumericTypes
  PROVE  /\ PickKind(type) = KeyKind(Family(type), type.size)
         /\ type.size \in Widths
         /\ Family(type) \in {"uint", "int", "float"}
         /\ KeysOf(type) = 0 .. Size(type.size) - 1
<1>0. PICK r \in DOMAIN Sized \cup WordTypes \cup {"String"} :
        type \in {[reflect |-> r, size |-> s] : s \in SizesOf(r)}
  BY DEF NumericTypes, KeyTypes
<1>1. PICK s \in SizesOf(r) : type = [reflect |-> r, size |-> s]
  BY <1>0
<1>2. type.reflect = r /\ type.size = s /\ Family(type) # "string"
  BY <1>1 DEF NumericTypes
<1>3. DOMAIN Sized = {"Uint8", "Int8", "Uint16", "Int16", "Uint32", "Int32",
                      "Uint64", "Int64", "Float32", "Float64"}
  BY DEF Sized
<1>4. r # "String"
  BY <1>2, <1>3 DEF Family, WordTypes
<1>5. CASE r \in DOMAIN Sized
  <2>1. r \notin WordTypes /\ r \notin {"Uint", "Uintptr"} /\ r # "Int" /\ r # "String"
    BY <1>3, <1>5 DEF WordTypes
  <2>3. s = Sized[r].width
    BY <1>5, <2>1 DEF SizesOf
  <2>4. Family(type) = Sized[r].family
    BY <1>2, <1>5, <2>1 DEF Family
  <2>5. PickKind(type) = Sized[r]
    BY <1>2, <1>5, <2>1 DEF PickKind
  <2>2. /\ Sized[r] = KeyKind(Sized[r].family, Sized[r].width)
        /\ Sized[r].width \in {1, 2, 4, 8}
        /\ Sized[r].family \in {"uint", "int", "float"}
    BY <1>3, <1>5 DEF Sized, KeyKind
  <2> QED BY <1>2, <2>2, <2>3, <2>4, <2>5 DEF Widths, KeysOf
<1>6. CASE r \in WordTypes
  <2>1. r \notin DOMAIN Sized /\ r \in {"Uint", "Uintptr", "Int"}
    BY <1>3, <1>6 DEF WordTypes
  <2>2. s \in {4, 8}
    BY <1>6, <2>1 DEF SizesOf
  <2>3. CASE r \in {"Uint", "Uintptr"}
    <3>1. Family(type) = "uint"
      BY <1>2, <2>1, <2>3 DEF Family
    <3>2. PickKind(type) = KeyKind("uint", s)
      BY <1>2, <2>1, <2>2, <2>3 DEF PickKind
    <3> QED BY <1>2, <2>2, <3>1, <3>2 DEF Widths, KeysOf
  <2>4. CASE r = "Int"
    <3>1. Family(type) = "int"
      BY <1>2, <2>1, <2>4 DEF Family
    <3>2. PickKind(type) = KeyKind("int", s)
      BY <1>2, <2>1, <2>2, <2>4 DEF PickKind
    <3> QED BY <1>2, <2>2, <3>1, <3>2 DEF Widths, KeysOf
  <2> QED BY <2>1, <2>3, <2>4
<1> QED BY <1>1, <1>4, <1>5, <1>6
-----------------------------------------------------------------------------
(***************************************************************************)
(* The word of a key has the key's size, and the decoder undoes it: for    *)
(* every bit pattern, NaNs and both zeros included (codec.go, encode and   *)
(* decUint8 to decFloat64).                                                *)
(***************************************************************************)
THEOREM WordRoundTrips ==
  ASSUME NEW type \in NumericTypes, NEW key \in KeysOf(type)
  PROVE  /\ Word(PickKind(type), key) \in 0 .. Size(type.size) - 1
         /\ Bits(PickKind(type), Word(PickKind(type), key)) = key
<1> DEFINE w == type.size
           kind == KeyKind(Family(type), w)
<1>1. PickKind(type) = kind /\ w \in Widths /\ key \in 0 .. Size(w) - 1
  BY Picked
<1>2. kind.family = Family(type) /\ kind.width = w
  BY DEF KeyKind
<1>3. /\ Size(w) \in Nat \ {0} /\ Half(w) \in Nat \ {0}
      /\ Size(w) = 2 * Half(w)
  BY <1>1, Words
<1>4. \A x \in 0 .. Size(w) - 1 :
        FlipSign(x, w) = IF x < Half(w) THEN x + Half(w) ELSE x - Half(w)
  BY <1>1, Flipped
<1> HIDE DEF w, kind
<1>5. CASE Family(type) = "uint"
  BY <1>1, <1>2, <1>5 DEF Word, Bits, w
<1>6. CASE Family(type) = "int"
  <2>1. /\ Word(kind, key) = FlipSign(key, w)
        /\ \A x : Bits(kind, x) = FlipSign(x, w)
    BY <1>2, <1>6 DEF Word, Bits
  <2>2. FlipSign(key, w) \in 0 .. Size(w) - 1 /\ FlipSign(FlipSign(key, w), w) = key
    BY <1>1, <1>3, <1>4
  <2> QED BY <1>1, <2>1, <2>2 DEF w
<1>7. CASE Family(type) = "float"
  <2>1. /\ Word(kind, key) = FloatWord(key, w)
        /\ \A x : Bits(kind, x) = FloatBits(x, w)
    BY <1>2, <1>7 DEF Word, Bits
  <2>2. FloatWord(key, w) \in 0 .. Size(w) - 1 /\ FloatBits(FloatWord(key, w), w) = key
    BY <1>1, <1>3, <1>4 DEF FloatWord, FloatBits, Complement
  <2> QED BY <1>1, <2>1, <2>2 DEF w
<1> QED BY <1>5, <1>6, <1>7, Picked

(***************************************************************************)
(* The word of a key sorts before that of every key that cmp.Compare puts  *)
(* after it, NaNs apart (OrderedKey's promise, ordered.go:21).             *)
(***************************************************************************)
THEOREM WordKeepsOrder ==
  ASSUME NEW type \in NumericTypes, NEW a \in KeysOf(type), NEW b \in KeysOf(type),
         ~ IsNaN(type, a), ~ IsNaN(type, b)
  PROVE  Word(PickKind(type), a) < Word(PickKind(type), b)
           <=> \/ Before(type, a, b)
               \/ IsZero(type, a) /\ IsZero(type, b) /\ b < a
<1> DEFINE w == type.size
           kind == KeyKind(Family(type), w)
<1>1. PickKind(type) = kind /\ w \in Widths /\ {a, b} \subseteq 0 .. Size(w) - 1
  BY Picked
<1>2. kind.family = Family(type) /\ kind.width = w
  BY DEF KeyKind
<1>3. /\ Size(w) \in Nat \ {0} /\ Half(w) \in Nat \ {0}
      /\ Size(w) = 2 * Half(w)
  BY <1>1, Words
<1>4. \A x \in 0 .. Size(w) - 1 :
        FlipSign(x, w) = IF x < Half(w) THEN x + Half(w) ELSE x - Half(w)
  BY <1>1, Flipped
<1>5. Before(type, a, b) <=> Number(type, a) < Number(type, b)
  BY DEF Before, NumericTypes
<1>6. \A x \in 0 .. Size(w) - 1 :
        x % Half(w) = IF x < Half(w) THEN x ELSE x - Half(w)
  <2>1. \A x \in 0 .. Half(w) - 1 : x % Half(w) = x
    BY <1>3, ModSmall
  <2>2. \A x \in Half(w) .. 2 * Half(w) - 1 : x % Half(w) = x - Half(w)
    BY <1>3, ModOnce
  <2> QED BY <1>3, <2>1, <2>2
<1> HIDE DEF w, kind
<1>7. CASE Family(type) = "uint"
  <2>1. Word(kind, a) = a /\ Word(kind, b) = b
    BY <1>2, <1>7 DEF Word
  <2>2. Number(type, a) = a /\ Number(type, b) = b /\ ~ IsZero(type, a)
    BY <1>7 DEF Number, IsZero
  <2> QED BY <1>1, <1>5, <2>1, <2>2
<1>8. CASE Family(type) = "int"
  <2>1. Word(kind, a) = FlipSign(a, w) /\ Word(kind, b) = FlipSign(b, w)
    BY <1>2, <1>8 DEF Word
  <2>2. \A x \in {a, b} : Number(type, x) = IF x < Half(w) THEN x ELSE x - Size(w)
    BY <1>8 DEF Number, w
  <2>3. FlipSign(a, w) < FlipSign(b, w) <=> Number(type, a) < Number(type, b)
    BY <1>1, <1>3, <1>4, <2>2
  <2>4. ~ IsZero(type, a)
    BY <1>8 DEF IsZero
  <2> QED BY <1>1, <1>5, <2>1, <2>3, <2>4
<1>9. CASE Family(type) = "float"
  <2>1. Word(kind, a) = FloatWord(a, w) /\ Word(kind, b) = FloatWord(b, w)
    BY <1>2, <1>9 DEF Word
  <2>2. \A x \in {a, b} : Number(type, x) = IF x < Half(w) THEN x ELSE - (x % Half(w))
    BY <1>9 DEF Number, Magnitude, w
  <2>3. \A x \in {a, b} : Number(type, x) = IF x < Half(w) THEN x ELSE Half(w) - x
    BY <1>1, <1>3, <1>6, <2>2
  <2>4. \A x \in {a, b} : IsZero(type, x) <=> x % Half(w) = 0
    BY <1>9 DEF IsZero, Magnitude, w
  <2>5. \A x \in {a, b} : IsZero(type, x) <=> x = 0 \/ x = Half(w)
    BY <1>1, <1>3, <1>6, <2>4
  <2>6. \A x \in {a, b} :
          FloatWord(x, w) = IF x < Half(w) THEN x + Half(w) ELSE Size(w) - 1 - x
    BY <1>1, <1>3, <1>4 DEF FloatWord, Complement
  <2>7. FloatWord(a, w) < FloatWord(b, w)
          <=> Number(type, a) < Number(type, b) \/ (a = Half(w) /\ b = 0)
    BY <1>1, <1>3, <2>3, <2>6
  <2>8. IsZero(type, a) /\ IsZero(type, b) /\ b < a <=> a = Half(w) /\ b = 0
    BY <1>1, <1>3, <2>5
  <2> QED BY <1>1, <1>5, <2>1, <2>7, <2>8
<1> QED BY <1>7, <1>8, <1>9, Picked
-----------------------------------------------------------------------------
(***************************************************************************)
(* The encodings of keys.                                                  *)
(***************************************************************************)
\* Strings are their own encodings.
LEMMA Strung ==
  ASSUME NEW type \in KeyTypes, Family(type) = "string"
  PROVE  /\ PickKind(type) = kindString /\ KeysOf(type) = Strings
         /\ \A k : Encode(PickKind(type), k) = k /\ Decode(PickKind(type), k) = k
<1>1. PICK r \in DOMAIN Sized \cup WordTypes \cup {"String"} :
        \E s \in SizesOf(r) : type = [reflect |-> r, size |-> s]
  BY DEF KeyTypes
<1>2. type.reflect = r
  BY <1>1
<1>3. \A name \in DOMAIN Sized : Sized[name].family \in {"uint", "int", "float"}
  BY DEF Sized, KeyKind
<1>4. r = "String"
  <2>1. CASE r \in DOMAIN Sized
    <3>1. r \notin {"Uint", "Uintptr", "Int", "String"}
      BY <2>1 DEF Sized
    <3>2. Family(type) = Sized[r].family
      BY <1>2, <2>1, <3>1 DEF Family
    <3> QED BY <1>3, <2>1, <3>2
  <2>2. CASE r \in WordTypes /\ r \notin DOMAIN Sized
    <3>1. Family(type) \in {"uint", "int"}
      BY <1>2, <2>2 DEF Family, WordTypes
    <3> QED BY <3>1
  <2> QED BY <2>1, <2>2
<1>5. "String" \notin DOMAIN Sized
  BY DEF Sized
<1>6. PickKind(type) = kindString
  BY <1>2, <1>4, <1>5 DEF PickKind
<1> QED BY <1>6 DEF Encode, Decode, KeysOf

\* A numeric key becomes the bytes of its word.
LEMMA Numbered ==
  ASSUME NEW type \in NumericTypes, NEW key \in KeysOf(type)
  PROVE  /\ Encode(PickKind(type), key) = BigEndian(Word(PickKind(type), key), type.size)
         /\ Word(PickKind(type), key) \in 0 .. Size(type.size) - 1
         /\ Decode(PickKind(type), Encode(PickKind(type), key)) = key
         /\ type.size \in Widths
<1> DEFINE w == type.size
           kind == PickKind(type)
<1>1. /\ kind = KeyKind(Family(type), w) /\ w \in Widths
      /\ Family(type) \in {"uint", "int", "float"} /\ KeysOf(type) = 0 .. Size(w) - 1
  BY Picked
<1>2. kind # kindString /\ kind.width = w
  <2>1. kind.family = Family(type) /\ kind.width = w /\ kindString.family = "string"
    BY <1>1 DEF KeyKind, kindString
  <2> QED BY <1>1, <2>1
<1>3. Word(kind, key) \in 0 .. Size(w) - 1 /\ Bits(kind, Word(kind, key)) = key
  BY WordRoundTrips
<1> HIDE DEF kind, w
<1>4. key % Size(w) = key
  <2>1. Size(w) \in Nat \ {0} /\ key \in 0 .. Size(w) - 1
    BY <1>1, Words
  <2> QED BY <2>1, ModSmall
<1>5. Encode(kind, key) = BigEndian(Word(kind, key), w)
  BY <1>2, <1>4 DEF Encode
<1>6. FromBigEndian(BigEndian(Word(kind, key), w)) = Word(kind, key)
  BY <1>1, <1>3, ReadBack
<1>7. Decode(kind, Encode(kind, key)) = key
  BY <1>2, <1>3, <1>5, <1>6 DEF Decode
<1> QED BY <1>1, <1>3, <1>5, <1>7 DEF kind, w

(***************************************************************************)
(* Every key of every type comes back bit by bit from its encoding (what   *)
(* Min, Max and the loops of Ordered yield is what was stored).            *)
(***************************************************************************)
THEOREM EveryTypeRoundTrips == RoundTripping = KeyTypes
<1>1. ASSUME NEW type \in KeyTypes, NEW k \in KeysOf(type)
      PROVE  Decode(PickKind(type), Encode(PickKind(type), k)) = k
  <2>1. CASE Family(type) = "string"
    BY <2>1, Strung
  <2>2. CASE Family(type) # "string"
    BY <2>2, Numbered DEF NumericTypes
  <2> QED BY <2>1, <2>2
<1> QED BY <1>1 DEF RoundTripping

\* What the encodings of two keys promise: the order of cmp.Compare, -0.0 just
\* before +0.0, and NaNs kept apart.
InOrder(type, a, b) ==
  LET x == Encode(PickKind(type), a)
      y == Encode(PickKind(type), b)
  IN  IF IsNaN(type, a) \/ IsNaN(type, b) THEN a # b => x # y
      ELSE Less(x, y) <=> \/ Before(type, a, b)
                          \/ IsZero(type, a) /\ IsZero(type, b) /\ b < a

\* The word decides, and its bytes sort as it does.
LEMMA KeysInOrder ==
  ASSUME NEW type \in KeyTypes, NEW a \in KeysOf(type), NEW b \in KeysOf(type)
  PROVE  InOrder(type, a, b)
<1>1. CASE Family(type) = "string"
  <2>1. ~ IsNaN(type, a) /\ ~ IsNaN(type, b) /\ ~ IsZero(type, a)
    BY <1>1 DEF IsNaN, IsZero
  <2>2. Before(type, a, b) <=> Less(a, b)
    BY <1>1 DEF Before
  <2>3. Encode(PickKind(type), a) = a /\ Encode(PickKind(type), b) = b
    BY <1>1, Strung
  <2> QED BY <2>1, <2>2, <2>3 DEF InOrder
<1>2. CASE Family(type) # "string"
  <2> DEFINE w == type.size
             kind == PickKind(type)
             v == Word(kind, a)
             u == Word(kind, b)
  <2>1. type \in NumericTypes
    BY <1>2 DEF NumericTypes
  <2>2. /\ Encode(kind, a) = BigEndian(v, w) /\ v \in 0 .. Size(w) - 1
        /\ Encode(kind, b) = BigEndian(u, w) /\ u \in 0 .. Size(w) - 1
        /\ Decode(kind, Encode(kind, a)) = a /\ Decode(kind, Encode(kind, b)) = b
        /\ w \in Widths
    BY <2>1, Numbered
  <2>3. CASE IsNaN(type, a) \/ IsNaN(type, b)
    BY <2>2, <2>3 DEF InOrder
  <2>4. CASE ~ IsNaN(type, a) /\ ~ IsNaN(type, b)
    <3>1. v < u <=> \/ Before(type, a, b)
                    \/ IsZero(type, a) /\ IsZero(type, b) /\ b < a
      BY <2>1, <2>4, WordKeepsOrder
    <3>2. Less(BigEndian(v, w), BigEndian(u, w)) <=> v < u
      BY <2>2, BytesKeepOrder
    <3> HIDE DEF v, u, w
    <3> QED BY <2>2, <2>4, <3>1, <3>2 DEF InOrder
  <2> QED BY <2>3, <2>4
<1> QED BY <1>1, <1>2

(***************************************************************************)
(* The encodings of every type sort as cmp.Compare sorts its keys, -0.0    *)
(* just before +0.0, and keep NaNs apart (ordered.go:21 to 37).            *)
(***************************************************************************)
THEOREM EveryTypeKeepsOrder == OrderKeeping = KeyTypes
<1>1. ASSUME NEW type \in KeyTypes PROVE type \in OrderKeeping
  <2> DEFINE coded == {[key |-> k, code |-> Encode(PickKind(type), k)] : k \in KeysOf(type)}
  <2>1. ASSUME NEW x \in coded, NEW y \in coded
        PROVE  IF IsNaN(type, x.key) \/ IsNaN(type, y.key)
               THEN x.key # y.key => x.code # y.code
               ELSE Less(x.code, y.code) <=>
                      \/ Before(type, x.key, y.key)
                      \/ IsZero(type, x.key) /\ IsZero(type, y.key) /\ y.key < x.key
    <3>1. /\ x.key \in KeysOf(type) /\ x.code = Encode(PickKind(type), x.key)
          /\ y.key \in KeysOf(type) /\ y.code = Encode(PickKind(type), y.key)
      OBVIOUS
    <3> HIDE DEF coded
    <3>2. InOrder(type, x.key, y.key)
      BY <3>1, KeysInOrder
    <3> QED BY <3>1, <3>2 DEF InOrder
  <2> QED BY <2>1 DEF OrderKeeping
<1> QED BY <1>1 DEF OrderKeeping
-----------------------------------------------------------------------------
(***************************************************************************)
(* Sorted listings: the place of an element is the number of those before  *)
(* it, and a finite set has one element at each place.                     *)
(***************************************************************************)
Orders(R, S) ==
  /\ \A x \in S : <<x, x>> \notin R
  /\ \A x, y, z \in S : <<x, y>> \in R /\ <<y, z>> \in R => <<x, z>> \in R
  /\ \A x, y \in S : x = y \/ <<x, y>> \in R \/ <<y, x>> \in R

Below(R, S, x) == {y \in S : <<y, x>> \in R}
Above(R, S, x) == {y \in S : <<x, y>> \in R}

\* There are as many places as elements, and one element at each, from either end.
LEMMA Places ==
  ASSUME NEW S, IsFiniteSet(S), NEW R, Orders(R, S)
  PROVE  /\ \A x \in S :
              /\ Cardinality(Below(R, S, x)) \in 0 .. Cardinality(S) - 1
              /\ Cardinality(Above(R, S, x)) =
                   Cardinality(S) - 1 - Cardinality(Below(R, S, x))
         /\ \A x, y \in S :
              Cardinality(Below(R, S, x)) = Cardinality(Below(R, S, y)) => x = y
         /\ \A i \in 1 .. Cardinality(S) :
              \E x \in S : Cardinality(Below(R, S, x)) = i - 1
<1> DEFINE n == Cardinality(S)
           B(x) == Below(R, S, x)
           A(x) == Above(R, S, x)
<1>1. n \in Nat
  BY FS_CardinalityType
<1>2. ASSUME NEW x \in S
      PROVE  /\ IsFiniteSet(B(x)) /\ Cardinality(B(x)) \in Nat
             /\ Cardinality(B(x)) + 1 + Cardinality(A(x)) = n
             /\ Cardinality(A(x)) \in Nat
  <2>1. B(x) \in SUBSET S /\ A(x) \in SUBSET S /\ x \notin B(x) /\ x \notin A(x)
    BY DEF Orders, Below, Above
  <2>2. B(x) \cup {x} \cup A(x) = S
    BY DEF Orders, Below, Above
  <2>3. (B(x) \cup {x}) \cap A(x) = {}
    BY DEF Orders, Below, Above
  <2> HIDE DEF n, B, A
  <2>4. IsFiniteSet(B(x)) /\ IsFiniteSet(A(x))
    BY <2>1, FS_Subset
  <2>5. IsFiniteSet(B(x) \cup {x}) /\ Cardinality(B(x) \cup {x}) = Cardinality(B(x)) + 1
    BY <2>1, <2>4, FS_AddElement
  <2>6. Cardinality({}) = 0
    BY FS_EmptySet
  <2>7. /\ Cardinality(B(x)) \in Nat /\ Cardinality(A(x)) \in Nat
        /\ Cardinality(B(x) \cup {x}) \in Nat
    BY <2>4, <2>5, FS_CardinalityType
  <2>8. Cardinality((B(x) \cup {x}) \cup A(x))
          = Cardinality(B(x) \cup {x}) + Cardinality(A(x)) - Cardinality((B(x) \cup {x}) \cap A(x))
    BY <2>4, <2>5, FS_Union
  <2>9. n = Cardinality(B(x)) + 1 + Cardinality(A(x))
    <3> DEFINE nB == Cardinality(B(x))
               nA == Cardinality(A(x))
               nX == Cardinality(B(x) \cup {x})
    <3>1. n = nX + nA - 0
      BY <2>2, <2>3, <2>6, <2>8 DEF n
    <3>2. nX = nB + 1 /\ nB \in Nat /\ nA \in Nat
      BY <2>5, <2>7
    <3> HIDE DEF nB, nA, nX
    <3>3. n = nB + 1 + nA
      BY <3>1, <3>2
    <3> QED BY <3>3 DEF nB, nA
  <2> QED BY <2>4, <2>7, <2>9
<1>3. ASSUME NEW x \in S, NEW y \in S, <<x, y>> \in R
      PROVE  Cardinality(B(x)) # Cardinality(B(y))
  <2>1. B(x) \in SUBSET B(y) /\ x \in B(y) /\ x \notin B(x)
    BY <1>3 DEF Orders, Below
  <2> HIDE DEF B
  <2> QED BY <1>2, <2>1, FS_Subset
<1>4. ASSUME NEW x \in S, NEW y \in S, Cardinality(B(x)) = Cardinality(B(y)) PROVE x = y
  BY <1>3, <1>4 DEF Orders
<1> HIDE DEF n, B, A
<1>5. ASSUME NEW x \in S
      PROVE  Cardinality(B(x)) \in 0 .. n - 1 /\ Cardinality(A(x)) = n - 1 - Cardinality(B(x))
  BY <1>1, <1>2
<1>6. ASSUME NEW i \in 1 .. n PROVE \E x \in S : Cardinality(B(x)) = i - 1
  <2> DEFINE f == [x \in S |-> Cardinality(B(x))]
             T == 0 .. n - 1
  <2>1. f \in [S -> T]
    BY <1>5
  <2>2. \A x, y \in S : f[x] = f[y] => x = y
    BY <1>4
  <2>3. f \in Injection(S, T)
    BY <2>1, <2>2 DEF Injection, IsInjective
  <2>4. IsFiniteSet(T) /\ Cardinality(T) = n
    BY <1>1, <1>6, FS_Interval
  <2> HIDE DEF f, T
  <2>5. f \in Surjection(S, T)
    BY <2>3, <2>4, FS_Injection DEF n
  <2>6. i - 1 \in T
    BY <1>1, <1>6 DEF T
  <2>7. PICK x \in S : f[x] = i - 1
    BY <2>5, <2>6 DEF Surjection
  <2> QED BY <2>7 DEF f
<1> QED BY <1>4, <1>5, <1>6 DEF n, B, A

\* A renaming of the elements keeps their number.
LEMMA Renamed ==
  ASSUME NEW S, IsFiniteSet(S), NEW f, NEW T,
         T = {f[x] : x \in S}, \A x, y \in S : f[x] = f[y] => x = y
  PROVE  IsFiniteSet(T) /\ Cardinality(T) = Cardinality(S)
<1> DEFINE g == [x \in S |-> f[x]]
<1>1. g \in [S -> T]
  OBVIOUS
<1>2. g \in Bijection(S, T)
  BY <1>1 DEF Bijection, Injection, IsInjective, Surjection
<1> QED BY <1>2, FS_Bijection DEF ExistsBijection

\* bytes.Compare orders the byte strings.
LEMMA LessOrders ==
  /\ \A a \in Texts : ~ Less(a, a)
  /\ \A a, b \in Texts : a = b \/ Less(a, b) \/ Less(b, a)
  /\ \A a, b, c \in Texts : Less(a, b) /\ Less(b, c) => Less(a, c)
<1>1. ASSUME NEW a \in Texts PROVE ~ Less(a, a)
  <2>1. MeetIn(a, a, Len(a))
    BY Lengths DEF MeetIn
  <2> QED BY <2>1, LessBytewise, Lengths
<1>2. ASSUME NEW a \in Texts, NEW b \in Texts PROVE a = b \/ Less(a, b) \/ Less(b, a)
  <2>1. PICK i : MeetIn(a, b, i)
    BY LessBytewise
  <2>2. MeetIn(b, a, i)
    BY <2>1 DEF MeetIn
  <2>3. /\ Len(a) \in Nat /\ \A j \in 1 .. Len(a) : a[j] \in Byte
        /\ Len(b) \in Nat /\ \A j \in 1 .. Len(b) : b[j] \in Byte
    BY Lengths
  <2>4. CASE i = Len(a) /\ i = Len(b)
    BY <2>1, <2>4, SameString DEF MeetIn
  <2>5. CASE i < Len(a) /\ i = Len(b)
    BY <2>2, <2>5, LessBytewise
  <2>6. CASE i = Len(a) /\ i < Len(b)
    BY <2>1, <2>6, LessBytewise
  <2>7. CASE i < Len(a) /\ i < Len(b)
    <3>1. i \in Nat /\ a[i + 1] # b[i + 1]
      BY <2>1, <2>7 DEF MeetIn
    <3>2. a[i + 1] \in Int /\ b[i + 1] \in Int
      BY <2>3, <2>7, <3>1, ByteAssumption DEF Byte
    <3>3. a[i + 1] < b[i + 1] \/ b[i + 1] < a[i + 1]
      BY <3>1, <3>2
    <3> QED BY <2>1, <2>2, <2>7, <3>3, LessBytewise
  <2>8. i \in Nat /\ i <= Len(a) /\ i <= Len(b)
    BY <2>1 DEF MeetIn
  <2> QED BY <2>3, <2>4, <2>5, <2>6, <2>7, <2>8
<1>3. ASSUME NEW a \in Texts, NEW b \in Texts, NEW c \in Texts, Less(a, b), Less(b, c)
      PROVE  Less(a, c)
  <2>1. PICK i : MeetIn(a, b, i)
    BY LessBytewise
  <2>2. PICK j : MeetIn(b, c, j)
    BY LessBytewise
  <2>3. /\ Len(a) \in Nat /\ \A n \in 1 .. Len(a) : a[n] \in Byte
        /\ Len(b) \in Nat /\ \A n \in 1 .. Len(b) : b[n] \in Byte
        /\ Len(c) \in Nat /\ \A n \in 1 .. Len(c) : c[n] \in Byte
    BY Lengths
  <2>4. i \in Nat /\ i < Len(b) /\ (i < Len(a) => a[i + 1] < b[i + 1])
    BY <1>3, <2>1, LessBytewise DEF MeetIn
  <2>5. j \in Nat /\ j < Len(c) /\ (j < Len(b) => b[j + 1] < c[j + 1])
    BY <1>3, <2>2, LessBytewise DEF MeetIn
  <2>6. /\ i < Len(a) => a[i + 1] \in Int
        /\ i < Len(b) => b[i + 1] \in Int
        /\ i < Len(c) => c[i + 1] \in Int
        /\ j < Len(a) => a[j + 1] \in Int
        /\ j < Len(b) => b[j + 1] \in Int
        /\ j < Len(c) => c[j + 1] \in Int
    BY <2>3, <2>4, <2>5, ByteAssumption DEF Byte
  <2>7. CASE i < j
    <3>1. b[i + 1] = c[i + 1] /\ i < Len(c)
      BY <2>2, <2>3, <2>4, <2>5, <2>7 DEF MeetIn
    <3>2. MeetIn(a, c, i)
      <4>1. \A n \in 1 .. i : a[n] = c[n]
        BY <2>1, <2>2, <2>4, <2>5, <2>7 DEF MeetIn
      <4> QED BY <2>1, <2>4, <2>6, <3>1, <4>1 DEF MeetIn
    <3> QED BY <2>4, <3>1, <3>2, LessBytewise
  <2>8. CASE j < i
    <3>1. a[j + 1] = b[j + 1] /\ j < Len(a)
      BY <2>1, <2>3, <2>4, <2>5, <2>8 DEF MeetIn
    <3>2. MeetIn(a, c, j)
      <4>1. \A n \in 1 .. j : a[n] = c[n]
        BY <2>1, <2>2, <2>4, <2>5, <2>8 DEF MeetIn
      <4> QED BY <2>2, <2>3, <2>4, <2>5, <2>6, <2>8, <3>1, <4>1 DEF MeetIn
    <3> QED BY <2>4, <2>5, <2>8, <3>1, <3>2, LessBytewise
  <2>9. CASE i = j
    <3>1. MeetIn(a, c, i)
      <4>1. \A n \in 1 .. i : a[n] = c[n]
        BY <2>1, <2>2, <2>9 DEF MeetIn
      <4> QED BY <2>1, <2>4, <2>5, <2>6, <2>9, <4>1 DEF MeetIn
    <3> QED BY <2>4, <2>5, <2>6, <2>9, <3>1, LessBytewise
  <2> QED BY <2>4, <2>5, <2>7, <2>8, <2>9
<1> QED BY <1>1, <1>2, <1>3
-----------------------------------------------------------------------------
(***************************************************************************)
(* Keys that cmp.Compare tells apart are listed as their encodings are.    *)
(***************************************************************************)
\* Every key is encoded as a byte string and comes back from it.
LEMMA Coded ==
  ASSUME NEW type \in DOMAIN Keys, NEW k \in Keys[type]
  PROVE  /\ Encode(PickKind(type), k) \in Texts
         /\ Decode(PickKind(type), Encode(PickKind(type), k)) = k
<1>1. type \in KeyTypes /\ k \in KeysOf(type)
  BY KeysAssumption
<1>2. Decode(PickKind(type), Encode(PickKind(type), k)) = k
  BY <1>1, EveryTypeRoundTrips DEF RoundTripping
<1>3. CASE Family(type) = "string"
  BY <1>1, <1>2, <1>3, Strung, StringsAssumption DEF Texts, Byte
<1>4. CASE Family(type) # "string"
  <2> DEFINE w == type.size
             v == Word(PickKind(type), k)
  <2>1. type \in NumericTypes
    BY <1>1, <1>4 DEF NumericTypes
  <2>2. /\ Encode(PickKind(type), k) = BigEndian(v, w)
        /\ v \in 0 .. Size(w) - 1 /\ w \in Widths
    BY <1>1, <2>1, Numbered
  <2> HIDE DEF v, w
  <2> QED BY <1>2, <2>2, Digits
<1> QED BY <1>3, <1>4

\* The encodings of keys that are told apart sort as the keys do.
LEMMA CodedInOrder ==
  ASSUME ToldApart, NEW type \in DOMAIN Keys, NEW a \in Keys[type], NEW b \in Keys[type]
  PROVE  Less(Encode(PickKind(type), a), Encode(PickKind(type), b)) <=> Before(type, a, b)
<1>1. type \in KeyTypes /\ a \in KeysOf(type) /\ b \in KeysOf(type)
  BY KeysAssumption
<1>2. InOrder(type, a, b)
  BY <1>1, KeysInOrder
<1>3. ~ IsNaN(type, a) /\ ~ IsNaN(type, b)
  BY DEF ToldApart
<1>4. ~ (IsZero(type, a) /\ IsZero(type, b) /\ b < a)
  <2> SUFFICES ASSUME IsZero(type, a), IsZero(type, b), b < a PROVE FALSE
    OBVIOUS
  <2>1. a = b
    BY DEF ToldApart
  <2>2. type \in NumericTypes
    BY <1>1 DEF IsZero, NumericTypes
  <2>3. a \in Int
    BY <1>1, <2>2, Picked, Words
  <2> QED BY <2>1, <2>3
<1> QED BY <1>2, <1>3, <1>4 DEF InOrder

\* The i-th of some encodings, ascending and descending, and the i-th of some keys.
Preceding(C, c) == {x \in C : Less(x, c)}
Following(C, c) == {x \in C : Less(c, x)}
FirstCode(C, i) == CHOOSE c \in C : Cardinality(Preceding(C, c)) = i - 1
LastCode(C, i) == CHOOSE c \in C : Cardinality(Following(C, c)) = i - 1
FirstKey(type, D, i) == CHOOSE k \in D : Cardinality({j \in D : Before(type, j, k)}) = i - 1

\* Every place has its encoding, and the listings up and down are each other's reversal.
LEMMA CodesListed ==
  ASSUME NEW C \in SUBSET Texts, IsFiniteSet(C)
  PROVE  /\ Cardinality(C) \in Nat
         /\ \A i \in 1 .. Cardinality(C) :
              /\ FirstCode(C, i) \in C
              /\ Cardinality(Preceding(C, FirstCode(C, i))) = i - 1
              /\ LastCode(C, i) = FirstCode(C, Cardinality(C) - i + 1)
         /\ \A c \in C :
              /\ Cardinality(Preceding(C, c)) \in 0 .. Cardinality(C) - 1
              /\ Cardinality(Following(C, c)) = Cardinality(C) - 1 - Cardinality(Preceding(C, c))
         /\ \A c, d \in C : Cardinality(Preceding(C, c)) = Cardinality(Preceding(C, d)) => c = d
<1> DEFINE R == {p \in C \X C : Less(p[1], p[2])}
           n == Cardinality(C)
           below(c) == Preceding(C, c)
           above(c) == Following(C, c)
<1>1. Orders(R, C)
  <2>1. \A x, y \in C : <<x, y>> \in R <=> Less(x, y)
    OBVIOUS
  <2> HIDE DEF R
  <2> QED BY <2>1, LessOrders DEF Orders
<1>2. ASSUME NEW c \in C PROVE Below(R, C, c) = below(c) /\ Above(R, C, c) = above(c)
  BY DEF Below, Above, Preceding, Following
<1>3. n \in Nat
  BY FS_CardinalityType
<1> HIDE DEF R, n, below, above
<1>4. /\ \A c \in C : /\ Cardinality(below(c)) \in 0 .. n - 1
                      /\ Cardinality(above(c)) = n - 1 - Cardinality(below(c))
      /\ \A c, d \in C : Cardinality(below(c)) = Cardinality(below(d)) => c = d
      /\ \A i \in 1 .. n : \E c \in C : Cardinality(below(c)) = i - 1
  BY <1>1, <1>2, Places DEF n
<1>5. ASSUME NEW i \in 1 .. n
      PROVE  /\ FirstCode(C, i) \in C /\ Cardinality(below(FirstCode(C, i))) = i - 1
             /\ \A c \in C : Cardinality(below(c)) = i - 1 => c = FirstCode(C, i)
  <2>1. \E c \in C : Cardinality(below(c)) = i - 1
    BY <1>4
  <2>2. FirstCode(C, i) = CHOOSE c \in C : Cardinality(below(c)) = i - 1
    BY DEF FirstCode, below
  <2> QED BY <1>4, <2>1, <2>2
<1>6. ASSUME NEW i \in 1 .. n PROVE LastCode(C, i) = FirstCode(C, n - i + 1)
  <2>1. n - i + 1 \in 1 .. n /\ (n - i + 1) - 1 = n - i
    BY <1>3
  <2> DEFINE last == FirstCode(C, n - i + 1)
  <2>2. last \in C /\ Cardinality(below(last)) = n - i
    BY <1>5, <2>1
  <2>3. \A c \in C : Cardinality(above(c)) = i - 1 <=> Cardinality(below(c)) = n - i
    BY <1>3, <1>4
  <2>4. \A c \in C : Cardinality(above(c)) = i - 1 <=> c = last
    BY <1>4, <2>2, <2>3
  <2>5. LastCode(C, i) = CHOOSE c \in C : Cardinality(above(c)) = i - 1
    BY DEF LastCode, above
  <2> QED BY <2>2, <2>4, <2>5
<1> QED BY <1>3, <1>4, <1>5, <1>6 DEF n, below, above

\* The first is the least and the last the greatest.
LEMMA CodesEnds ==
  ASSUME NEW C \in SUBSET Texts, IsFiniteSet(C), C # {}
  PROVE  /\ (CHOOSE x \in C : \A y \in C \ {x} : Less(x, y)) = FirstCode(C, 1)
         /\ (CHOOSE x \in C : \A y \in C \ {x} : Less(y, x)) = LastCode(C, 1)
<1> DEFINE n == Cardinality(C)
           first == FirstCode(C, 1)
           last == LastCode(C, 1)
<1>1. n \in Nat /\ n # 0 /\ 1 \in 1 .. n /\ n \in 1 .. n /\ n - 1 + 1 = n
  BY FS_EmptySet, FS_CardinalityType
<1>2. last = FirstCode(C, n)
  BY <1>1, CodesListed
<1>3. /\ first \in C /\ Cardinality(Preceding(C, first)) = 0
      /\ last \in C /\ Cardinality(Preceding(C, last)) = n - 1
  BY <1>1, <1>2, CodesListed
<1> HIDE DEF n, first, last
<1>4. ASSUME NEW c \in C
      PROVE  /\ Cardinality(Preceding(C, c)) = 0 <=> c = first
             /\ Cardinality(Following(C, c)) = 0 <=> c = last
  <2>1. /\ Cardinality(Preceding(C, c)) \in 0 .. n - 1
        /\ Cardinality(Following(C, c)) = n - 1 - Cardinality(Preceding(C, c))
    BY CodesListed DEF n
  <2>2. Cardinality(Preceding(C, c)) = Cardinality(Preceding(C, first)) => c = first
    BY <1>3, CodesListed
  <2>3. Cardinality(Preceding(C, c)) = Cardinality(Preceding(C, last)) => c = last
    BY <1>3, CodesListed
  <2>4. Cardinality(Following(C, c)) = 0 <=> Cardinality(Preceding(C, c)) = n - 1
    BY <1>1, <2>1
  <2> QED BY <1>3, <2>2, <2>3, <2>4
<1>5. ASSUME NEW c \in C
      PROVE  /\ (\A y \in C \ {c} : Less(c, y)) <=> c = first
             /\ (\A y \in C \ {c} : Less(y, c)) <=> c = last
  <2>1. IsFiniteSet(Preceding(C, c)) /\ IsFiniteSet(Following(C, c))
    BY FS_Subset DEF Preceding, Following
  <2>2. (\A y \in C \ {c} : Less(c, y)) <=> Preceding(C, c) = {}
    BY LessOrders DEF Preceding
  <2>3. (\A y \in C \ {c} : Less(y, c)) <=> Following(C, c) = {}
    BY LessOrders DEF Following
  <2>4. /\ Preceding(C, c) = {} <=> Cardinality(Preceding(C, c)) = 0
        /\ Following(C, c) = {} <=> Cardinality(Following(C, c)) = 0
    BY <2>1, FS_EmptySet
  <2> QED BY <1>4, <2>2, <2>3, <2>4
<1>6. (CHOOSE x \in C : \A y \in C \ {x} : Less(x, y)) = first
  BY <1>3, <1>5
<1>7. (CHOOSE x \in C : \A y \in C \ {x} : Less(y, x)) = last
  BY <1>3, <1>5
<1> QED BY <1>6, <1>7 DEF first, last
-----------------------------------------------------------------------------
(***************************************************************************)
(* The invariant.  A constructed map has the kind New picked for its type  *)
(* and a finite tree of encoded keys; the sequence in the caller's hands   *)
(* is one of a constructed map, between encoded keys.                      *)
(***************************************************************************)
TreesOf(type) ==
  UNION {[K -> Values] : K \in {S \in SUBSET EncodedKeys(type) : IsFiniteSet(S)}}

ObjectsOf(type) == {Zero} \cup [tree : TreesOf(type), kind : {PickKind(type)}]

Inv ==
  /\ keyType \in DOMAIN Keys
  /\ objects \in [Handles -> ObjectsOf(keyType)]
  /\ \/ sequence = none
     \/ /\ sequence \in Sequences(EncodedKeys(keyType) \cup {nil})
        /\ Constructed(sequence.map)

\* A tree is never nil; storing and removing leave a tree; Zero has none.
LEMMA Trees ==
  ASSUME NEW type \in DOMAIN Keys
  PROVE  /\ Empty \in TreesOf(type) /\ nil \notin TreesOf(type)
         /\ \A f \in TreesOf(type) :
              /\ IsFiniteSet(DOMAIN f) /\ DOMAIN f \subseteq EncodedKeys(type)
              /\ \A c \in DOMAIN f : f[c] \in Values
              /\ f = [c \in DOMAIN f |-> f[c]]
              /\ \A c \in EncodedKeys(type), v \in Values : With(f, c, v) \in TreesOf(type)
              /\ \A c : Without(f, c) \in TreesOf(type)
<1>1. Empty \in TreesOf(type)
  <2>1. {} \in SUBSET EncodedKeys(type) /\ IsFiniteSet({}) /\ Empty \in [{} -> Values]
    BY FS_EmptySet DEF Empty
  <2> QED BY <2>1 DEF TreesOf
<1>2. nil \notin TreesOf(type)
  BY NoneAssumption DEF TreesOf
<1>3. ASSUME NEW f \in TreesOf(type)
      PROVE  /\ IsFiniteSet(DOMAIN f) /\ DOMAIN f \subseteq EncodedKeys(type)
             /\ \A c \in DOMAIN f : f[c] \in Values
             /\ f = [c \in DOMAIN f |-> f[c]]
             /\ \A c \in EncodedKeys(type), v \in Values : With(f, c, v) \in TreesOf(type)
             /\ \A c : Without(f, c) \in TreesOf(type)
  <2>1. PICK K \in SUBSET EncodedKeys(type) : IsFiniteSet(K) /\ f \in [K -> Values]
    BY DEF TreesOf
  <2>2. ASSUME NEW c \in EncodedKeys(type), NEW v \in Values PROVE With(f, c, v) \in TreesOf(type)
    <3>1. IsFiniteSet(K \cup {c}) /\ K \cup {c} \in SUBSET EncodedKeys(type)
      BY <2>1, FS_AddElement
    <3>2. With(f, c, v) \in [K \cup {c} -> Values]
      BY <2>1 DEF With
    <3> QED BY <3>1, <3>2 DEF TreesOf
  <2>3. ASSUME NEW c PROVE Without(f, c) \in TreesOf(type)
    <3>1. IsFiniteSet(K \ {c}) /\ K \ {c} \in SUBSET EncodedKeys(type)
      BY <2>1, FS_RemoveElement
    <3>2. Without(f, c) \in [K \ {c} -> Values]
      BY <2>1 DEF Without
    <3> QED BY <3>1, <3>2 DEF TreesOf
  <2> QED BY <2>1, <2>2, <2>3
<1> QED BY <1>1, <1>2, <1>3

\* What the invariant says of one handle.
LEMMA Held ==
  ASSUME Inv, NEW h \in Handles
  PROVE  /\ ~ Constructed(h) => objects[h] = Zero
         /\ Constructed(h) =>
              /\ objects[h] = [tree |-> Tree(h), kind |-> PickKind(keyType)]
              /\ Tree(h) \in TreesOf(keyType)
              /\ objects[h].kind = PickKind(keyType)
<1>1. objects[h] \in ObjectsOf(keyType) /\ keyType \in DOMAIN Keys
  BY DEF Inv
<1>2. CASE objects[h] = Zero
  BY <1>2 DEF Constructed, Tree, Zero
<1>3. CASE objects[h] \in [tree : TreesOf(keyType), kind : {PickKind(keyType)}]
  <2>1. nil \notin TreesOf(keyType)
    BY <1>1, Trees
  <2>2. Tree(h) \in TreesOf(keyType) /\ objects[h].kind = PickKind(keyType)
    BY <1>3 DEF Tree
  <2>3. objects[h] = [tree |-> Tree(h), kind |-> PickKind(keyType)]
    BY <1>3, <2>2 DEF Tree
  <2> QED BY <2>1, <2>2, <2>3 DEF Constructed
<1> QED BY <1>1, <1>2, <1>3 DEF ObjectsOf

\* It holds of zero-valued variables.
LEMMA InvInit == Init => Inv
  BY DEF Init, Inv, ObjectsOf

\* The steps that leave the objects alone and obtain, drop or keep the sequence.
LEMMA InvSequence ==
  ASSUME Inv, UNCHANGED <<objects, keyType>>,
         \/ sequence' = none \/ UNCHANGED sequence
         \/ \E h \in Handles, dir \in {"up", "down"},
              start, end \in EncodedKeys(keyType) \cup {nil} :
              /\ Constructed(h)
              /\ sequence' = [map |-> h, dir |-> dir, start |-> start, end |-> end]
  PROVE  Inv'
<1>1. CASE sequence' = none
  BY <1>1 DEF Inv
<1>2. CASE UNCHANGED sequence
  BY <1>2 DEF Inv, Constructed, Tree
<1>3. ASSUME NEW h \in Handles, NEW dir \in {"up", "down"},
             NEW start \in EncodedKeys(keyType) \cup {nil}, NEW end \in EncodedKeys(keyType) \cup {nil},
             Constructed(h), sequence' = [map |-> h, dir |-> dir, start |-> start, end |-> end]
      PROVE  Inv'
  BY <1>3 DEF Inv, Constructed, Tree, Sequences
<1> QED BY <1>1, <1>2, <1>3

\* The steps that give one handle an object with a tree.
LEMMA InvObject ==
  ASSUME Inv, NEW h \in Handles, NEW f \in TreesOf(keyType),
         objects' = [objects EXCEPT ![h] = [tree |-> f, kind |-> PickKind(keyType)]],
         UNCHANGED <<keyType, sequence>>
  PROVE  Inv'
<1>1. [tree |-> f, kind |-> PickKind(keyType)] \in ObjectsOf(keyType)
  BY DEF ObjectsOf
<1>2. objects' \in [Handles -> ObjectsOf(keyType)]
  BY <1>1 DEF Inv
<1>3. nil \notin TreesOf(keyType)
  BY Trees DEF Inv
<1>4. \A g \in Handles : Constructed(g) => Constructed(g)'
  BY <1>3 DEF Constructed, Tree, Inv
<1>5. sequence # none => sequence.map \in Handles
  BY DEF Inv, Sequences
<1> QED BY <1>2, <1>4, <1>5 DEF Inv

\* A write stores or removes an encoded key in the tree of a constructed map.
LEMMA InvWrite ==
  ASSUME Inv, NEW h \in Handles, Write(h), UNCHANGED keyType
  PROVE  Inv'
<1>1. /\ Tree(h) \in TreesOf(keyType) /\ objects[h].kind = PickKind(keyType)
      /\ objects[h] = [tree |-> Tree(h), kind |-> PickKind(keyType)]
  BY Held DEF Write
<1>2. \A f : [objects EXCEPT ![h].tree = f]
               = [objects EXCEPT ![h] = [tree |-> f, kind |-> PickKind(keyType)]]
  <2>1. \A f : [objects[h] EXCEPT !.tree = f] = [tree |-> f, kind |-> PickKind(keyType)]
    BY <1>1
  <2> QED BY <2>1
<1>3. PICK k \in Keys[keyType] : Put(h, k) \/ Delete(h, k)
  BY DEF Write
<1>4. Enc(h, k) \in EncodedKeys(keyType)
  BY <1>1 DEF Enc, EncodedKeys
<1>5. \E f \in TreesOf(keyType) : objects' = [objects EXCEPT ![h].tree = f]
  <2>1. keyType \in DOMAIN Keys
    BY DEF Inv
  <2>2. CASE Put(h, k)
    BY <1>1, <1>4, <2>1, <2>2, Trees DEF Put, Tree
  <2>3. CASE Delete(h, k)
    BY <1>1, <2>1, <2>3, Trees DEF Delete, Tree
  <2> QED BY <1>3, <2>2, <2>3
<1>6. UNCHANGED sequence
  BY DEF Write
<1> QED BY <1>2, <1>5, <1>6, InvObject

\* A bound is an encoded key.
LEMMA Bounds ==
  ASSUME Inv, NEW h \in Handles, Constructed(h), NEW k \in Keys[keyType]
  PROVE  /\ Bound(h, k) = Encode(PickKind(keyType), k)
         /\ Bound(h, k) \in EncodedKeys(keyType) /\ Bound(h, k) # nil
<1>1. Bound(h, k) = Encode(PickKind(keyType), k)
  BY Held DEF Bound, BytesClone, Enc
<1>2. keyType \in DOMAIN Keys
  BY DEF Inv
<1> QED BY <1>1, <1>2, NoneAssumption DEF EncodedKeys

\* A call that returns a sequence.
LEMMA InvIterate ==
  ASSUME Inv, NEW h \in Handles, Iterate(h), UNCHANGED keyType
  PROVE  Inv'
<1> DEFINE Obtained(dir, start, end) ==
             sequence' = [map |-> h, dir |-> dir, start |-> start, end |-> end]
           B == EncodedKeys(keyType) \cup {nil}
<1>1. Constructed(h) /\ UNCHANGED objects
  BY DEF Iterate
<1>2. ASSUME NEW dir \in {"up", "down"}, NEW start \in B, NEW end \in B,
             Obtained(dir, start, end) \/ UNCHANGED sequence
      PROVE  Inv'
  BY <1>1, <1>2, InvSequence
<1>3. nil \in B /\ \A k \in Keys[keyType] : Bound(h, k) \in B
  BY <1>1, Bounds
<1> HIDE DEF B
<1>4. CASE All(h) \/ AllDescending(h)
  BY <1>2, <1>3, <1>4 DEF All, AllDescending, Obtain
<1>5. ASSUME NEW k \in Keys[keyType], RangeFrom(h, k) \/ RangeTo(h, k) PROVE Inv'
  BY <1>2, <1>3, <1>5 DEF RangeFrom, RangeTo, Obtain
<1>6. ASSUME NEW start \in Keys[keyType], NEW end \in Keys[keyType],
             RangeBetween(h, start, end) \/ RangeDescending(h, start, end)
      PROVE  Inv'
  <2>1. \/ Obtained("up", Bound(h, start), Bound(h, end))
        \/ Obtained("down", Bound(h, start), Bound(h, end))
        \/ UNCHANGED sequence
    BY <1>6 DEF RangeBetween, RangeDescending, TreeRange, Obtain
  <2> QED BY <1>2, <1>3, <2>1
<1> QED BY <1>4, <1>5, <1>6 DEF Iterate

\* Every step keeps it.
LEMMA InvNext == Inv /\ [Next]_vars => Inv'
<1> SUFFICES ASSUME Inv, [Next]_vars PROVE Inv'
  OBVIOUS
<1>1. CASE UNCHANGED vars
  BY <1>1, InvSequence DEF vars
<1>2. ASSUME NEW h \in Handles, Write(h), UNCHANGED keyType PROVE Inv'
  BY <1>2, InvWrite
<1>3. ASSUME NEW h \in Handles, New(h), UNCHANGED keyType PROVE Inv'
  <2>1. Empty \in TreesOf(keyType)
    BY Trees DEF Inv
  <2> QED BY <1>3, <2>1, InvObject DEF New
<1>4. ASSUME NEW h \in Handles, RequireConstructed(h), UNCHANGED keyType PROVE Inv'
  BY <1>4, InvSequence DEF RequireConstructed
<1>5. ASSUME NEW h \in Handles, Read(h), UNCHANGED keyType PROVE Inv'
  BY <1>5, InvSequence DEF Read
<1>6. ASSUME NEW h \in Handles, Iterate(h), UNCHANGED keyType PROVE Inv'
  BY <1>6, InvIterate
<1>7. ASSUME NEW h \in Handles, NEW copy \in Handles, Constructed(h), Clone(h, copy),
             UNCHANGED keyType
      PROVE  Inv'
  <2>1. Tree(h) \in TreesOf(keyType) /\ objects[h].kind = PickKind(keyType)
    BY <1>7, Held
  <2> QED BY <1>7, <2>1, InvObject DEF Clone, Cloned
<1>8. CASE Forget /\ UNCHANGED keyType
  BY <1>8, InvSequence DEF Forget
<1>9. ASSUME NEW n, Loop(n), UNCHANGED keyType PROVE Inv'
  BY <1>9, InvSequence DEF Loop
<1> QED BY <1>1, <1>2, <1>3, <1>4, <1>5, <1>6, <1>7, <1>8, <1>9 DEF Next

\* The invariant holds in every reachable state.
THEOREM InvHolds == Spec => []Inv
  BY InvInit, InvNext, PTL DEF Spec

(***************************************************************************)
(* A constructed map, a clone's copy included, encodes and decodes with    *)
(* the kind New picked for its type and stores encodings of keys only.     *)
(***************************************************************************)
THEOREM OrderedMapTypeOK == Spec => []TypeOK
<1>1. Inv => TypeOK
  <2> SUFFICES ASSUME Inv PROVE TypeOK
    OBVIOUS
  <2>1. keyType \in DOMAIN Keys /\ keyType \in KeyTypes
    BY KeysAssumption DEF Inv
  <2>2. ASSUME NEW h \in Handles, Constructed(h)
        PROVE  /\ objects[h].kind = PickKind(keyType)
               /\ DOMAIN Tree(h) \subseteq {Enc(h, k) : k \in Keys[keyType]}
               /\ \A kb \in DOMAIN Tree(h) : Tree(h)[kb] \in Values
    <3>1. Tree(h) \in TreesOf(keyType) /\ objects[h].kind = PickKind(keyType)
      BY <2>2, Held
    <3> QED BY <2>1, <3>1, Trees DEF EncodedKeys, Enc
  <2>3. \A h \in Handles : ~ Constructed(h) => objects[h] = Zero
    BY Held
  <2>4. sequence = none \/ Constructed(sequence.map)
    BY DEF Inv
  <2> QED BY <2>1, <2>2, <2>3, <2>4 DEF TypeOK
<1> QED BY <1>1, InvHolds, PTL

(***************************************************************************)
(* Every map Ordered ever constructs sorts the keys of its type, all of    *)
(* them, as cmp.Compare does, and tells NaNs and zeros apart.              *)
(***************************************************************************)
THEOREM OrderedMapEncodingKeepsOrder == Spec => []EncodingKeepsOrder
<1>1. Inv => EncodingKeepsOrder
  BY EveryTypeKeepsOrder, KeysAssumption DEF Inv, EncodingKeepsOrder
<1> QED BY <1>1, InvHolds, PTL

(***************************************************************************)
(* Every map Ordered ever constructs gives back the keys of its type, all  *)
(* of them, bit by bit.                                                    *)
(***************************************************************************)
THEOREM OrderedMapEncodingRoundTrips == Spec => []EncodingRoundTrips
<1>1. Inv => EncodingRoundTrips
  BY EveryTypeRoundTrips, KeysAssumption DEF Inv, EncodingRoundTrips
<1> QED BY <1>1, InvHolds, PTL
-----------------------------------------------------------------------------
(***************************************************************************)
(* The map the typed caller sees.                                          *)
(***************************************************************************)
Code(type, k) == Encode(PickKind(type), k)
KeyOf(type, c) == Decode(PickKind(type), c)
KeysCoded(type, C) == {KeyOf(type, c) : c \in C}
Typed(type, f) == [k \in KeysCoded(type, DOMAIN f) |-> f[Code(type, k)]]

\* Keys and their encodings determine each other.
LEMMA Recoded ==
  ASSUME NEW type \in DOMAIN Keys
  PROVE  /\ \A k \in Keys[type] :
              Code(type, k) \in EncodedKeys(type) /\ KeyOf(type, Code(type, k)) = k
         /\ \A c \in EncodedKeys(type) :
              /\ KeyOf(type, c) \in Keys[type] /\ Code(type, KeyOf(type, c)) = c
              /\ c \in Texts
  BY Coded DEF Code, KeyOf, EncodedKeys

\* Lookups of a typed map are lookups of the encoded key.
LEMMA TypedLookup ==
  ASSUME NEW type \in DOMAIN Keys, NEW f \in TreesOf(type)
  PROVE  /\ DOMAIN Typed(type, f) \subseteq Keys[type] /\ Typed(type, f) # none
         /\ \A k \in Keys[type] : k \in DOMAIN Typed(type, f) <=> Code(type, k) \in DOMAIN f
         /\ \A k \in DOMAIN Typed(type, f) :
              Typed(type, f)[k] = f[Code(type, k)] /\ Typed(type, f)[k] \in Values
         /\ \A c \in DOMAIN f : Typed(type, f)[KeyOf(type, c)] = f[c]
<1>1. DOMAIN Typed(type, f) = KeysCoded(type, DOMAIN f)
  BY DEF Typed
<1>2. DOMAIN f \subseteq EncodedKeys(type) /\ \A c \in DOMAIN f : f[c] \in Values
  BY Trees
<1>3. DOMAIN Typed(type, f) \subseteq Keys[type]
  BY <1>1, <1>2, Recoded DEF KeysCoded
<1>4. \A k \in Keys[type] : k \in DOMAIN Typed(type, f) <=> Code(type, k) \in DOMAIN f
  BY <1>1, <1>2, Recoded DEF KeysCoded
<1>5. \A k \in DOMAIN Typed(type, f) :
        Typed(type, f)[k] = f[Code(type, k)] /\ Typed(type, f)[k] \in Values
  BY <1>2, <1>3, <1>4 DEF Typed
<1>6. \A c \in DOMAIN f : Typed(type, f)[KeyOf(type, c)] = f[c]
  BY <1>2, <1>4, <1>5, Recoded
<1>7. Typed(type, f) \in [KeysCoded(type, DOMAIN f) -> Values]
  BY <1>1, <1>5 DEF Typed
<1>8. KeysCoded(type, DOMAIN f) \in SUBSET Keys[type]
  BY <1>1, <1>3
<1>9. Typed(type, f) # none
  BY <1>7, <1>8, NoneAssumption
<1> QED BY <1>3, <1>4, <1>5, <1>6, <1>9

\* Storing and removing encoded keys is storing and removing the keys.
LEMMA TypedWrites ==
  ASSUME NEW type \in DOMAIN Keys
  PROVE  /\ Typed(type, Empty) = Empty
         /\ \A f \in TreesOf(type), k \in Keys[type] :
              /\ \A v \in Values :
                   Typed(type, With(f, Code(type, k), v)) = With(Typed(type, f), k, v)
              /\ Typed(type, Without(f, Code(type, k))) = Without(Typed(type, f), k)
<1>1. Typed(type, Empty) = Empty
  BY DEF Typed, KeysCoded, Empty
<1>2. ASSUME NEW f \in TreesOf(type), NEW k \in Keys[type], NEW v \in Values
      PROVE  Typed(type, With(f, Code(type, k), v)) = With(Typed(type, f), k, v)
  <2> DEFINE g == With(f, Code(type, k), v)
             m == With(Typed(type, f), k, v)
  <2>1. /\ g \in TreesOf(type) /\ DOMAIN g = DOMAIN f \cup {Code(type, k)}
        /\ \A c \in DOMAIN g : g[c] = IF c = Code(type, k) THEN v ELSE f[c]
    <3>1. Code(type, k) \in EncodedKeys(type)
      BY Recoded
    <3>2. g \in TreesOf(type)
      BY <3>1, Trees
    <3> QED BY <3>2 DEF With
  <2>2. /\ DOMAIN m = DOMAIN Typed(type, f) \cup {k}
        /\ \A j \in DOMAIN m : m[j] = IF j = k THEN v ELSE Typed(type, f)[j]
    BY DEF With
  <2>3. m = [j \in DOMAIN m |-> m[j]] /\ Typed(type, g) = [j \in DOMAIN Typed(type, g) |-> Typed(type, g)[j]]
    BY DEF With, Typed
  <2> HIDE DEF g, m
  <2>4. ASSUME NEW j \in Keys[type]
        PROVE  /\ j \in DOMAIN Typed(type, g) <=> j \in DOMAIN m
               /\ j \in DOMAIN m => Typed(type, g)[j] = m[j]
    <3>1. Code(type, j) = Code(type, k) <=> j = k
      BY Recoded
    <3> QED BY <2>1, <2>2, <3>1, TypedLookup
  <2>5. DOMAIN Typed(type, g) \subseteq Keys[type] /\ DOMAIN m \subseteq Keys[type]
    BY <2>1, <2>2, TypedLookup
  <2>6. DOMAIN Typed(type, g) = DOMAIN m
    BY <2>4, <2>5
  <2>7. Typed(type, g) = m
    BY <2>3, <2>4, <2>5, <2>6
  <2> QED BY <2>7 DEF g, m
<1>3. ASSUME NEW f \in TreesOf(type), NEW k \in Keys[type]
      PROVE  Typed(type, Without(f, Code(type, k))) = Without(Typed(type, f), k)
  <2> DEFINE g == Without(f, Code(type, k))
             m == Without(Typed(type, f), k)
  <2>1. /\ g \in TreesOf(type) /\ DOMAIN g = DOMAIN f \ {Code(type, k)}
        /\ \A c \in DOMAIN g : g[c] = f[c]
    BY Trees DEF Without
  <2>2. /\ DOMAIN m = DOMAIN Typed(type, f) \ {k}
        /\ \A j \in DOMAIN m : m[j] = Typed(type, f)[j]
    BY DEF Without
  <2>3. m = [j \in DOMAIN m |-> m[j]] /\ Typed(type, g) = [j \in DOMAIN Typed(type, g) |-> Typed(type, g)[j]]
    BY DEF Without, Typed
  <2> HIDE DEF g, m
  <2>4. ASSUME NEW j \in Keys[type]
        PROVE  /\ j \in DOMAIN Typed(type, g) <=> j \in DOMAIN m
               /\ j \in DOMAIN m => Typed(type, g)[j] = m[j]
    <3>1. Code(type, j) = Code(type, k) <=> j = k
      BY Recoded
    <3> QED BY <2>1, <2>2, <3>1, TypedLookup
  <2>5. DOMAIN Typed(type, g) \subseteq Keys[type] /\ DOMAIN m \subseteq Keys[type]
    BY <2>1, <2>2, TypedLookup
  <2>6. DOMAIN Typed(type, g) = DOMAIN m
    BY <2>4, <2>5
  <2>7. Typed(type, g) = m
    BY <2>3, <2>4, <2>5, <2>6
  <2> QED BY <2>7 DEF g, m
<1> QED BY <1>1, <1>2, <1>3

\* The i-th of some keys is the one encoded by the i-th of their encodings.
LEMMA KeysListed ==
  ASSUME ToldApart, NEW type \in DOMAIN Keys,
         NEW C \in SUBSET EncodedKeys(type), IsFiniteSet(C)
  PROVE  /\ Cardinality(KeysCoded(type, C)) = Cardinality(C)
         /\ \A i \in 1 .. Cardinality(C) :
              FirstKey(type, KeysCoded(type, C), i) = KeyOf(type, FirstCode(C, i))
<1> DEFINE D == KeysCoded(type, C)
           f == [c \in C |-> KeyOf(type, c)]
<1>1. \A x, y \in C : f[x] = f[y] => x = y
  BY Recoded
<1>2. D = {f[x] : x \in C}
  BY DEF KeysCoded
<1>3. Cardinality(D) = Cardinality(C)
  BY <1>1, <1>2, Renamed
<1>4. ASSUME NEW c \in C
      PROVE  Cardinality({j \in D : Before(type, j, KeyOf(type, c))}) = Cardinality(Preceding(C, c))
  <2> DEFINE S == Preceding(C, c)
             T == {j \in D : Before(type, j, KeyOf(type, c))}
  <2>1. \A x \in C : Less(x, c) <=> Before(type, KeyOf(type, x), KeyOf(type, c))
    BY Recoded, CodedInOrder DEF Code
  <2>2. T = {f[x] : x \in S}
    BY <1>2, <2>1 DEF Preceding
  <2>3. IsFiniteSet(S)
    BY FS_Subset DEF Preceding
  <2>4. S \subseteq C
    BY DEF Preceding
  <2> HIDE DEF S, T, f
  <2>5. Cardinality(T) = Cardinality(S)
    BY <1>1, <2>2, <2>3, <2>4, Renamed
  <2> QED BY <2>5 DEF S, T
<1>5. ASSUME NEW i \in 1 .. Cardinality(C)
      PROVE  FirstKey(type, D, i) = KeyOf(type, FirstCode(C, i))
  <2> DEFINE first == FirstCode(C, i)
  <2>1. C \in SUBSET Texts
    BY Recoded
  <2>2. first \in C /\ Cardinality(Preceding(C, first)) = i - 1
    BY <2>1, CodesListed
  <2> HIDE DEF first, f
  <2>3. \A c \in C : Cardinality(Preceding(C, c)) = i - 1 => c = first
    BY <2>1, <2>2, CodesListed
  <2>4. \A k \in D : \E c \in C : k = KeyOf(type, c)
    BY DEF KeysCoded
  <2>5. KeyOf(type, first) \in D
    BY <2>2 DEF KeysCoded
  <2> HIDE DEF D
  <2>6. ASSUME NEW k \in D
        PROVE  Cardinality({j \in D : Before(type, j, k)}) = i - 1 <=> k = KeyOf(type, first)
    BY <1>4, <2>2, <2>3, <2>4
  <2>7. FirstKey(type, D, i) = KeyOf(type, first)
    BY <2>5, <2>6 DEF FirstKey
  <2> QED BY <2>7 DEF first
<1> QED BY <1>3, <1>5
-----------------------------------------------------------------------------
(***************************************************************************)
(* The refinement.  Under the invariant the view of an object is the typed *)
(* map of its tree, that of a bound is its key.                            *)
(***************************************************************************)
Shown(type, object) == IF object = Zero THEN none ELSE Typed(type, object.tree)
BoundKey(type, bound) == IF bound = nil THEN none ELSE KeyOf(type, bound)

ContentsMatch == \A h \in Handles : TypedContents(h) = Shown(keyType, objects[h])

\* What a typed caller sees of an object.
LEMMA ContentsShown == Inv => ContentsMatch
<1> SUFFICES ASSUME Inv, NEW h \in Handles
             PROVE  TypedContents(h) = Shown(keyType, objects[h])
  BY DEF ContentsMatch
<1>1. CASE ~ Constructed(h)
  <2>1. objects[h] = Zero
    BY <1>1, Held
  <2> QED BY <1>1, <2>1 DEF TypedContents, Shown
<1>2. CASE Constructed(h)
  <2>1. objects[h].kind = PickKind(keyType)
    BY <1>2, Held
  <2>2. objects[h] # Zero
    BY <1>2 DEF Constructed, Tree, Zero
  <2> QED BY <1>2, <2>1, <2>2
          DEF TypedContents, Shown, Typed, KeysCoded, KeyOf, Code, Tree, Enc, Dec
<1> QED BY <1>1, <1>2

\* What a typed caller sees of the sequence.
LEMMA SequenceShown ==
  Inv => TypedSequence =
           IF sequence = none THEN none
           ELSE [map   |-> sequence.map, dir |-> sequence.dir,
                 start |-> BoundKey(keyType, sequence.start),
                 end   |-> BoundKey(keyType, sequence.end)]
<1> SUFFICES ASSUME Inv, sequence # none
             PROVE  TypedSequence =
                      [map   |-> sequence.map, dir |-> sequence.dir,
                       start |-> BoundKey(keyType, sequence.start),
                       end   |-> BoundKey(keyType, sequence.end)]
  BY DEF TypedSequence
<1>1. sequence \in Sequences(EncodedKeys(keyType) \cup {nil}) /\ Constructed(sequence.map)
  BY DEF Inv
<1>2. sequence.map \in Handles
  BY <1>1 DEF Sequences
<1>3. objects[sequence.map].kind = PickKind(keyType)
  BY <1>1, <1>2, Held
<1>4. \A kb : TypedBound(sequence.map, kb) = BoundKey(keyType, kb)
  BY <1>3 DEF TypedBound, BoundKey, KeyOf, Dec
<1> QED BY <1>1, <1>4 DEF TypedSequence, Sequences

\* The bound of an encoded key is that key, and what is not a bound is none.
LEMMA BoundShown ==
  ASSUME NEW type \in DOMAIN Keys
  PROVE  /\ BoundKey(type, nil) = none
         /\ \A c \in EncodedKeys(type) :
              /\ c # nil /\ BoundKey(type, c) = KeyOf(type, c)
              /\ BoundKey(type, c) \in Keys[type] /\ BoundKey(type, c) # none
  BY Recoded, NoneAssumption DEF BoundKey

TypedMaps == [h \in Handles |-> TypedContents(h)]

\* What the two views become when one object changes.
LEMMA ObjectShown ==
  ASSUME Inv, Inv', NEW h \in Handles, NEW f \in TreesOf(keyType),
         objects' = [objects EXCEPT ![h] = [tree |-> f, kind |-> PickKind(keyType)]],
         UNCHANGED <<keyType, sequence>>
  PROVE  /\ TypedMaps' = [TypedMaps EXCEPT ![h] = Typed(keyType, f)]
         /\ TypedSequence' = TypedSequence
<1>1. (Inv => ContentsMatch)'
  BY ContentsShown, PTL
<1>2. \A g \in Handles : TypedContents(g)' = Shown(keyType, objects'[g])
  BY <1>1 DEF ContentsMatch
<1>3. \A g \in Handles : TypedContents(g) = Shown(keyType, objects[g])
  BY ContentsShown DEF ContentsMatch
<1>4. [tree |-> f, kind |-> PickKind(keyType)] # Zero
  <2>1. f # nil
    BY Trees DEF Inv
  <2> QED BY <2>1 DEF Zero
<1>5. Shown(keyType, [tree |-> f, kind |-> PickKind(keyType)]) = Typed(keyType, f)
  BY <1>4 DEF Shown
<1>6. DOMAIN objects = Handles
  BY DEF Inv
<1>7. \A g \in Handles : TypedContents(g)' = IF g = h THEN Typed(keyType, f) ELSE TypedContents(g)
  BY <1>2, <1>3, <1>5, <1>6
<1>8. TypedMaps' = [TypedMaps EXCEPT ![h] = Typed(keyType, f)]
  BY <1>7 DEF TypedMaps
<1>9. (Inv => TypedSequence =
                IF sequence = none THEN none
                ELSE [map   |-> sequence.map, dir |-> sequence.dir,
                      start |-> BoundKey(keyType, sequence.start),
                      end   |-> BoundKey(keyType, sequence.end)])'
  BY SequenceShown, PTL
<1>10. TypedSequence' = TypedSequence
  BY <1>9, SequenceShown
<1> QED BY <1>8, <1>10

\* The lists of the typed map are the trees' lists, decoded.
LEMMA Listings ==
  ASSUME ToldApart, keyType \in DOMAIN Keys,
         NEW f \in TreesOf(keyType), NEW C \in SUBSET DOMAIN f
  PROVE  LET listing == TM!Listing(Typed(keyType, f), KeysCoded(keyType, C))
             entry(c) == <<KeyOf(keyType, c), f[c]>>
         IN  /\ Cardinality(C) \in Nat
             /\ listing = [i \in 1 .. Cardinality(C) |-> entry(FirstCode(C, i))]
             /\ listing \in Seq(Keys[keyType] \X Values)
             /\ TM!Reverse(listing) = [i \in 1 .. Cardinality(C) |-> entry(LastCode(C, i))]
             /\ TM!Reverse(listing) \in Seq(Keys[keyType] \X Values)
<1> DEFINE m == Typed(keyType, f)
           D == KeysCoded(keyType, C)
           n == Cardinality(C)
           entry(c) == <<KeyOf(keyType, c), f[c]>>
           listing == TM!Listing(m, D)
           E == Keys[keyType] \X Values
<1>1. IsFiniteSet(C) /\ C \in SUBSET EncodedKeys(keyType) /\ C \in SUBSET Texts
  BY Trees, FS_Subset, Recoded
<1>2. n \in Nat /\ Cardinality(D) = n
  BY <1>1, KeysListed, FS_CardinalityType
<1>3. TM!Cardinality(D) = n
  BY <1>2 DEF TM!Cardinality, Cardinality
<1>4. \A S : TM!Cardinality(S) = Cardinality(S)
  BY DEF TM!Cardinality, Cardinality
<1>5. ASSUME NEW i \in 1 .. n
      PROVE  /\ FirstCode(C, i) \in C /\ LastCode(C, i) = FirstCode(C, n - i + 1)
             /\ TM!Nth(D, i) = KeyOf(keyType, FirstCode(C, i))
  <2>1. FirstCode(C, i) \in C /\ LastCode(C, i) = FirstCode(C, n - i + 1)
    BY <1>1, CodesListed
  <2>2. FirstKey(keyType, D, i) = KeyOf(keyType, FirstCode(C, i))
    BY <1>1, KeysListed
  <2>3. TM!Nth(D, i) = FirstKey(keyType, D, i)
    BY <1>4 DEF TM!Nth, FirstKey
  <2> QED BY <2>1, <2>2, <2>3
<1>6. \A c \in C : m[KeyOf(keyType, c)] = f[c] /\ entry(c) \in E
  BY <1>1, Trees, TypedLookup, Recoded
<1>7. listing = [i \in 1 .. n |-> <<TM!Nth(D, i), m[TM!Nth(D, i)]>>]
  BY <1>3 DEF TM!Listing
<1> HIDE DEF m, D, n, E, listing
<1>8. listing = [i \in 1 .. n |-> entry(FirstCode(C, i))]
  BY <1>5, <1>6, <1>7
<1>9. \A i \in 1 .. n : entry(FirstCode(C, i)) \in E
  BY <1>5, <1>6
<1>10. listing \in Seq(E) /\ Len(listing) = n
  BY <1>2, <1>8, <1>9
<1>11. TM!Reverse(listing) = [i \in 1 .. n |-> entry(LastCode(C, i))]
  <2>1. TM!Reverse(listing) = [i \in 1 .. n |-> listing[(n - i) + 1]]
    BY <1>10 DEF TM!Reverse
  <2>2. \A i \in 1 .. n : (n - i) + 1 \in 1 .. n
    BY <1>2
  <2>3. \A i \in 1 .. n : listing[(n - i) + 1] = entry(LastCode(C, i))
    BY <1>5, <1>8, <2>2
  <2> QED BY <2>1, <2>3
<1>12. TM!Reverse(listing) \in Seq(E)
  <2>1. \A i \in 1 .. n : n - i + 1 \in 1 .. n
    BY <1>2
  <2>2. \A i \in 1 .. n : entry(LastCode(C, i)) \in E
    BY <1>5, <1>9, <2>1
  <2> QED BY <1>2, <1>11, <2>2
<1> QED BY <1>2, <1>8, <1>10, <1>11, <1>12 DEF m, D, n, E, listing

\* What the tree returns is the first entry of a list.
LEMMA FirstEntries ==
  ASSUME Inv, ToldApart, NEW h \in Handles, Constructed(h), NEW C \in SUBSET DOMAIN Tree(h)
  PROVE  LET listing == TM!Listing(Typed(keyType, Tree(h)), KeysCoded(keyType, C))
         IN  /\ Least(h, C) = TM!FirstOf(listing)
             /\ Greatest(h, C) = TM!FirstOf(TM!Reverse(listing))
<1> DEFINE f == Tree(h)
           n == Cardinality(C)
           entry(c) == <<KeyOf(keyType, c), f[c]>>
           listing == TM!Listing(Typed(keyType, f), KeysCoded(keyType, C))
           reverse == TM!Reverse(listing)
<1>1. keyType \in DOMAIN Keys /\ f \in TreesOf(keyType) /\ objects[h].kind = PickKind(keyType)
  BY Held DEF Inv
<1>2. IsFiniteSet(C) /\ C \in SUBSET Texts
  BY <1>1, Trees, FS_Subset, Recoded
<1>3. /\ n \in Nat
      /\ listing = [i \in 1 .. n |-> entry(FirstCode(C, i))]
      /\ listing \in Seq(Keys[keyType] \X Values)
      /\ reverse = [i \in 1 .. n |-> entry(LastCode(C, i))]
      /\ reverse \in Seq(Keys[keyType] \X Values)
  BY <1>1, Listings
<1>4. \A c : entry(c) = <<Dec(h, c), Tree(h)[c]>>
  BY <1>1 DEF Dec, KeyOf
<1>5. n = 0 <=> C = {}
  BY <1>2, FS_EmptySet
<1>6. CASE C = {}
  <2> HIDE DEF n, f, listing, reverse
  <2>1. listing = <<>> /\ reverse = <<>>
    BY <1>3, <1>5, <1>6
  <2> QED BY <1>6, <2>1 DEF Least, Greatest, TM!FirstOf, listing, reverse, f
<1>7. CASE C # {}
  <2>1. /\ (CHOOSE x \in C : \A y \in C \ {x} : Less(x, y)) = FirstCode(C, 1)
        /\ (CHOOSE x \in C : \A y \in C \ {x} : Less(y, x)) = LastCode(C, 1)
    BY <1>2, <1>7, CodesEnds
  <2>2. /\ Least(h, C) = <<Dec(h, FirstCode(C, 1)), Tree(h)[FirstCode(C, 1)]>>
        /\ Greatest(h, C) = <<Dec(h, LastCode(C, 1)), Tree(h)[LastCode(C, 1)]>>
    BY <1>7, <2>1 DEF Least, Greatest
  <2>3. Least(h, C) = entry(FirstCode(C, 1)) /\ Greatest(h, C) = entry(LastCode(C, 1))
    BY <1>4, <2>2
  <2> HIDE DEF n, f, listing, reverse, entry
  <2>4. 1 \in 1 .. n
    BY <1>3, <1>5, <1>7
  <2>5. listing[1] = entry(FirstCode(C, 1)) /\ reverse[1] = entry(LastCode(C, 1))
    BY <1>3, <2>4
  <2>6. 1 \in DOMAIN listing /\ 1 \in DOMAIN reverse
    BY <1>3, <2>4
  <2>7. listing # <<>> /\ reverse # <<>>
    BY <2>6
  <2>8. TM!FirstOf(listing) = Least(h, C) /\ TM!FirstOf(reverse) = Greatest(h, C)
    BY <2>3, <2>5, <2>7 DEF TM!FirstOf
  <2> QED BY <2>8 DEF listing, reverse, f
<1> QED BY <1>6, <1>7

\* The typed map of a handle.
LEMMA MapShown ==
  ASSUME Inv, NEW h \in Handles
  PROVE  /\ keyType \in DOMAIN Keys
         /\ ~ Constructed(h) => TypedMaps[h] = none
         /\ Constructed(h) =>
              /\ TypedMaps[h] = Typed(keyType, Tree(h)) /\ TypedMaps[h] # none
              /\ Tree(h) \in TreesOf(keyType) /\ DOMAIN Tree(h) \subseteq EncodedKeys(keyType)
              /\ \A k : Enc(h, k) = Code(keyType, k)
              /\ \A c : Dec(h, c) = KeyOf(keyType, c)
<1>1. keyType \in DOMAIN Keys /\ TypedMaps[h] = Shown(keyType, objects[h])
  BY ContentsShown DEF ContentsMatch, TypedMaps, Inv
<1>2. CASE ~ Constructed(h)
  BY <1>1, <1>2, Held DEF Shown
<1>3. CASE Constructed(h)
  <2>1. Tree(h) \in TreesOf(keyType) /\ objects[h].kind = PickKind(keyType)
    BY <1>3, Held
  <2>2. objects[h] # Zero
    BY <1>3 DEF Constructed, Tree, Zero
  <2>3. TypedMaps[h] = Typed(keyType, Tree(h))
    BY <1>1, <2>2 DEF Shown, Tree
  <2>4. TypedMaps[h] # none /\ DOMAIN Tree(h) \subseteq EncodedKeys(keyType)
    BY <1>1, <2>1, <2>3, TypedLookup, Trees
  <2> QED BY <1>1, <1>3, <2>1, <2>3, <2>4 DEF Enc, Dec, Code, KeyOf
<1> QED BY <1>1, <1>2, <1>3

\* Steps that leave the objects alone leave the typed maps alone.
LEMMA ContentsKept ==
  ASSUME UNCHANGED objects
  PROVE  TypedMaps' = TypedMaps /\ (UNCHANGED sequence => TypedSequence' = TypedSequence)
<1>1. \A g \in Handles : TypedContents(g)' = TypedContents(g)
  BY DEF TypedContents, Constructed, Tree, Enc, Dec
<1>2. UNCHANGED sequence => TypedSequence' = TypedSequence
  BY DEF TypedSequence, TypedBound, Dec
<1> QED BY <1>1, <1>2 DEF TypedMaps

\* New gives the handle an empty map.
LEMMA NewShown ==
  ASSUME Inv, Inv', NEW h \in Handles, New(h), UNCHANGED keyType
  PROVE  TM!TMNext
<1>1. Empty \in TreesOf(keyType) /\ Typed(keyType, Empty) = Empty
  BY MapShown, Trees, TypedWrites
<1>2. TypedMaps' = [TypedMaps EXCEPT ![h] = Empty] /\ TypedSequence' = TypedSequence
  BY <1>1, ObjectShown DEF New
<1>3. TypedMaps[h] = none
  BY MapShown DEF New
<1>4. TM!TMNew(h)
  BY <1>2, <1>3 DEF New, TM!TMNew, TypedMaps, TM!Empty, Empty
<1> QED BY <1>4 DEF TM!TMNext

\* A method of a zero-valued handle panics.
LEMMA PanicShown ==
  ASSUME Inv, NEW h \in Handles, RequireConstructed(h), UNCHANGED keyType
  PROVE  TM!TMNext
<1>1. TypedMaps[h] = none
  BY MapShown DEF RequireConstructed
<1>2. TypedMaps' = TypedMaps /\ TypedSequence' = TypedSequence
  BY ContentsKept DEF RequireConstructed
<1>3. TM!TMPanic(h)
  BY <1>1, <1>2 DEF RequireConstructed, TM!TMPanic, TypedMaps
<1> QED BY <1>3 DEF TM!TMNext

\* Put and Delete store and remove the key.
LEMMA WriteShown ==
  ASSUME Inv, Inv', NEW h \in Handles, Write(h), UNCHANGED keyType
  PROVE  TM!TMNext
<1>1. PICK k \in Keys[keyType] : Put(h, k) \/ Delete(h, k)
  BY DEF Write
<1>2. /\ Constructed(h) /\ UNCHANGED sequence /\ TypedMaps[h] # none
      /\ TypedMaps[h] = Typed(keyType, Tree(h)) /\ Tree(h) \in TreesOf(keyType)
      /\ Enc(h, k) = Code(keyType, k) /\ keyType \in DOMAIN Keys
      /\ Code(keyType, k) \in EncodedKeys(keyType)
  BY MapShown, Recoded DEF Write
<1>3. \A f : [objects EXCEPT ![h].tree = f]
               = [objects EXCEPT ![h] = [tree |-> f, kind |-> PickKind(keyType)]]
  <2>1. objects[h] = [tree |-> Tree(h), kind |-> PickKind(keyType)]
    BY <1>2, Held
  <2>2. \A f : [objects[h] EXCEPT !.tree = f] = [tree |-> f, kind |-> PickKind(keyType)]
    BY <2>1
  <2> QED BY <2>2
<1>4. ASSUME NEW f \in TreesOf(keyType), objects' = [objects EXCEPT ![h].tree = f]
      PROVE  TypedMaps' = [TypedMaps EXCEPT ![h] = Typed(keyType, f)] /\ TypedSequence' = TypedSequence
  BY <1>2, <1>3, <1>4, ObjectShown
<1>5. CASE Put(h, k)
  <2>1. PICK v \in Values :
          /\ objects' = [objects EXCEPT ![h].tree = With(Tree(h), Enc(h, k), v)]
          /\ answer' = <<"Put", h, k, v>>
    BY <1>5 DEF Put, Tree
  <2>2. /\ With(Tree(h), Code(keyType, k), v) \in TreesOf(keyType)
        /\ Typed(keyType, With(Tree(h), Code(keyType, k), v)) = With(TypedMaps[h], k, v)
    BY <1>2, Trees, TypedWrites
  <2>3. /\ TypedMaps' = [TypedMaps EXCEPT ![h] = With(TypedMaps[h], k, v)]
        /\ TypedSequence' = TypedSequence
    BY <1>2, <1>4, <2>1, <2>2
  <2>4. TM!TMPut(h, k, v)
    BY <1>2, <2>1, <2>3 DEF TM!TMPut, TypedMaps, TM!With, With
  <2> QED BY <2>4 DEF TM!TMNext
<1>6. CASE Delete(h, k)
  <2>1. /\ objects' = [objects EXCEPT ![h].tree = Without(Tree(h), Enc(h, k))]
        /\ answer' = <<"Delete", h, k, Enc(h, k) \in DOMAIN Tree(h)>>
    BY <1>6 DEF Delete, Tree
  <2>2. /\ Without(Tree(h), Code(keyType, k)) \in TreesOf(keyType)
        /\ Typed(keyType, Without(Tree(h), Code(keyType, k))) = Without(TypedMaps[h], k)
    BY <1>2, Trees, TypedWrites
  <2>3. /\ TypedMaps' = [TypedMaps EXCEPT ![h] = Without(TypedMaps[h], k)]
        /\ TypedSequence' = TypedSequence
    BY <1>2, <1>4, <2>1, <2>2
  <2>4. (Enc(h, k) \in DOMAIN Tree(h)) = (k \in DOMAIN TypedMaps[h])
    BY <1>2, TypedLookup
  <2>5. answer' = <<"Delete", h, k, k \in DOMAIN TypedMaps[h]>>
    BY <2>1, <2>4
  <2>6. TM!TMDelete(h, k)
    BY <1>2, <2>3, <2>5 DEF TM!TMDelete, TypedMaps, TM!Without, Without
  <2> QED BY <2>6 DEF TM!TMNext
<1> QED BY <1>1, <1>5, <1>6

\* A query answers what the typed map answers.
LEMMA ReadShown ==
  ASSUME Inv, ToldApart, NEW h \in Handles, Read(h), UNCHANGED keyType
  PROVE  TM!TMNext
<1> DEFINE f == Tree(h)
           m == TypedMaps[h]
<1>1. /\ Constructed(h) /\ m = Typed(keyType, f) /\ m # none /\ f \in TreesOf(keyType)
      /\ \A k : Enc(h, k) = Code(keyType, k)
      /\ keyType \in DOMAIN Keys /\ DOMAIN f \subseteq EncodedKeys(keyType)
  BY MapShown DEF Read
<1>2. TypedMaps' = TypedMaps /\ TypedSequence' = TypedSequence
  BY ContentsKept DEF Read
<1>3. ASSUME NEW query \in TM!Queries, NEW k \in Keys[keyType] \cup {none},
             query \in {"Len", "Min", "Max"} <=> k = none,
             answer' = <<query, h, k, TM!Result(query, m, k)>>
      PROVE  TM!TMNext
  <2>1. answer'[1] = query
    BY <1>3
  <2>2. TM!TMQuery(query, h, k)
    BY <1>1, <1>2, <1>3, <2>1 DEF TM!TMQuery, TypedMaps
  <2> QED BY <1>3, <2>2 DEF TM!TMNext
<1>4. DOMAIN m = KeysCoded(keyType, DOMAIN f)
  BY <1>1 DEF Typed
<1>5. CASE Length(h)
  <2>1. Cardinality(DOMAIN m) = Cardinality(DOMAIN f)
    BY <1>1, <1>4, KeysListed, Trees
  <2>2. TM!Cardinality(DOMAIN m) = Cardinality(DOMAIN m)
    BY DEF TM!Cardinality, Cardinality
  <2>3. TM!Result("Len", m, none) = Count(f)
    BY <2>1, <2>2 DEF TM!Result, TM!Count, Count
  <2>4. answer' = <<"Len", h, none, TM!Result("Len", m, none)>>
    BY <1>5, <2>3 DEF Length
  <2> QED BY <1>3, <2>4 DEF TM!Queries
<1>6. CASE Min(h)
  <2>1. TM!Result("Min", m, none) = Least(h, DOMAIN f)
    BY <1>1, <1>4, FirstEntries DEF TM!Result
  <2>2. answer' = <<"Min", h, none, TM!Result("Min", m, none)>>
    BY <1>6, <2>1 DEF Min
  <2> QED BY <1>3, <2>2 DEF TM!Queries
<1>7. CASE Max(h)
  <2>1. TM!Result("Max", m, none) = Greatest(h, DOMAIN f)
    BY <1>1, <1>4, FirstEntries DEF TM!Result
  <2>2. answer' = <<"Max", h, none, TM!Result("Max", m, none)>>
    BY <1>7, <2>1 DEF Max
  <2> QED BY <1>3, <2>2 DEF TM!Queries
<1>8. ASSUME NEW k \in Keys[keyType] PROVE k # none
  BY <1>1, NoneAssumption
<1>9. ASSUME NEW k \in Keys[keyType], Get(h, k) PROVE TM!TMNext
  <2>1. TM!Result("Get", m, k) = IF k \in DOMAIN m THEN m[k] ELSE none
    BY DEF TM!Result
  <2>2. TM!Result("Get", m, k) = IF Enc(h, k) \in DOMAIN f THEN f[Enc(h, k)] ELSE none
    BY <1>1, <2>1, TypedLookup
  <2>3. answer' = <<"Get", h, k, TM!Result("Get", m, k)>>
    BY <1>9, <2>2 DEF Get
  <2> QED BY <1>3, <1>8, <2>3 DEF TM!Queries
<1>10. \A k \in Keys[keyType], c \in DOMAIN f :
         /\ Less(c, Enc(h, k)) <=> Before(keyType, KeyOf(keyType, c), k)
         /\ Less(Enc(h, k), c) <=> Before(keyType, k, KeyOf(keyType, c))
  BY <1>1, Recoded, CodedInOrder DEF Code
<1>11. ASSUME NEW k \in Keys[keyType], Ceiling(h, k) PROVE TM!TMNext
  <2> DEFINE C == {kb \in DOMAIN f : ~ Less(kb, Enc(h, k))}
             D == {j \in DOMAIN m : ~ Before(keyType, j, k)}
  <2>1. D = KeysCoded(keyType, C)
    BY <1>4, <1>10 DEF KeysCoded
  <2>2. TM!Result("Ceiling", m, k) = TM!FirstOf(TM!Listing(m, D))
    BY DEF TM!Result
  <2>3. C \in SUBSET DOMAIN f
    OBVIOUS
  <2>4. answer' = <<"Ceiling", h, k, Least(h, C)>>
    BY <1>11 DEF Ceiling
  <2> HIDE DEF C, D
  <2>5. TM!Result("Ceiling", m, k) = Least(h, C)
    BY <1>1, <2>1, <2>2, <2>3, FirstEntries
  <2> QED BY <1>3, <1>8, <2>4, <2>5 DEF TM!Queries
<1>12. ASSUME NEW k \in Keys[keyType], Floor(h, k) PROVE TM!TMNext
  <2> DEFINE C == {kb \in DOMAIN f : ~ Less(Enc(h, k), kb)}
             D == {j \in DOMAIN m : ~ Before(keyType, k, j)}
  <2>1. D = KeysCoded(keyType, C)
    BY <1>4, <1>10 DEF KeysCoded
  <2>2. TM!Result("Floor", m, k) = TM!FirstOf(TM!Reverse(TM!Listing(m, D)))
    BY DEF TM!Result
  <2>3. C \in SUBSET DOMAIN f
    OBVIOUS
  <2>4. answer' = <<"Floor", h, k, Greatest(h, C)>>
    BY <1>12 DEF Floor
  <2> HIDE DEF C, D
  <2>5. TM!Result("Floor", m, k) = Greatest(h, C)
    BY <1>1, <2>1, <2>2, <2>3, FirstEntries
  <2> QED BY <1>3, <1>8, <2>4, <2>5 DEF TM!Queries
<1> QED BY <1>5, <1>6, <1>7, <1>9, <1>11, <1>12 DEF Read

\* A clone starts with the entries of the original.
LEMMA CloneShown ==
  ASSUME Inv, Inv', NEW h \in Handles, NEW copy \in Handles, Constructed(h), Clone(h, copy),
         UNCHANGED keyType
  PROVE  TM!TMNext
<1>1. /\ TypedMaps[h] = Typed(keyType, Tree(h)) /\ TypedMaps[h] # none
      /\ Tree(h) \in TreesOf(keyType) /\ objects[h].kind = PickKind(keyType)
  BY MapShown, Held
<1>2. TypedMaps[copy] = none
  BY MapShown DEF Clone
<1>3. TypedMaps' = [TypedMaps EXCEPT ![copy] = TypedMaps[h]] /\ TypedSequence' = TypedSequence
  BY <1>1, ObjectShown DEF Clone, Cloned
<1>4. TM!TMClone(h, copy)
  BY <1>1, <1>2, <1>3 DEF Clone, TM!TMClone, TypedMaps
<1> QED BY <1>4 DEF TM!TMNext

\* The bounds of a sequence are seen as the keys they encode.
LEMMA ObtainShown ==
  ASSUME Inv, Inv', NEW h \in Handles, NEW dir \in {"up", "down"},
         NEW start \in EncodedKeys(keyType) \cup {nil},
         NEW end \in EncodedKeys(keyType) \cup {nil},
         sequence' = [map |-> h, dir |-> dir, start |-> start, end |-> end],
         UNCHANGED keyType
  PROVE  TypedSequence' = [map |-> h, dir |-> dir, start |-> BoundKey(keyType, start),
                           end |-> BoundKey(keyType, end)]
<1>1. (Inv => TypedSequence =
                IF sequence = none THEN none
                ELSE [map   |-> sequence.map, dir |-> sequence.dir,
                      start |-> BoundKey(keyType, sequence.start),
                      end   |-> BoundKey(keyType, sequence.end)])'
  BY SequenceShown, PTL
<1>2. sequence' # none
  BY NoneAssumption DEF Inv, Sequences
<1> QED BY <1>1, <1>2

\* A call that returns a sequence, or refuses reversed bounds.
LEMMA IterateShown ==
  ASSUME Inv, Inv', ToldApart, NEW h \in Handles, Iterate(h), UNCHANGED keyType
  PROVE  TM!TMNext
<1> DEFINE E == EncodedKeys(keyType)
           ks == Keys[keyType]
<1>1. /\ Constructed(h) /\ keyType \in DOMAIN Keys /\ TypedMaps[h] # none
      /\ TypedMaps' = TypedMaps
  BY MapShown, ContentsKept DEF Iterate
<1>2. \A k \in ks : Bound(h, k) = Code(keyType, k) /\ Bound(h, k) \in E /\ Bound(h, k) # nil
  BY <1>1, Bounds DEF Code
<1>3. /\ BoundKey(keyType, nil) = none
      /\ \A k \in ks : BoundKey(keyType, Bound(h, k)) = k
  BY <1>1, <1>2, BoundShown, Recoded
<1>4. \A a, b \in ks : Less(Bound(h, a), Bound(h, b)) <=> Before(keyType, a, b)
  BY <1>1, <1>2, CodedInOrder DEF Code
<1>5. ASSUME NEW call, NEW dir \in {"up", "down"}, NEW start \in E \cup {nil}, NEW end \in E \cup {nil},
             Obtain(call, h, dir, start, end)
      PROVE  TM!TMObtain(call, h, dir, BoundKey(keyType, start), BoundKey(keyType, end))
  <2>1. TypedSequence' = [map |-> h, dir |-> dir, start |-> BoundKey(keyType, start),
                          end |-> BoundKey(keyType, end)]
    BY <1>5, ObtainShown DEF Obtain
  <2> QED BY <1>5, <2>1 DEF Obtain, TM!TMObtain
<1> HIDE DEF E
<1>6. ASSUME NEW call, NEW dir \in {"up", "down"}, NEW start \in ks, NEW end \in ks,
             TreeRange(call, h, dir, Bound(h, start), Bound(h, end))
      PROVE  TM!TMBetween(call, h, dir, start, end)
  <2>1. Less(Bound(h, end), Bound(h, start)) <=> Before(keyType, end, start)
    BY <1>4
  <2>2. CASE Before(keyType, end, start)
    <3>1. answer' = call \o <<"panic">> /\ UNCHANGED sequence
      BY <1>2, <1>6, <2>1, <2>2 DEF TreeRange
    <3>2. TypedSequence' = TypedSequence
      BY <3>1, ContentsKept DEF Iterate
    <3> QED BY <2>2, <3>1, <3>2 DEF TM!TMBetween
  <2>3. CASE ~ Before(keyType, end, start)
    <3>1. Obtain(call, h, dir, Bound(h, start), Bound(h, end))
      BY <1>6, <2>1, <2>3 DEF TreeRange
    <3>2. TM!TMObtain(call, h, dir, start, end)
      BY <1>2, <1>3, <1>5, <3>1
    <3> QED BY <2>3, <3>2 DEF TM!TMBetween
  <2> QED BY <2>2, <2>3
<1>7. ASSUME \/ TM!TMObtain(<<"All", h>>, h, "up", none, none)
             \/ TM!TMObtain(<<"AllDescending", h>>, h, "down", none, none)
             \/ \E k \in ks :
                  \/ TM!TMObtain(<<"RangeFrom", h, k>>, h, "up", k, none)
                  \/ TM!TMObtain(<<"RangeTo", h, k>>, h, "up", none, k)
             \/ \E start, end \in ks :
                  \/ TM!TMBetween(<<"Range", h, start, end>>, h, "up", start, end)
                  \/ TM!TMBetween(<<"RangeDescending", h, start, end>>, h, "down", start, end)
      PROVE  TM!TMNext
  <2>1. TM!TMIterate(h)
    BY <1>1, <1>7 DEF TM!TMIterate, TypedMaps
  <2> QED BY <2>1 DEF TM!TMNext
<1>8. CASE All(h)
  BY <1>3, <1>5, <1>7, <1>8 DEF All
<1>9. CASE AllDescending(h)
  BY <1>3, <1>5, <1>7, <1>9 DEF AllDescending
<1>10. ASSUME NEW k \in ks, RangeFrom(h, k) \/ RangeTo(h, k) PROVE TM!TMNext
  BY <1>2, <1>3, <1>5, <1>7, <1>10 DEF RangeFrom, RangeTo
<1>11. ASSUME NEW start \in ks, NEW end \in ks,
              RangeBetween(h, start, end) \/ RangeDescending(h, start, end)
       PROVE  TM!TMNext
  BY <1>6, <1>7, <1>11 DEF RangeBetween, RangeDescending
<1> QED BY <1>8, <1>9, <1>10, <1>11 DEF Iterate

\* The beginning of a sequence.
LEMMA Beginning ==
  ASSUME NEW S, NEW s \in Seq(S), NEW q \in 0 .. Len(s)
  PROVE  SubSeq(s, 1, q) = [i \in 1 .. q |-> s[i]]
  OBVIOUS

\* A loop yields the entries of the typed map between its bounds, in its direction.
LEMMA LoopShown ==
  ASSUME Inv, ToldApart, sequence # none, NEW n \in 1 .. Cardinality(Keys[keyType]), Loop(n),
         UNCHANGED keyType
  PROVE  TM!TMNext
<1> DEFINE h == sequence.map
           f == Tree(h)
           m == TypedMaps[h]
           C == {kb \in DOMAIN f : InRange(kb, sequence.start, sequence.end)}
           c == Cardinality(C)
           q == IF n < c THEN n ELSE c
           entry(kb) == <<KeyOf(keyType, kb), f[kb]>>
           code(i) == IF sequence.dir = "up" THEN FirstCode(C, i) ELSE LastCode(C, i)
           ts == TypedSequence
           D == {k \in DOMAIN m : TM!Inside(k, ts.start, ts.end)}
           all == TM!Listing(m, D)
           due == IF sequence.dir = "up" THEN all ELSE TM!Reverse(all)
<1>1. /\ sequence \in Sequences(EncodedKeys(keyType) \cup {nil}) /\ Constructed(h)
      /\ h \in Handles
  BY DEF Inv, Sequences
<1>2. /\ m = Typed(keyType, f) /\ f \in TreesOf(keyType) /\ DOMAIN f \subseteq EncodedKeys(keyType)
      /\ \A kb : Dec(h, kb) = KeyOf(keyType, kb)
      /\ keyType \in DOMAIN Keys
  BY <1>1, MapShown
<1>3. ts = [map   |-> sequence.map, dir |-> sequence.dir,
            start |-> BoundKey(keyType, sequence.start),
            end   |-> BoundKey(keyType, sequence.end)]
  BY SequenceShown
<1>4. ts # none
  <2>1. /\ sequence.dir \in {"up", "down"}
        /\ sequence.start \in EncodedKeys(keyType) \cup {nil}
        /\ sequence.end \in EncodedKeys(keyType) \cup {nil}
    BY <1>1 DEF Sequences
  <2>2. /\ BoundKey(keyType, sequence.start) \in Keys[keyType] \cup {none}
        /\ BoundKey(keyType, sequence.end) \in Keys[keyType] \cup {none}
    BY <1>2, <2>1, BoundShown
  <2>3. ts \in Sequences(Keys[keyType] \cup {none})
    BY <1>1, <1>3, <2>1, <2>2 DEF Sequences
  <2> QED BY <1>2, <2>3, NoneAssumption
<1>5. DOMAIN m = KeysCoded(keyType, DOMAIN f)
  BY <1>2 DEF Typed
<1>6. \A kb \in DOMAIN f, x \in EncodedKeys(keyType) :
        /\ Less(kb, x) <=> Before(keyType, KeyOf(keyType, kb), KeyOf(keyType, x))
        /\ x # nil /\ BoundKey(keyType, x) = KeyOf(keyType, x) /\ BoundKey(keyType, x) # none
  BY <1>2, Recoded, BoundShown, CodedInOrder DEF Code
<1>7. \A kb \in DOMAIN f :
        InRange(kb, sequence.start, sequence.end)
          <=> TM!Inside(KeyOf(keyType, kb), ts.start, ts.end)
  <2>1. ts.start = BoundKey(keyType, sequence.start) /\ ts.end = BoundKey(keyType, sequence.end)
    BY <1>3
  <2>2. BoundKey(keyType, nil) = none
    BY <1>2, BoundShown
  <2>3. /\ sequence.start \in EncodedKeys(keyType) \cup {nil}
        /\ sequence.end \in EncodedKeys(keyType) \cup {nil}
    BY <1>1 DEF Sequences
  <2> HIDE DEF ts, h, f
  <2> QED BY <1>6, <2>1, <2>2, <2>3 DEF InRange, TM!Inside, TM!Unbounded
<1>8. D = KeysCoded(keyType, C)
  BY <1>5, <1>7 DEF KeysCoded
<1>9. C \in SUBSET DOMAIN f
  OBVIOUS
<1>10. answer' = <<"loop", n, [i \in 1 .. q |-> entry(code(i))]>> /\ UNCHANGED <<objects, sequence>>
  <2>1. CASE sequence.dir = "up"
    BY <1>2, <2>1 DEF Loop, FirstCode, Preceding
  <2>2. CASE sequence.dir # "up"
    BY <1>2, <2>2 DEF Loop, LastCode, Following
  <2> QED BY <2>1, <2>2
<1>11. TypedMaps' = TypedMaps /\ TypedSequence' = TypedSequence
  BY <1>10, ContentsKept
<1>12. m = TypedMaps[ts.map] /\ sequence.dir = ts.dir
  BY <1>3
<1> HIDE DEF h, f, m, C, D, c, ts, entry
<1>13. /\ c \in Nat
       /\ all = [i \in 1 .. c |-> entry(FirstCode(C, i))]
       /\ all \in Seq(Keys[keyType] \X Values)
       /\ TM!Reverse(all) = [i \in 1 .. c |-> entry(LastCode(C, i))]
       /\ TM!Reverse(all) \in Seq(Keys[keyType] \X Values)
  BY <1>2, <1>8, <1>9, Listings DEF c, entry
<1> HIDE DEF all
<1>14. due \in Seq(Keys[keyType] \X Values) /\ due = [i \in 1 .. c |-> entry(code(i))]
  BY <1>13
<1> HIDE DEF due, code
<1>15. n \in Nat /\ q \in 0 .. c /\ Len(due) = c
  <2>1. n \in Nat
    BY <1>13
  <2> QED BY <1>13, <1>14, <2>1
<1>16. SubSeq(due, 1, q) = [i \in 1 .. q |-> entry(code(i))]
  <2>1. SubSeq(due, 1, q) = [i \in 1 .. q |-> due[i]]
    BY <1>14, <1>15, Beginning
  <2>2. \A i \in 1 .. q : due[i] = entry(code(i))
    BY <1>13, <1>14, <1>15
  <2> QED BY <2>1, <2>2
<1>17. answer' = <<"loop", n, SubSeq(due, 1, IF n < Len(due) THEN n ELSE Len(due))>>
  BY <1>10, <1>15, <1>16
<1>18. answer'[1] = "loop"
  BY <1>17
<1>19. TM!TMLoop(n)
  BY <1>4, <1>11, <1>12, <1>17, <1>18 DEF TM!TMLoop, TypedMaps, due, all, D, ts
<1>20. TM!Cardinality(Keys[keyType]) = Cardinality(Keys[keyType])
  BY DEF TM!Cardinality, Cardinality
<1> QED BY <1>19, <1>20 DEF TM!TMNext

\* The caller drops its sequence.
LEMMA ForgetShown ==
  ASSUME Inv, Forget, UNCHANGED keyType
  PROVE  TM!TMNext
<1>1. TypedMaps' = TypedMaps
  BY ContentsKept DEF Forget
<1>2. TypedSequence' = none
  BY DEF Forget, TypedSequence
<1>3. TM!TMForget
  BY <1>1, <1>2 DEF Forget, TM!TMForget, TypedMaps
<1> QED BY <1>3 DEF TM!TMNext

\* The initial states are initial states of TypedMap.
LEMMA InitShown == Init => TM!TMInit
<1> SUFFICES ASSUME Init PROVE TM!TMInit
  OBVIOUS
<1>1. Inv /\ \A h \in Handles : ~ Constructed(h)
  BY InvInit DEF Init, Constructed, Tree, Zero
<1>2. \A h \in Handles : TypedContents(h) = none
  BY <1>1 DEF TypedContents
<1> QED BY <1>2 DEF Init, TypedSequence, TM!TMInit

\* Every step is a step of TypedMap, or a stutter.
LEMMA NextShown ==
  ASSUME Inv, Inv', ToldApart, [Next]_vars
  PROVE  [TM!TMNext]_(TM!tmVars)
<1>1. CASE UNCHANGED vars
  <2>1. TypedMaps' = TypedMaps /\ TypedSequence' = TypedSequence
    BY <1>1, ContentsKept DEF vars
  <2> QED BY <1>1, <2>1 DEF vars, TM!tmVars, TypedMaps
<1>2. ASSUME NEW h \in Handles, Write(h), UNCHANGED keyType PROVE TM!TMNext
  BY <1>2, WriteShown
<1>3. ASSUME NEW h \in Handles, UNCHANGED keyType,
             New(h) \/ RequireConstructed(h) \/ Read(h) \/ Iterate(h)
      PROVE  TM!TMNext
  BY <1>3, NewShown, PanicShown, ReadShown, IterateShown
<1>4. ASSUME NEW h \in Handles, NEW copy \in Handles, Constructed(h), Clone(h, copy),
             UNCHANGED keyType
      PROVE  TM!TMNext
  BY <1>4, CloneShown
<1>5. CASE Forget /\ UNCHANGED keyType
  BY <1>5, ForgetShown
<1>6. ASSUME sequence # none, NEW n \in 1 .. Cardinality(Keys[keyType]), Loop(n), UNCHANGED keyType
      PROVE  TM!TMNext
  BY <1>6, LoopShown
<1> QED BY <1>1, <1>2, <1>3, <1>4, <1>5, <1>6 DEF Next

(***************************************************************************)
(* Typed callers see a map sorted by cmp.Compare, whatever the type of its *)
(* keys: every call of Ordered, every loop over a sequence it returned     *)
(* (after further writes, too) and every clone does what TypedMap allows,  *)
(* if the keys are told apart by cmp.Compare.                              *)
(***************************************************************************)
THEOREM OrderedMapImplementsTypedMap ==
  ASSUME ToldApart
  PROVE  Spec => ImplementsTypedMap
<1>1. Inv /\ Inv' /\ [Next]_vars => [TM!TMNext]_(TM!tmVars)
  BY NextShown
<1> QED BY <1>1, InvHolds, InitShown, PTL DEF Spec, ImplementsTypedMap, TM!TMSpec
=============================================================================
