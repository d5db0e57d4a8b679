---------------------------- MODULE TutorialDiff ----------------------------
(***************************************************************************)
(* tutorial/01-test-harness/diff.go, run over the trees of chapters 2 to   *)
(* 9: the operations of a trace are applied to a candidate and to a        *)
(* reference map, and what they answer is compared.  Here all the chapters *)
(* are candidates of one trace, so their trees can be compared as well.    *)
(* Chapters 5 and 6 are one candidate: 6 moves the code of 5 into methods. *)
(***************************************************************************)
EXTENDS NodeKinds, ByteStrings

CONSTANTS
  Keys,    \* the trace's keys
  Puts,    \* the <<key, value>> pairs that it puts
  Bounds,  \* the bounds of its Range operations, nil among them
  Takes,   \* how many pairs a loop body may take before it breaks
  nil

ASSUME TraceAssumption ==
  /\ {put[1] : put \in Puts} \subseteq Keys
  /\ nil \in Bounds /\ nil \notin Keys
  /\ Takes \subseteq Nat \ {0}

Ch2 == INSTANCE Node256Only
Ch3 == INSTANCE LazyExpansion
Ch4 == INSTANCE PathCompression
Ch5 == INSTANCE LadderTree WITH Ladder <- <<"node4", "node256">>
Ch7 == INSTANCE LadderTree WITH Ladder <- <<"node4", "node16", "node256">>
Ch8 == INSTANCE LadderTree WITH Ladder <- <<"node4", "node16", "node48", "node256">>
Ch9 == INSTANCE Polish     WITH Ladder <- <<"node4", "node16", "node48", "node256">>
LOCAL Seqs == INSTANCE SequencesExt
LOCAL Shape == INSTANCE TreeShape

Ladders   == {"ch5", "ch7", "ch8", "ch9"}
Prefixed  == {"ch4"} \cup Ladders
Chapters  == {"ch2", "ch3"} \cup Prefixed

VARIABLES
  trees,      \* each chapter's tree
  reference,  \* the BTreeAdapter: its tree's contents, and n
  running,    \* the chapters whose run has not ended
  reports     \* what Errorf was called with

vars == <<trees, reference, running, reports>>
-----------------------------------------------------------------------------
PutIn(c, t, key, val) ==
  CASE c = "ch2" -> Ch2!Put(t, key, val)
    [] c = "ch3" -> Ch3!Put(t, key, val)
    [] c = "ch4" -> Ch4!Put(t, key, val)
    [] c = "ch5" -> Ch5!Put(t, key, val)
    [] c = "ch7" -> Ch7!Put(t, key, val)
    [] c = "ch8" -> Ch8!Put(t, key, val)
    [] c = "ch9" -> Ch9!Put(t, key, val)

GetIn(c, t, key) ==
  CASE c = "ch2" -> Ch2!Get(t, key)
    [] c = "ch3" -> Ch3!Get(t, key)
    [] c = "ch4" -> Ch4!Get(t, key)
    [] c = "ch5" -> Ch5!Get(t, key)
    [] c = "ch7" -> Ch7!Get(t, key)
    [] c = "ch8" -> Ch8!Get(t, key)
    [] c = "ch9" -> Ch9!Get(t, key)

DeleteIn(c, t, key) ==
  CASE c = "ch2" -> Ch2!Delete(t, key)
    [] c = "ch3" -> Ch3!Delete(t, key)
    [] c = "ch4" -> Ch4!Delete(t, key)
    [] c = "ch5" -> Ch5!Delete(t, key)
    [] c = "ch7" -> Ch7!Delete(t, key)
    [] c = "ch8" -> Ch8!Delete(t, key)
    [] c = "ch9" -> Ch9!Delete(t, key)

RangeIn(c, t, from, to, take) ==
  CASE c = "ch2" -> Ch2!Range(t, from, to, take)
    [] c = "ch3" -> Ch3!Range(t, from, to, take)
    [] c = "ch4" -> Ch4!Range(t, from, to, take)
    [] c = "ch5" -> Ch5!Range(t, from, to, take)
    [] c = "ch7" -> Ch7!Range(t, from, to, take)
    [] c = "ch8" -> Ch8!Range(t, from, to, take)
    [] c = "ch9" -> Ch9!PrunedRange(t, from, to, take)
-----------------------------------------------------------------------------
(* The reference, external: google/btree behind BTreeAdapter. *)

Contents == reference.contents

ReferencePut(key, val) ==
  [contents |-> With(Contents, key, val),
   n |-> reference.n + IF key \in DOMAIN Contents THEN 0 ELSE 1]

ReferenceGet(key) ==
  IF key \in DOMAIN Contents THEN Ch2!Answer(TRUE, Contents[key]) ELSE Ch2!Missing

ReferenceDelete(key) ==
  [contents |-> Without(Contents, key),
   n |-> reference.n - IF key \in DOMAIN Contents THEN 1 ELSE 0]

ReferenceRange(from, to) ==
  LET within == {k \in DOMAIN Contents :
                   (from = nil \/ ~ Less(k, from)) /\ (to = nil \/ Less(k, to))}
      Ith(i) == CHOOSE k \in within : Cardinality({j \in within : Less(j, k)}) = i - 1
  IN  [i \in 1 .. Cardinality(within) |-> <<Ith(i), Contents[Ith(i)]>>]
-----------------------------------------------------------------------------
Init ==
  /\ trees = [c \in Chapters |-> Ch2!NewTree]
  /\ reference = [contents |-> Empty, n |-> 0]
  /\ running = Chapters
  /\ reports = {}

\* One operation: the chapters in wrong answered wrongly.  A run reports it and
\* goes on, but ends at the first difference in Len.
Compared(op, wrong) ==
  LET unequal == {c \in running : trees'[c].size # reference'.n}
  IN  /\ reports' = reports \cup {<<c, op>> : c \in wrong} \cup {<<c, "Len">> : c \in unequal}
      /\ running' = running \ unequal

PutStep(key, val) ==
  /\ running # {}
  /\ trees' = [c \in Chapters |->
                 IF c \in running THEN PutIn(c, trees[c], key, val) ELSE trees[c]]
  /\ reference' = ReferencePut(key, val)
  /\ Compared("Put", {})

GetStep(key) ==
  /\ running # {}
  /\ UNCHANGED <<trees, reference>>
  /\ Compared("Get", {c \in running : GetIn(c, trees[c], key) # ReferenceGet(key)})

DeleteStep(key) ==
  LET del == [c \in running |-> DeleteIn(c, trees[c], key)] IN
  /\ running # {}
  /\ trees' = [c \in Chapters |-> IF c \in running THEN del[c].tree ELSE trees[c]]
  /\ reference' = ReferenceDelete(key)
  /\ Compared("Delete", {c \in running : del[c].deleted # (key \in DOMAIN Contents)})

\* The chapters whose loop over [from, to) does not give its body the first take
\* pairs of the reference's, or calls it again after it broke.
Differ(from, to, take) ==
  LET pairs == ReferenceRange(from, to)
  IN  {c \in running :
         LET loop == RangeIn(c, trees[c], from, to, take)
         IN  loop.out # SubSeq(pairs, 1, IF take < Len(pairs) THEN take ELSE Len(pairs))
             \/ loop.late}

Everything == Cardinality(Keys) + 1

\* collect takes everything; other callers of Range break.
RangeStep(from, to, take) ==
  /\ running # {}
  /\ UNCHANGED <<trees, reference>>
  /\ Compared("Range", Differ(from, to, take))

\* The end of the trace.
FinalRange ==
  /\ running # {}
  /\ reports' = reports \cup {<<c, "final Range">> : c \in Differ(nil, nil, Everything)}
  /\ running' = {}
  /\ UNCHANGED <<trees, reference>>

Next ==
  \/ \E put \in Puts : PutStep(put[1], put[2])
  \/ \E key \in Keys : GetStep(key) \/ DeleteStep(key)
  \/ \E from, to \in Bounds, take \in Takes \cup {Everything} : RangeStep(from, to, take)
  \/ FinalRange

Spec == Init /\ [][Next]_vars
-----------------------------------------------------------------------------
(***************************************************************************)
(* No run of runDiff reports a difference: every Get, Delete, Len and      *)
(* Range of every chapter answers as the reference does, however its tree  *)
(* came about, and no loop body is called again after it broke.            *)
(***************************************************************************)
NothingReported == reports = {} /\ (running = Chapters \/ running = {})

\* The paths of a chapter's inner nodes (in chapter 2, of all its nodes).
RECURSIVE Paths(_, _)
Paths(n, path) ==
  IF n.kind \in {"nil", "leaf"} THEN {}
  ELSE LET at == path \o IF n.kind = "node" \/ "prefix" \notin DOMAIN n THEN <<>> ELSE n.prefix
           kids == IF n.kind \in {"node", "node256"}
                   THEN {<<b, n.children[b]>> : b \in Byte}
                   ELSE LET items == Ch8!EachAscending(n) IN {items[i] : i \in DOMAIN items}
       IN  {at} \cup UNION {Paths(kid[2], Append(at, kid[1])) : kid \in kids}

Root(c) == trees[c].root
PathsIn(c) == Paths(Root(c), <<>>)
InnerPaths == Shape!InnerPaths(DOMAIN Contents)

(***************************************************************************)
(* From chapter to chapter nodes only disappear.  Chapter 2 has a node for *)
(* each prefix of a key; chapter 3 has some of them, because its deletes   *)
(* leave chains behind; from chapter 4 on exactly the forks remain,        *)
(* whatever was deleted.                                                   *)
(***************************************************************************)
OnlyForksRemain ==
  /\ PathsIn("ch2") = UNION {{Upto(k, i) : i \in 0 .. Len(k)} : k \in DOMAIN Contents}
  /\ InnerPaths \subseteq PathsIn("ch3") /\ PathsIn("ch3") \subseteq PathsIn("ch2")
  /\ \A c \in Prefixed : PathsIn(c) = InnerPaths

(***************************************************************************)
(* The arrays of every node of chapters 5 to 8 are laid out as its type    *)
(* demands after every add, removal, growth and shrink, and in chapter 8   *)
(* the type is the one that the number of children calls for.  Chapter 9,  *)
(* which changes Range only, builds chapter 8's tree.                      *)
(***************************************************************************)
ArraysLaidOut ==
  /\ \A n \in Ch5!InnerNodes(Root("ch5")) : Ch5!WellLaidOut(n)
  /\ \A n \in Ch7!InnerNodes(Root("ch7")) : Ch7!WellLaidOut(n)
  /\ \A n \in Ch8!InnerNodes(Root("ch8")) : Ch8!WellLaidOut(n) /\ KindFits(n.kind, n.numChildren)
  /\ Root("ch9") = Root("ch8")

(***************************************************************************)
(* What the chapters' footprint tables print: leaves are counted once      *)
(* each, the counts by type add up to the number of forks, and chapters 4  *)
(* and 8 keep the same prefix bytes, those between each fork and the one   *)
(* above it.                                                               *)
(***************************************************************************)
Footprint ==
  LET keys == DOMAIN Contents
      forks == InnerPaths
  IN  /\ Ch3!CountLeaves(Root("ch3")) = Count(Contents)
      /\ Ch4!CountLeaves(Root("ch4")) = Count(Contents)
      /\ Ch8!CountLeaves(Root("ch8")) = Count(Contents)
      /\ Ch2!CountNodes(Root("ch2")) >= Ch3!CountInner(Root("ch3"))
      /\ Ch4!CountInner(Root("ch4")) = Cardinality(forks)
      /\ \A kind \in InnerKinds :
           Ch8!CountByKind(Root("ch8"), kind)
             = Cardinality({p \in forks : KindFits(kind, Cardinality(Shape!Nexts(keys, p)))})
      /\ Ch4!PrefixBytes(Root("ch4")) = Ch8!PrefixBytes(Root("ch8"))
      /\ Ch4!PrefixBytes(Root("ch4"))
           = Seqs!FoldSet(LAMBDA p, sum : sum + Len(Shape!PrefixAt(keys, p)), 0, forks)
=============================================================================
