----------------------------- MODULE OrderedMap -----------------------------
(***************************************************************************)
(* artmap/ordered.go: Ordered, a map on typed keys over a tree of byte     *)
(* strings.  The tree is what its own models show it to be, a sorted map   *)
(* whose range loops yield the entries of an interval (SortedMap,          *)
(* SortedScan); the encoding is OrderedCodec's.                            *)
(*                                                                         *)
(* The caller has a few variables of type Ordered[K, V], all of one K.     *)
(* Each is zero-valued until New or Clone assigns it.                      *)
(***************************************************************************)
EXTENDS OrderedCodec, FiniteMaps

CONSTANTS
  Handles,   \* the caller's variables of type Ordered
  Keys,      \* the keys the caller uses, of each type
  Values,
  nil,       \* no tree, and no bound
  none       \* no answer

VARIABLES keyType, objects, sequence, answer

vars == <<keyType, objects, sequence, answer>>

EncodedKeys(type) == {Encode(PickKind(type), k) : k \in Keys[type]}

Sequences(bounds) ==
  [map : Handles, dir : {"up", "down"}, start : bounds, end : bounds]

\* The keys are of their types.
ASSUME KeysAssumption ==
  /\ DOMAIN Keys \subseteq KeyTypes
  /\ \A type \in DOMAIN Keys : Keys[type] \subseteq KeysOf(type)

\* nil and none are neither keys nor maps nor sequences.
ASSUME NoneAssumption ==
  \A type \in DOMAIN Keys :
    /\ nil \notin EncodedKeys(type) /\ none \notin Keys[type]
    /\ \A K \in SUBSET EncodedKeys(type) : nil \notin [K -> Values]
    /\ \A K \in SUBSET Keys[type] : none \notin [K -> Values]
    /\ none \notin Sequences(EncodedKeys(type) \cup {nil})
    /\ none \notin Sequences(Keys[type] \cup {none})

Zero == [tree |-> nil, kind |-> kindString]

Init ==
  /\ keyType \in DOMAIN Keys
  /\ objects = [h \in Handles |-> Zero]
  /\ sequence = none
  /\ answer = <<"none">>

Tree(h) == objects[h].tree
Constructed(h) == Tree(h) # nil
Enc(h, key) == Encode(objects[h].kind, key)
Dec(h, kb) == Decode(objects[h].kind, kb)

New(h) ==
  /\ ~ Constructed(h)
  /\ objects' = [objects EXCEPT ![h] = [tree |-> Empty, kind |-> PickKind(keyType)]]
  /\ answer' = <<"New", h>>
  /\ UNCHANGED sequence

\* Every method starts with requireConstructed, those that return iterators too.
RequireConstructed(h) ==
  /\ ~ Constructed(h)
  /\ answer' = <<"panic", h>>
  /\ UNCHANGED <<objects, sequence>>

Put(h, k) ==
  \E v \in Values :
    /\ objects' = [objects EXCEPT ![h].tree = With(@, Enc(h, k), v)]
    /\ answer' = <<"Put", h, k, v>>

Delete(h, k) ==
  /\ objects' = [objects EXCEPT ![h].tree = Without(@, Enc(h, k))]
  /\ answer' = <<"Delete", h, k, Enc(h, k) \in DOMAIN Tree(h)>>

Get(h, k) ==
  answer' = <<"Get", h, k,
    IF Enc(h, k) \in DOMAIN Tree(h) THEN Tree(h)[Enc(h, k)] ELSE none>>

\* What the tree returns of the byte strings kbs, the decoded least or greatest.
Least(h, kbs) ==
  IF kbs = {} THEN none
  ELSE LET kb == CHOOSE x \in kbs : \A y \in kbs \ {x} : Less(x, y)
       IN  <<Dec(h, kb), Tree(h)[kb]>>

Greatest(h, kbs) ==
  IF kbs = {} THEN none
  ELSE LET kb == CHOOSE x \in kbs : \A y \in kbs \ {x} : Less(y, x)
       IN  <<Dec(h, kb), Tree(h)[kb]>>

Length(h) == answer' = <<"Len", h, none, Count(Tree(h))>>
Min(h) == answer' = <<"Min", h, none, Least(h, DOMAIN Tree(h))>>
Max(h) == answer' = <<"Max", h, none, Greatest(h, DOMAIN Tree(h))>>

Ceiling(h, target) ==
  answer' = <<"Ceiling", h, target,
    Least(h, {kb \in DOMAIN Tree(h) : ~ Less(kb, Enc(h, target))})>>

Floor(h, target) ==
  answer' = <<"Floor", h, target,
    Greatest(h, {kb \in DOMAIN Tree(h) : ~ Less(Enc(h, target), kb)})>>

\* The copy has a tree of its own, with the kind and decoder of the original.
ClonedZeroKind(h) == [tree |-> Tree(h), kind |-> kindString]
Cloned(h) == [tree |-> Tree(h), kind |-> objects[h].kind]

Clone(h, copy) ==
  /\ ~ Constructed(copy)
  /\ objects' = [objects EXCEPT ![copy] = Cloned(h)]
  /\ answer' = <<"Clone", h, copy>>
  /\ UNCHANGED sequence
-----------------------------------------------------------------------------
(***************************************************************************)
(* Range loops.  A bound is encoded into a buffer of the call and copied   *)
(* with bytes.Clone before the call returns.                               *)
(***************************************************************************)
AppendedToNil(kb) == IF kb = <<>> THEN nil ELSE kb
BytesClone(kb) == kb

Bound(h, key) == BytesClone(Enc(h, key))

Obtain(call, h, dir, start, end) ==
  /\ sequence' = [map |-> h, dir |-> dir, start |-> start, end |-> end]
  /\ answer' = call \o <<"iterator">>

TreeRange(call, h, dir, start, end) ==
  IF start # nil /\ end # nil /\ Less(end, start)
  THEN answer' = call \o <<"panic">> /\ UNCHANGED sequence
  ELSE Obtain(call, h, dir, start, end)

All(h) == Obtain(<<"All", h>>, h, "up", nil, nil)
AllDescending(h) == Obtain(<<"AllDescending", h>>, h, "down", nil, nil)

RangeBetween(h, start, end) ==
  TreeRange(<<"Range", h, start, end>>, h, "up", Bound(h, start), Bound(h, end))

RangeFrom(h, start) ==
  Obtain(<<"RangeFrom", h, start>>, h, "up", Bound(h, start), nil)

RangeTo(h, end) ==
  Obtain(<<"RangeTo", h, end>>, h, "up", nil, Bound(h, end))

RangeDescending(h, start, end) ==
  TreeRange(<<"RangeDescending", h, start, end>>, h, "down",
            Bound(h, start), Bound(h, end))

InRange(kb, start, end) ==
  /\ start = nil \/ ~ Less(kb, start)
  /\ end = nil \/ Less(kb, end)

(***************************************************************************)
(* The caller loops over the sequence it obtained, perhaps after further   *)
(* writes, and breaks at the n-th entry if the loop comes that far.        *)
(***************************************************************************)
Loop(n) ==
  LET h   == sequence.map
      kbs == {kb \in DOMAIN Tree(h) : InRange(kb, sequence.start, sequence.end)}
      earlier(kb) == {x \in kbs : IF sequence.dir = "up" THEN Less(x, kb) ELSE Less(kb, x)}
      due(i) == CHOOSE kb \in kbs : Cardinality(earlier(kb)) = i - 1
  IN  /\ answer' = <<"loop", n,
           [i \in 1 .. (IF n < Cardinality(kbs) THEN n ELSE Cardinality(kbs)) |->
              <<Dec(h, due(i)), Tree(h)[due(i)]>>]>>
      /\ UNCHANGED <<objects, sequence>>

Forget ==
  /\ sequence' = none
  /\ answer' = <<"none">>
  /\ UNCHANGED objects

Write(h) ==
  /\ Constructed(h)
  /\ \E k \in Keys[keyType] : Put(h, k) \/ Delete(h, k)
  /\ UNCHANGED sequence

Read(h) ==
  /\ Constructed(h)
  /\ \/ Length(h) \/ Min(h) \/ Max(h)
     \/ \E k \in Keys[keyType] : Get(h, k) \/ Ceiling(h, k) \/ Floor(h, k)
  /\ UNCHANGED <<objects, sequence>>

Iterate(h) ==
  /\ Constructed(h)
  /\ \/ All(h) \/ AllDescending(h)
     \/ \E k \in Keys[keyType] : RangeFrom(h, k) \/ RangeTo(h, k)
     \/ \E start, end \in Keys[keyType] :
          RangeBetween(h, start, end) \/ RangeDescending(h, start, end)
  /\ UNCHANGED objects

(***************************************************************************)
(* The caller holds at most one sequence; while it does, it writes and     *)
(* loops (the other calls neither read nor change the sequence).           *)
(***************************************************************************)
Next ==
  /\ \/ \E h \in Handles : Write(h)
     \/ /\ sequence = none
        /\ \/ \E h \in Handles :
                New(h) \/ RequireConstructed(h) \/ Read(h) \/ Iterate(h)
           \/ \E h, copy \in Handles : Constructed(h) /\ Clone(h, copy)
     \/ /\ sequence # none
        /\ Forget \/ \E n \in 1 .. Cardinality(Keys[keyType]) : Loop(n)
  /\ UNCHANGED keyType

Spec == Init /\ [][Next]_vars
-----------------------------------------------------------------------------
\* A constructed map keeps the kind of its keys' type and stores its encodings.
TypeOK ==
  /\ keyType \in KeyTypes
  /\ \A h \in Handles :
       \/ objects[h] = Zero
       \/ /\ objects[h].kind = PickKind(keyType)
          /\ DOMAIN Tree(h) \subseteq {Enc(h, k) : k \in Keys[keyType]}
          /\ \A kb \in DOMAIN Tree(h) : Tree(h)[kb] \in Values
  /\ sequence = none \/ Constructed(sequence.map)

(***************************************************************************)
(* The encoding a constructed map uses sorts all keys of its type as       *)
(* cmp.Compare does, gives different keys, also different NaNs, different  *)
(* encodings, and puts -0.0 before +0.0 (OrderedKey's encoding rules).     *)
(***************************************************************************)
EncodingKeepsOrder == \A h \in Handles : Constructed(h) => keyType \in OrderKeeping

(***************************************************************************)
(* Every key of the type comes back bit by bit from its encoding, NaNs and *)
(* both zeros included: what a loop yields is what was stored.             *)
(***************************************************************************)
EncodingRoundTrips == \A h \in Handles : Constructed(h) => keyType \in RoundTripping

(***************************************************************************)
(* Typed callers see a map sorted by cmp.Compare: lookups, neighbours,     *)
(* loops whose bounds were fixed before further writes, clones on their    *)
(* own, reversed bounds and zero-valued receivers refused at the call.     *)
(***************************************************************************)
TypedBound(h, kb) == IF kb = nil THEN none ELSE Dec(h, kb)

TypedContents(h) ==
  IF ~ Constructed(h) THEN none
  ELSE [k \in {Dec(h, kb) : kb \in DOMAIN Tree(h)} |-> Tree(h)[Enc(h, k)]]

TypedSequence ==
  IF sequence = none THEN none
  ELSE [sequence EXCEPT !.start = TypedBound(sequence.map, @),
                        !.end = TypedBound(sequence.map, @)]

TM == INSTANCE TypedMap WITH
        typed <- [h \in Handles |-> TypedContents(h)],
        sequence <- TypedSequence,
        Precedes <- Before

ImplementsTypedMap == TM!TMSpec

\* cmp.Compare tells the keys apart: none is a NaN, and one at most a zero.
ToldApart ==
  \A type \in DOMAIN Keys : \A a \in Keys[type] :
    /\ ~ IsNaN(type, a)
    /\ \A b \in Keys[type] : IsZero(type, a) /\ IsZero(type, b) => a = b

(***************************************************************************)
(* artmap/ordered.go:21: cmp.Compare and bytes.Compare on the encodings    *)
(* agree in sign for any two values.  Asked of a stored key and any other  *)
(* number (the comment leaves the order of NaN open).                      *)
(***************************************************************************)
ComparisonsAgree ==
  \A h \in Handles : Constructed(h) =>
    \A kb \in DOMAIN Tree(h), k \in KeysOf(keyType) :
      ~ IsNaN(keyType, k) /\ ~ IsNaN(keyType, Dec(h, kb)) =>
        /\ Less(kb, Enc(h, k)) <=> Before(keyType, Dec(h, kb), k)
        /\ Less(Enc(h, k), kb) <=> Before(keyType, k, Dec(h, kb))
=============================================================================
