------------------------------ MODULE TypedMap ------------------------------
(***************************************************************************)
(* What artmap.Ordered promises (CONTRACT.md, artmap): maps from the keys  *)
(* of one Go type to values, in the order of cmp.Compare, and sequences    *)
(* that fix their bounds when they are obtained and read the map each time *)
(* they are looped over.                                                   *)
(***************************************************************************)
EXTENDS FiniteMaps, SequencesExt

CONSTANTS
  Handles,            \* the caller's variables of type Ordered
  Keys,               \* the keys of each type
  Values, none,
  Precedes(_, _, _)   \* type, key, key: cmp.Compare < 0

VARIABLES
  keyType,    \* K
  typed,     \* handle |-> none (a zero value) or key |-> value
  sequence,  \* the iter.Seq2 the caller has obtained last
  answer     \* what the last call returned

tmVars == <<keyType, typed, sequence, answer>>

Unbounded(typedBound) == typedBound = none

Inside(key, start, end) ==
  /\ Unbounded(start) \/ ~ Precedes(keyType, key, start)
  /\ Unbounded(end) \/ Precedes(keyType, key, end)

\* The i-th of the keys ks, and the entries of ks, ascending.
Nth(ks, i) ==
  CHOOSE k \in ks : Cardinality({j \in ks : Precedes(keyType, j, k)}) = i - 1

Listing(m, ks) == [i \in 1 .. Cardinality(ks) |-> <<Nth(ks, i), m[Nth(ks, i)]>>]

FirstOf(s) == IF s = <<>> THEN none ELSE s[1]

TMInit ==
  /\ typed = [h \in Handles |-> none]
  /\ sequence = none
  /\ answer = <<"none">>

TMNew(h) ==
  /\ answer' = <<"New", h>>
  /\ typed[h] = none
  /\ typed' = [typed EXCEPT ![h] = Empty]
  /\ UNCHANGED sequence

TMPanic(h) ==
  /\ answer' = <<"panic", h>>
  /\ typed[h] = none
  /\ UNCHANGED <<typed, sequence>>

TMPut(h, k, v) ==
  /\ answer' = <<"Put", h, k, v>>
  /\ typed[h] # none
  /\ typed' = [typed EXCEPT ![h] = With(@, k, v)]
  /\ UNCHANGED sequence

TMDelete(h, k) ==
  /\ typed[h] # none
  /\ answer' = <<"Delete", h, k, k \in DOMAIN typed[h]>>
  /\ typed' = [typed EXCEPT ![h] = Without(@, k)]
  /\ UNCHANGED sequence

Queries == {"Get", "Len", "Min", "Max", "Ceiling", "Floor"}

Result(query, m, k) ==
  CASE query = "Get" -> IF k \in DOMAIN m THEN m[k] ELSE none
    [] query = "Len" -> Count(m)
    [] query = "Min" -> FirstOf(Listing(m, DOMAIN m))
    [] query = "Max" -> FirstOf(Reverse(Listing(m, DOMAIN m)))
    [] query = "Ceiling" ->
         FirstOf(Listing(m, {j \in DOMAIN m : ~ Precedes(keyType, j, k)}))
    [] query = "Floor" ->
         FirstOf(Reverse(Listing(m, {j \in DOMAIN m : ~ Precedes(keyType, k, j)})))

TMQuery(query, h, k) ==
  /\ answer'[1] = query
  /\ typed[h] # none
  /\ answer' = <<query, h, k, Result(query, typed[h], k)>>
  /\ UNCHANGED <<typed, sequence>>

TMClone(h, copy) ==
  /\ answer' = <<"Clone", h, copy>>
  /\ typed[h] # none /\ typed[copy] = none
  /\ typed' = [typed EXCEPT ![copy] = typed[h]]
  /\ UNCHANGED sequence

TMObtain(call, h, dir, start, end) ==
  /\ sequence' = [map |-> h, dir |-> dir, start |-> start, end |-> end]
  /\ answer' = call \o <<"iterator">>

TMBetween(call, h, dir, start, end) ==
  IF Precedes(keyType, end, start)
  THEN answer' = call \o <<"panic">> /\ UNCHANGED sequence
  ELSE TMObtain(call, h, dir, start, end)

TMIterate(h) ==
  /\ typed[h] # none
  /\ UNCHANGED typed
  /\ \/ TMObtain(<<"All", h>>, h, "up", none, none)
     \/ TMObtain(<<"AllDescending", h>>, h, "down", none, none)
     \/ \E k \in Keys[keyType] :
          \/ TMObtain(<<"RangeFrom", h, k>>, h, "up", k, none)
          \/ TMObtain(<<"RangeTo", h, k>>, h, "up", none, k)
     \/ \E start, end \in Keys[keyType] :
          \/ TMBetween(<<"Range", h, start, end>>, h, "up", start, end)
          \/ TMBetween(<<"RangeDescending", h, start, end>>, h, "down", start, end)

\* A loop over the sequence whose body breaks at the n-th entry, if any.
TMLoop(n) ==
  /\ answer'[1] = "loop"
  /\ sequence # none
  /\ LET m   == typed[sequence.map]
         all == Listing(m, {k \in DOMAIN m :
                              Inside(k, sequence.start, sequence.end)})
         due == IF sequence.dir = "up" THEN all ELSE Reverse(all)
     IN  answer' = <<"loop", n, SubSeq(due, 1, IF n < Len(due) THEN n ELSE Len(due))>>
  /\ UNCHANGED <<typed, sequence>>

TMForget ==
  /\ answer' = <<"none">>
  /\ sequence' = none
  /\ UNCHANGED typed

TMNext ==
  /\ \/ \E h \in Handles : TMNew(h) \/ TMPanic(h)
     \/ \E h \in Handles, k \in Keys[keyType] :
          \/ \E v \in Values : TMPut(h, k, v)
          \/ TMDelete(h, k)
     \/ \E h, copy \in Handles : TMClone(h, copy)
     \/ \E h \in Handles, query \in Queries, k \in Keys[keyType] \cup {none} :
          /\ query \in {"Len", "Min", "Max"} <=> k = none
          /\ TMQuery(query, h, k)
     \/ \E h \in Handles : TMIterate(h)
     \/ \E n \in 1 .. Cardinality(Keys[keyType]) : TMLoop(n)
     \/ TMForget
  /\ UNCHANGED keyType

TMSpec == TMInit /\ [][TMNext]_tmVars
=============================================================================
