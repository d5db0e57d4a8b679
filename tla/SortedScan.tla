------------------------------ MODULE SortedScan ------------------------------
(***************************************************************************)
(* What All, Range and their descending and open-ended variants promise    *)
(* (CONTRACT.md): the keys of the half-open interval, each once, in order, *)
(* until they are used up or the loop body breaks out.  The tree does not  *)
(* change while it is ranged over.                                         *)
(***************************************************************************)
EXTENDS NodeKinds, ByteStrings

CONSTANTS Bounds, nil

VARIABLES
  stored,   \* the keys in the tree
  scan      \* the range loop: [phase, dir, start, end, given]

Resting == [phase |-> "idle", dir |-> "up", start |-> nil, end |-> nil,
            given |-> {}]

\* A nil bound is unbounded on its side.
Within(key, start, end) ==
  /\ start # nil => ~ Less(key, start)
  /\ end # nil => Less(key, end)

Reversed(start, end) == start # nil /\ end # nil /\ Less(end, start)

Rest == {k \in stored : Within(k, scan.start, scan.end)} \ scan.given

Comes(dir, k, j) == IF dir = "up" THEN Less(k, j) ELSE Less(j, k)

SSInit == scan = Resting

SSBegin(dir, start, end) ==
  /\ scan.phase = "idle"
  /\ scan' = [Resting EXCEPT
                !.phase = IF Reversed(start, end) THEN "panicked" ELSE "scanning",
                !.dir = dir, !.start = start, !.end = end]

\* The next key in order; the loop body goes on or breaks.
SSYield(k, goOn) ==
  /\ scan.phase = "scanning"
  /\ \A j \in Rest \ {k} : Comes(scan.dir, k, j)
  /\ scan' = [scan EXCEPT !.given = @ \cup {k},
                          !.phase = IF goOn THEN "scanning" ELSE "stopped"]

SSEnd ==
  /\ scan.phase \in {"panicked", "stopped"} \/ (scan.phase = "scanning" /\ Rest = {})
  /\ scan' = Resting

SSNext ==
  /\ \/ \E dir \in {"up", "down"}, start, end \in Bounds : SSBegin(dir, start, end)
     \/ \E k \in Rest, goOn \in BOOLEAN : SSYield(k, goOn)
     \/ SSEnd
  /\ UNCHANGED stored

SSSpec == SSInit /\ [][SSNext]_<<stored, scan>>
=============================================================================
