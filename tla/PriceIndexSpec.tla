--------------------------- MODULE PriceIndexSpec ---------------------------
(***************************************************************************)
(* One side's price index on its own: levels fill and empty in any order,  *)
(* and the scans are compared with their definition from every tick.       *)
(***************************************************************************)
EXTENDS PriceIndex

VARIABLE ix

Init == ix = EmptyIndex

Next ==
  \/ \E i \in Ticks \ SetTicks(ix) : ix' = SetBit(ix, i)
  \/ \E i \in SetTicks(ix) : ix' = ClearBit(ix, i)

Spec == Init /\ [][Next]_ix

(***************************************************************************)
(* The summary never disagrees with the words it summarises, whatever      *)
(* levels fill and empty (validate_book, check 5b).                        *)
(***************************************************************************)
SummaryExact == SummaryMatches(ix)

(***************************************************************************)
(* From every tick the upward scan finds the lowest occupied tick at or    *)
(* above it, across word and summary-word boundaries.                      *)
(***************************************************************************)
ScanUpExact == \A i \in Ticks : ScanUp(ix, i) = FirstFrom(SetTicks(ix), i)

(***************************************************************************)
(* From every tick the downward scan finds the highest occupied tick       *)
(* strictly below it.                                                      *)
(***************************************************************************)
ScanDownExact == \A i \in Ticks : ScanDown(ix, i) = LastBelow(SetTicks(ix), i)
=============================================================================
