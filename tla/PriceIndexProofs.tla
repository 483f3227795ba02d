-------------------------- MODULE PriceIndexProofs --------------------------
(***************************************************************************)
(* The index of one side, through every sequence of levels that fill and   *)
(* empty.  The inductive invariant is Sound(ix) of PriceIndexLemmas.       *)
(***************************************************************************)
EXTENDS PriceIndexSpec, PriceIndexLemmas

(***************************************************************************)
(* For every price range and word size, and whatever levels fill and       *)
(* empty: the summary agrees with the words it summarises, and the ask and *)
(* bid scans of OrderBook.h find exactly the neighbouring occupied tick.   *)
(***************************************************************************)
THEOREM ScansExact == Spec => [](SummaryExact /\ ScanUpExact /\ ScanDownExact)
<1>1. Init => Sound(ix)
  BY EmptyIndexSound DEF Init
<1>2. Sound(ix) /\ [Next]_ix => Sound(ix)'
  <2>. SUFFICES ASSUME Sound(ix), [Next]_ix
                PROVE  Sound(ix')
    BY DEF Sound, SummaryMatches, NothingPastEnd
  <2>1. CASE \E i \in Ticks \ SetTicks(ix) : ix' = SetBit(ix, i)
    BY <2>1, SetBitSound
  <2>2. CASE \E i \in SetTicks(ix) : ix' = ClearBit(ix, i)
    BY <2>2, ClearBitSound DEF SetTicks
  <2>3. CASE UNCHANGED ix
    BY <2>3
  <2>. QED
    BY <2>1, <2>2, <2>3 DEF Next
<1>3. Sound(ix) => SummaryExact /\ ScanUpExact /\ ScanDownExact
  BY ScanUpFinds, ScanDownFinds DEF Sound, SummaryExact, ScanUpExact, ScanDownExact
<1>. QED
  BY <1>1, <1>2, <1>3, PTL DEF Spec

(***************************************************************************)
(* Its parts, one by one.  Setting and clearing a level's bit keeps the    *)
(* summary exact.                                                          *)
(***************************************************************************)
THEOREM SummaryStaysExact == Spec => []SummaryExact
<1>. QED
  BY ScansExact, PTL

(***************************************************************************)
(* The scan of update_best_ask_after_remove finds the lowest occupied tick *)
(* at or above the one it starts from, or none when there is none.         *)
(***************************************************************************)
THEOREM AskScanExact == Spec => []ScanUpExact
<1>. QED
  BY ScansExact, PTL

(***************************************************************************)
(* The scan of update_best_bid_after_remove finds the highest occupied     *)
(* tick below the one it starts from, or none when there is none.          *)
(***************************************************************************)
THEOREM BidScanExact == Spec => []ScanDownExact
<1>. QED
  BY ScansExact, PTL
=============================================================================
