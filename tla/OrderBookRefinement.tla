------------------------ MODULE OrderBookRefinement ------------------------
(***************************************************************************)
(* What OrderBook implements: the reference book of the differential       *)
(* tests, and on the other side the contract its pool asks of a client.    *)
(***************************************************************************)
EXTENDS OrderBook

(***************************************************************************)
(* While the chain path walks a level its slots are all still linked, and  *)
(* remaining still includes what they were told to trade: the makers       *)
(* before the cursor are filled, only not yet freed.                       *)
(***************************************************************************)
InChain == pc = "walk" /\ path = "chain"

QueueStart(side, tick) ==
  IF InChain /\ side = MakerSide /\ tick = best[side].idx THEN cursor
  ELSE levels[side][tick].head

QueueSlots(side, tick) == Walk(QueueStart(side, tick))

AbstractQueue ==
  [side \in Sides |-> [price \in MinPrice .. MaxPrice |->
     LET w == QueueSlots(side, price - MinPrice)
     IN  [k \in DOMAIN w |-> [id |-> slot[w[k]].id, quantity |-> slot[w[k]].quantity]]]]

AbstractOrderMap == {id \in 1 .. MaxOrderId : order_map[id] # INVALID_INDEX}

AbstractRemaining ==
  IF InChain THEN remaining - (BestLevel.total_quantity - QuantityOf(Walk(cursor)))
  ELSE remaining

AbstractPc ==
  IF OnTrade THEN "trade"
  ELSE IF pc \in {"idle", "done"} THEN pc
  ELSE "match"

Reference == INSTANCE StdOrderBook WITH
  queue <- AbstractQueue,
  order_map <- AbstractOrderMap,
  live_count <- Cardinality(AbstractOrderMap),
  pc <- AbstractPc,
  remaining <- AbstractRemaining

(***************************************************************************)
(* The engine implements the reference book: the same verdicts, the same   *)
(* fills of the same makers in the same price-time order, the same filled  *)
(* quantities and the same resting orders, whatever the calls.             *)
(***************************************************************************)
ImplementsReference == Reference!Spec

(***************************************************************************)
(* Each trade reported to on_trade is the one the reference book reports   *)
(* in the same state.                                                      *)
(***************************************************************************)
TradesAgree == OnTrade => CurrentTrade = Reference!CurrentTrade

(***************************************************************************)
(* "It mirrors the engine's contract exactly [...] the same input          *)
(* validation as the engine (zero qty, id bounds, ...)"                    *)
(* (tests/StdOrderBook.h:24-28), for the ids a client may cancel.          *)
(***************************************************************************)
SameCancelVerdict ==
  pc = "idle" => \A id \in CancelIds : CancelVerdict(id) = Reference!CancelVerdict(id)

Pool == INSTANCE MemoryPool WITH
  link <- [i \in Slots |-> slot[i].next],
  live_count <- Cardinality(allocated),
  handler <- "none",
  fault <- "none",
  aborted <- FALSE

(***************************************************************************)
(* The book keeps the pool's contract ("index must have come from          *)
(* allocate()", "head/tail must delimit a live chain"): it frees only live *)
(* slots and live chains and never writes the link of a free slot.         *)
(***************************************************************************)
KeepsPoolContract == Pool!TrustedSpec
=============================================================================
