-------------------------- MODULE OrderBookJournal --------------------------
(***************************************************************************)
(* What OrderBook records in its journal: the HFT_JOURNAL calls of         *)
(* src/OrderBook.h beside the steps that make them, and a reader who       *)
(* follows the entries.  Instead of the whole log the model keeps what the *)
(* reader has made of it: the queues it believes in and the best prices it *)
(* was told last.                                                          *)
(***************************************************************************)
EXTENDS OrderBookRefinement, SequencesExt

CONSTANT Followed   \* the events the reader pays attention to

VARIABLES
  replayed,       \* the resting orders by side and price, from the entries alone
  announced       \* the price of the last BestBidChanged / BestAskChanged, by side

readerVars == <<replayed, announced>>

Entry(event, id, price, quantity, side) ==
  [event |-> event, id |-> id, price |-> price, quantity |-> quantity, side |-> side]

(***************************************************************************)
(* The reader.  An entry names one order: the taker of a trade, whose      *)
(* maker can only be the first in the queue, the maker that was filled, or *)
(* the order that was cancelled or has rested.                             *)
(***************************************************************************)
Without(queue, id) ==
  LET places == {k \in DOMAIN queue : queue[k].id = id}
  IN  IF places = {} THEN queue ELSE RemoveAt(queue, CHOOSE k \in places : TRUE)

ReadQueue(queues, e) ==
  LET side == IF e.event = "TradeExecuted" THEN Opposite(e.side) ELSE e.side
      queue == queues[side][e.price]
      after == CASE e.event = "OrderRested" ->
                      Append(queue, [id |-> e.id, quantity |-> e.quantity])
                 [] e.event = "TradeExecuted" /\ queue # <<>> ->
                      [queue EXCEPT ![1].quantity = @ - e.quantity]
                 [] e.event \in {"MakerFilled", "OrderCancelled"} -> Without(queue, e.id)
                 [] OTHER -> queue
  IN  IF e.event \in Followed /\ e.side \in Sides /\ e.price \in MinPrice .. MaxPrice
      THEN [queues EXCEPT ![side][e.price] = after]
      ELSE queues

ReadBest(prices, e) ==
  CASE e.event \notin Followed -> prices
    [] e.event = "BestBidChanged" -> [prices EXCEPT !["Buy"] = e.price]
    [] e.event = "BestAskChanged" -> [prices EXCEPT !["Sell"] = e.price]
    [] OTHER -> prices

\* No step records more than two entries.
ReadAll(read(_, _), known, new) ==
  CASE Len(new) = 0 -> known
    [] Len(new) = 1 -> read(known, new[1])
    [] Len(new) = 2 -> read(read(known, new[1]), new[2])

Records(new) ==
  /\ replayed' = ReadAll(ReadQueue, replayed, new)
  /\ announced' = ReadAll(ReadBest, announced, new)

-----------------------------------------------------------------------------
(***************************************************************************)
(* cancel_order_impl announces the order before it validates the id, and   *)
(* keeps the side of an order it is about to free for the last entry.      *)
(***************************************************************************)
RejectCancelRecords(id) == <<Entry("OrderSubmitted", id, 0, 0, "Buy"),
                             Entry("OrderRejected", id, 0, 0, "Buy")>>

\* Mutant of CancelRecords: the side is read from the freed slot.
CancelRecordsPoison(id) ==
  LET order == slot[order_map[id]]
  IN  <<Entry("OrderSubmitted", id, 0, 0, "Buy"),
        Entry("OrderCancelled", id, order.price, 0, FreedSlot(free_head).side)>>

CancelRecords(id) ==
  LET order == slot[order_map[id]]
  IN  <<Entry("OrderSubmitted", id, 0, 0, "Buy"),
        Entry("OrderCancelled", id, order.price, 0, order.side)>>

(***************************************************************************)
(* add_order announces an order only once it is valid.                     *)
(***************************************************************************)
RejectAddRecords(id, type, price, quantity, side) ==
  LET empty == AddVerdict(id, type, price, quantity, side) = "MarketOnEmptyBook"
  IN  <<Entry("OrderRejected", id, IF empty THEN 0 ELSE price, quantity, side)>>

AcceptRecords(id, price, quantity, side) == <<Entry("OrderSubmitted", id, price, quantity, side)>>

(***************************************************************************)
(* A fill: the trade, and the maker when nothing of it is left.            *)
(***************************************************************************)
TradeRecord ==
  Entry("TradeExecuted", taker.id, CurrentTrade.price, CurrentTrade.quantity, taker.side)

\* Mutant of FillRecords: a maker that is drained inside a level is not named.
FillRecordsTradeOnly == <<TradeRecord>>

FillRecords ==
  IF CurrentTrade.quantity = slot[cursor].quantity
  THEN <<TradeRecord, Entry("MakerFilled", slot[cursor].id, slot[cursor].price, 0, MakerSide)>>
  ELSE <<TradeRecord>>

BestRecord(side, price) ==
  Entry(IF side = "Buy" THEN "BestBidChanged" ELSE "BestAskChanged", 0, price, 0, side)

(***************************************************************************)
(* After a level is emptied the new best price is recorded when the index  *)
(* is scanned for it, and not when the adjacent level is taken.            *)
(***************************************************************************)
TakesAdjacent(side, tick) ==
  IF side = "Sell" THEN MinPrice + tick + 1 <= MaxPrice /\ ~IsEmpty(levels[side][tick + 1])
  ELSE MinPrice + tick > MinPrice /\ ~IsEmpty(levels[side][tick - 1])

LevelRecords ==
  LET side == MakerSide
      tick == best[side].price - MinPrice
  IN  IF IsEmpty(BestLevel) /\ ~TakesAdjacent(side, tick)
      THEN <<BestRecord(side, best'[side].price)>>
      ELSE <<>>

ExhaustedRecords ==
  <<Entry("PoolExhausted", taker.id, taker.price, remaining, taker.side)>>

RestRecords ==
  (IF Improves(taker.side, taker.price) THEN <<BestRecord(taker.side, taker.price)>> ELSE <<>>)
  \o <<Entry("OrderRested", taker.id, taker.price, remaining, taker.side)>>

-----------------------------------------------------------------------------
RecordedInit ==
  /\ Init
  /\ replayed = [side \in Sides |-> [price \in MinPrice .. MaxPrice |-> <<>>]]
  /\ announced = [side \in Sides |-> EmptyBest(side).price]

RecordedCalls ==
  \/ \E id \in CancelIds :
       \/ CancelOrder(id) /\ Records(CancelRecords(id))
       \/ RejectCancel(id) /\ Records(RejectCancelRecords(id))
  \/ \E id \in AddIds, type \in {"Limit", "Market"}, price \in OrderPrices,
        quantity \in Quantities, side \in Sides :
       \/ /\ AcceptAdd(id, type, price, quantity, side)
          /\ Records(AcceptRecords(id, price, quantity, side))
       \/ /\ RejectAdd(id, type, price, quantity, side)
          /\ Records(RejectAddRecords(id, type, price, quantity, side))

RecordedEngine ==
  \/ (FillSingle \/ FillChain \/ FillSlowDrain \/ FillSlowPartial) /\ Records(FillRecords)
  \/ LevelDone /\ Records(LevelRecords)
  \/ AddExhausted /\ Records(ExhaustedRecords)
  \/ AddRested /\ Records(RestRecords)
  \/ (EnterLevel \/ ChainDone \/ SlowDone \/ AddFilled) /\ UNCHANGED readerVars

RecordedNext ==
  \/ RecordedCalls
  \/ RecordedEngine
  \/ ClientResumes /\ UNCHANGED readerVars

RecordedVars == <<vars, readerVars>>
RecordedSpec == RecordedInit /\ [][RecordedNext]_RecordedVars
RecordedFairSpec == RecordedSpec /\ Fairness

(***************************************************************************)
(* The journal tells the whole story of the resting orders: a reader who   *)
(* sees nothing but the entries knows every queue of the book, each order  *)
(* with its remaining quantity in its place, even inside on_trade.  Trades *)
(* do not name their maker, and the three fill loops and the cancel record *)
(* at different moments of their work.                                     *)
(***************************************************************************)
JournalReplays == replayed = AbstractQueue

(***************************************************************************)
(* "BestBidChanged, ///< best bid transition (price = new best)." and its  *)
(* ask twin (src/Journal.h:38-39), recorded "at every order state          *)
(* transition inside OrderBook" (src/Journal.h:9-10): between calls the    *)
(* last one recorded is the book's best price.                             *)
(***************************************************************************)
BestAnnounced ==
  pc \in {"idle", "done"} => \A side \in Sides : announced[side] = best[side].price
=============================================================================
