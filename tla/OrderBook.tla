----------------------------- MODULE OrderBook -----------------------------
(***************************************************************************)
(* The limit order book of src/OrderBook.h and src/OrderBook.cpp, in its   *)
(* instrumented (Debug/Audit) flavour: price levels on both sides, the     *)
(* two-level price index, the cached best prices, the id map and the       *)
(* orders in the slots of the pool.                                        *)
(*                                                                         *)
(* add_order calls back its client, on_trade, once per fill and before it  *)
(* applies that fill.  The client sees the book in those states, so        *)
(* add_order is split there: pc is "idle" between calls, "match" at the    *)
(* head of the matching loop, "walk" at the head of a loop over the makers *)
(* of the best level (with a maker to fill: inside on_trade), "level" when *)
(* that loop is left, and "done" when the call has returned to its client. *)
(* cancel_order calls nobody back and is one step.                         *)
(*                                                                         *)
(* Left out: the journal, which the book writes and never reads; the entry *)
(* gate, which a client that does not call from inside on_trade and stays  *)
(* on one thread never meets; and prefetch hints.                          *)
(***************************************************************************)
EXTENDS PriceIndex, PriceLevel, FiniteSets, Sequences

CONSTANTS
  Capacity,          \* max_active_orders, the number of slots of the pool
  MaxOrderId,        \* max_order_id_
  QuantityModulus,   \* 2^32, the width of Quantity
  MARKET_BUY_PRICE,  \* UINT32_MAX
  POISON,            \* what the fields of a freed slot read as
  AddIds, CancelIds, OrderPrices, Quantities   \* the arguments clients pass

(***************************************************************************)
(* The constructor refuses a max_price of UINT32_MAX and clamps the pool's *)
(* capacity below INVALID_INDEX.  The arguments are of the argument types. *)
(***************************************************************************)
ASSUME BookAssumption ==
  /\ Capacity \in Nat
  /\ INVALID_INDEX \in Nat
  /\ Capacity < INVALID_INDEX
  /\ MaxOrderId \in Nat
  /\ QuantityModulus \in Nat \ {0}
  /\ MARKET_BUY_PRICE \in Nat
  /\ MaxPrice < MARKET_BUY_PRICE
  /\ POISON \in Nat
  /\ AddIds \subseteq Nat
  /\ CancelIds \subseteq Nat
  /\ OrderPrices \subseteq 0 .. MARKET_BUY_PRICE
  /\ Quantities \subseteq 0 .. QuantityModulus - 1

VARIABLES
  slot,          \* the pool's slots; slot[i].next of a free slot is its free-list link
  free_head,     \* order_pool_.free_head_
  allocated,     \* slots stamped Live
  levels,        \* bids_levels_ and asks_levels_, by side
  index,         \* bitset and summary, by side
  best,          \* has_bids_, best_bid_, best_bid_idx_ and their ask twins, by side
  order_map,     \* order_map_
  active_count,  \* active_count_
  pc,            \* where the current call is
  taker,         \* the order being added, its price resolved
  remaining,     \* remaining_qty / taker_quantity
  path,          \* which loop consumes the best level: single, chain or slow
  cursor,        \* maker_order_idx
  ret,           \* the RejectReason returned
  filled,        \* *filled_out
  reported       \* history: quantity reported through on_trade in this call

bookVars == <<slot, free_head, allocated, levels, index, best, order_map, active_count>>
callVars == <<pc, taker, remaining, path, cursor, ret, filled, reported>>
vars == <<slot, free_head, allocated, levels, index, best, order_map, active_count,
          pc, taker, remaining, path, cursor, ret, filled, reported>>

Sides == {"Buy", "Sell"}
Slots == 0 .. Capacity - 1
Words == 0 .. INVALID_INDEX
MARKET_SELL_PRICE == 0
Opposite(side) == IF side = "Buy" THEN "Sell" ELSE "Buy"

Orders == [next : Words, prev : Words \cup {POISON}, id : (0 .. MaxOrderId) \cup {POISON},
           price : (0 .. MaxPrice) \cup {POISON},
           quantity : (0 .. QuantityModulus - 1) \cup {POISON},
           side : Sides \cup {"poison"}]
Levels == [head : Words, tail : Words, total_quantity : Nat, order_count : 0 .. Capacity]
Bests == [has : BOOLEAN, price : 0 .. MaxPrice + 1, idx : Ticks]
Takers == [id : AddIds, type : {"Limit", "Market"}, side : Sides,
           price : 0 .. MARKET_BUY_PRICE, quantity : 0 .. QuantityModulus - 1]
RejectReasons == {"Accepted", "PoolExhausted", "InvalidQuantity", "OutOfBoundsOrderId",
                  "DuplicateOrderId", "OutOfBoundsPrice", "MarketOnEmptyBook", "CancelFailed"}
NoTaker == [id |-> 0, type |-> "none", side |-> "Buy", price |-> 0, quantity |-> 0]

(***************************************************************************)
(* No quantity or count leaves its range: nothing the code computes in     *)
(* unsigned arithmetic goes below zero, and no index leaves its array.     *)
(***************************************************************************)
TypeOK ==
  /\ slot \in [Slots -> Orders]
  /\ free_head \in Words
  /\ allocated \in SUBSET Slots
  /\ levels \in [Sides -> [Ticks -> Levels]]
  /\ index \in [Sides -> IndexType]
  /\ best \in [Sides -> Bests]
  /\ order_map \in [0 .. MaxOrderId -> Words]
  /\ active_count \in 0 .. Capacity
  /\ pc \in {"idle", "match", "walk", "level", "done"}
  /\ taker \in Takers \cup {NoTaker}
  /\ remaining \in 0 .. QuantityModulus - 1
  /\ path \in {"none", "single", "chain", "slow"}
  /\ cursor \in Words
  /\ ret \in RejectReasons
  /\ filled \in 0 .. QuantityModulus - 1
  /\ reported \in 0 .. QuantityModulus - 1

-----------------------------------------------------------------------------
(***************************************************************************)
(* The cached best of an empty side: a price no order has, and an index    *)
(* that is stale but inside the array.                                     *)
(***************************************************************************)
EmptyBest(side) ==
  [has |-> FALSE,
   price |-> IF side = "Buy" THEN 0 ELSE MaxPrice + 1,
   idx |-> IF side = "Buy" THEN 0 ELSE PriceRange - 1]

BestAt(side, i) ==
  IF i = NONE THEN EmptyBest(side) ELSE [has |-> TRUE, price |-> MinPrice + i, idx |-> i]

(***************************************************************************)
(* update_best_ask_after_remove, update_best_bid_after_remove: the level   *)
(* of tick i is empty and its bit is cleared in ix.                        *)
(***************************************************************************)
UpdateBestAskAfterRemove(ix, i) == BestAt("Sell", ScanUp(ix, i))
UpdateBestBidAfterRemove(ix, i) == BestAt("Buy", ScanDown(ix, i))

UpdateBestAfterRemove(side, ix, i) ==
  IF side = "Sell" THEN UpdateBestAskAfterRemove(ix, i) ELSE UpdateBestBidAfterRemove(ix, i)

(***************************************************************************)
(* What the matching loop does instead when it has emptied the best level: *)
(* it looks at the adjacent level before it scans.                         *)
(***************************************************************************)
AdvanceBestAsk(ix, i) ==
  IF MinPrice + i + 1 <= MaxPrice /\ ~IsEmpty(levels["Sell"][i + 1])
  THEN BestAt("Sell", i + 1)
  ELSE UpdateBestAskAfterRemove(ix, i)

AdvanceBestBid(ix, i) ==
  IF MinPrice + i > MinPrice /\ ~IsEmpty(levels["Buy"][i - 1])
  THEN BestAt("Buy", i - 1)
  ELSE UpdateBestBidAfterRemove(ix, i)

-----------------------------------------------------------------------------
(***************************************************************************)
(* The slots met from start along next, up to INVALID_INDEX; a walk longer *)
(* than the pool is cut at Capacity + 1.                                   *)
(***************************************************************************)
Hops(start) ==
  LET hop[n \in 0 .. Capacity] ==
        IF n = 0 THEN start
        ELSE IF hop[n - 1] \in Slots THEN slot[hop[n - 1]].next
        ELSE INVALID_INDEX
  IN  hop

Walk(start) ==
  LET hop == Hops(start)
      ends == {n \in 0 .. Capacity : hop[n] \notin Slots}
  IN  [k \in 1 .. IF ends = {} THEN Capacity + 1 ELSE Min(ends) |-> hop[k - 1]]

\* The quantities of the slots of a walk, added up on the way.
QuantityOf(w) ==
  LET walked_qty[n \in 0 .. Len(w)] ==
        IF n = 0 THEN 0 ELSE walked_qty[n - 1] + slot[w[n]].quantity
  IN  walked_qty[Len(w)]

(***************************************************************************)
(* deallocate poisons everything past the first word, which becomes the    *)
(* free-list link.                                                         *)
(***************************************************************************)
FreedSlot(link) == [next |-> link, prev |-> POISON, id |-> POISON, price |-> POISON,
                    quantity |-> POISON, side |-> "poison"]

Init ==
  /\ slot = [i \in Slots |-> [next |-> IF i = Capacity - 1 THEN INVALID_INDEX ELSE i + 1,
                              prev |-> INVALID_INDEX, id |-> 0, price |-> 0,
                              quantity |-> 0, side |-> "Buy"]]
  /\ free_head = IF Capacity = 0 THEN INVALID_INDEX ELSE 0
  /\ allocated = {}
  /\ levels = [side \in Sides |-> [i \in Ticks |-> EmptyLevel]]
  /\ index = [side \in Sides |-> EmptyIndex]
  /\ best = [side \in Sides |-> EmptyBest(side)]
  /\ order_map = [id \in 0 .. MaxOrderId |-> INVALID_INDEX]
  /\ active_count = 0
  /\ pc = "idle"
  /\ taker = NoTaker
  /\ remaining = 0
  /\ path = "none"
  /\ cursor = INVALID_INDEX
  /\ ret = "Accepted"
  /\ filled = 0
  /\ reported = 0

(***************************************************************************)
(* The call returns a reason and the filled quantity.                      *)
(***************************************************************************)
Return(reason, quantity) ==
  /\ pc' = "done"
  /\ ret' = reason
  /\ filled' = quantity
  /\ UNCHANGED <<taker, remaining, path, cursor, reported>>

(***************************************************************************)
(* The client has read the results and may call again.                     *)
(***************************************************************************)
ClientResumes ==
  /\ pc = "done"
  /\ pc' = "idle"
  /\ taker' = NoTaker
  /\ remaining' = 0
  /\ path' = "none"
  /\ cursor' = INVALID_INDEX
  /\ ret' = "Accepted"
  /\ filled' = 0
  /\ reported' = 0
  /\ UNCHANGED bookVars

-----------------------------------------------------------------------------
(***************************************************************************)
(* cancel_order, and add_order with OrderType::Cancel which hands over to  *)
(* it.                                                                     *)
(***************************************************************************)
CancelVerdict(id) ==
  IF id = 0 \/ id > MaxOrderId THEN "OutOfBoundsOrderId"
  ELSE IF order_map[id] = INVALID_INDEX THEN "CancelFailed"
  ELSE "Accepted"

RejectCancel(id) ==
  /\ pc = "idle"
  /\ CancelVerdict(id) # "Accepted"
  /\ Return(CancelVerdict(id), 0)
  /\ UNCHANGED bookVars

\* Mutant of CancelOrder: an emptied best level leaves the cached best behind.
CancelOrderKeepsBest(id) ==
  /\ pc = "idle"
  /\ CancelVerdict(id) = "Accepted"
  /\ LET i == order_map[id]
         side == slot[i].side
         tick == slot[i].price - MinPrice
         removed == RemoveOrder(levels[side][tick], slot, i)
     IN  /\ levels' = [levels EXCEPT ![side][tick] = removed.level]
         /\ index' = IF IsEmpty(removed.level)
                     THEN [index EXCEPT ![side] = ClearBit(index[side], tick)]
                     ELSE index
         /\ slot' = [removed.slot EXCEPT ![i] = FreedSlot(free_head)]
         /\ free_head' = i
         /\ allocated' = allocated \ {i}
  /\ order_map' = [order_map EXCEPT ![id] = INVALID_INDEX]
  /\ active_count' = active_count - 1
  /\ Return("Accepted", 0)
  /\ UNCHANGED best

\* Mutant of CancelOrder: the slot is freed before the order's own links are
\* reset, so the reset overwrites its free-list link.
CancelOrderFreesFirst(id) ==
  /\ pc = "idle"
  /\ CancelVerdict(id) = "Accepted"
  /\ LET i == order_map[id]
         side == slot[i].side
         price == slot[i].price
         tick == price - MinPrice
         removed == RemoveOrder(levels[side][tick], slot, i)
         ix == IF IsEmpty(removed.level) THEN ClearBit(index[side], tick) ELSE index[side]
     IN  /\ levels' = [levels EXCEPT ![side][tick] = removed.level]
         /\ index' = [index EXCEPT ![side] = ix]
         /\ best' = IF IsEmpty(removed.level) /\ best[side].has /\ best[side].price = price
                    THEN [best EXCEPT ![side] = UpdateBestAfterRemove(side, ix, tick)]
                    ELSE best
         /\ slot' = [removed.slot EXCEPT ![i] =
                       [FreedSlot(INVALID_INDEX) EXCEPT !.prev = INVALID_INDEX]]
         /\ free_head' = i
         /\ allocated' = allocated \ {i}
  /\ order_map' = [order_map EXCEPT ![id] = INVALID_INDEX]
  /\ active_count' = active_count - 1
  /\ Return("Accepted", 0)

CancelOrder(id) ==
  /\ pc = "idle"
  /\ CancelVerdict(id) = "Accepted"
  /\ LET i == order_map[id]
         side == slot[i].side
         price == slot[i].price
         tick == price - MinPrice
         removed == RemoveOrder(levels[side][tick], slot, i)
         ix == IF IsEmpty(removed.level) THEN ClearBit(index[side], tick) ELSE index[side]
     IN  /\ levels' = [levels EXCEPT ![side][tick] = removed.level]
         /\ index' = [index EXCEPT ![side] = ix]
         /\ best' = IF IsEmpty(removed.level) /\ best[side].has /\ best[side].price = price
                    THEN [best EXCEPT ![side] = UpdateBestAfterRemove(side, ix, tick)]
                    ELSE best
         /\ slot' = [removed.slot EXCEPT ![i] = FreedSlot(free_head)]
         /\ free_head' = i
         /\ allocated' = allocated \ {i}
  /\ order_map' = [order_map EXCEPT ![id] = INVALID_INDEX]
  /\ active_count' = active_count - 1
  /\ Return("Accepted", 0)

-----------------------------------------------------------------------------
(***************************************************************************)
(* The validation of add_order, in the order of its early returns.         *)
(***************************************************************************)
AddVerdict(id, type, price, quantity, side) ==
  IF quantity = 0 THEN "InvalidQuantity"
  ELSE IF id = 0 \/ id > MaxOrderId THEN "OutOfBoundsOrderId"
  ELSE IF order_map[id] # INVALID_INDEX THEN "DuplicateOrderId"
  ELSE IF type = "Limit" /\ (price < MinPrice \/ price > MaxPrice) THEN "OutOfBoundsPrice"
  ELSE IF type = "Market" /\ ~best[Opposite(side)].has THEN "MarketOnEmptyBook"
  ELSE "Accepted"

RejectAdd(id, type, price, quantity, side) ==
  /\ pc = "idle"
  /\ AddVerdict(id, type, price, quantity, side) # "Accepted"
  /\ Return(AddVerdict(id, type, price, quantity, side), 0)
  /\ UNCHANGED bookVars

ResolvedPrice(type, price, side) ==
  IF type = "Market" THEN IF side = "Buy" THEN MARKET_BUY_PRICE ELSE MARKET_SELL_PRICE
  ELSE price

AcceptAdd(id, type, price, quantity, side) ==
  /\ pc = "idle"
  /\ AddVerdict(id, type, price, quantity, side) = "Accepted"
  /\ pc' = "match"
  /\ taker' = [id |-> id, type |-> type, side |-> side,
               price |-> ResolvedPrice(type, price, side), quantity |-> quantity]
  /\ remaining' = quantity
  /\ UNCHANGED <<bookVars, path, cursor, ret, filled, reported>>

-----------------------------------------------------------------------------
(***************************************************************************)
(* match_order_direct.  The makers are on the other side of the book.      *)
(***************************************************************************)
MakerSide == Opposite(taker.side)
BestLevel == levels[MakerSide][best[MakerSide].idx]

(***************************************************************************)
(* The guard of the matching loop, for a buyer and for a seller.           *)
(***************************************************************************)
BuyCrosses == best["Sell"].has /\ remaining > 0 /\ taker.price >= best["Sell"].price

\* Mutant of SellCrosses: the seller's limit is ignored.
SellCrossesAnyPrice == best["Buy"].has /\ remaining > 0

SellCrosses == best["Buy"].has /\ remaining > 0 /\ taker.price <= best["Buy"].price
Crosses == IF taker.side = "Buy" THEN BuyCrosses ELSE SellCrosses

\* Mutant of PathOf: the whole-level path is taken one unit too early.
PathOfTooGreedy(level) ==
  IF remaining + 1 >= level.total_quantity
  THEN IF level.order_count = 1 THEN "single" ELSE "chain"
  ELSE "slow"

(***************************************************************************)
(* The taker takes the whole level, as one order or as a chain of orders,  *)
(* or it will be filled inside the level.                                  *)
(***************************************************************************)
PathOf(level) ==
  IF remaining >= level.total_quantity
  THEN IF level.order_count = 1 THEN "single" ELSE "chain"
  ELSE "slow"

EnterLevel ==
  /\ pc = "match"
  /\ Crosses
  /\ pc' = "walk"
  /\ path' = PathOf(BestLevel)
  /\ cursor' = BestLevel.head
  /\ UNCHANGED <<bookVars, taker, remaining, ret, filled, reported>>

(***************************************************************************)
(* The guards of the loops over the makers; inside them on_trade is called *)
(* with CurrentTrade before anything is written.                           *)
(***************************************************************************)
OnTrade ==
  /\ pc = "walk"
  /\ cursor # INVALID_INDEX
  /\ path = "slow" => remaining > 0

\* Mutant of CurrentTrade: a partial fill is reported as the maker's quantity.
CurrentTradeWhole ==
  LET maker == slot[cursor]
  IN  [maker_id |-> maker.id, taker_id |-> taker.id, price |-> maker.price,
       quantity |-> maker.quantity]

CurrentTrade ==
  LET maker == slot[cursor]
  IN  [maker_id |-> maker.id, taker_id |-> taker.id, price |-> maker.price,
       quantity |-> IF path = "slow" /\ remaining < maker.quantity
                    THEN remaining ELSE maker.quantity]

\* static_cast<Quantity>(level.total_quantity)
LevelQuantity == BestLevel.total_quantity % QuantityModulus

\* Mutant of FillSingle: the filled maker's slot is not given back.
FillSingleLeaks ==
  /\ OnTrade
  /\ path = "single"
  /\ reported' = reported + CurrentTrade.quantity
  /\ order_map' = [order_map EXCEPT ![slot[cursor].id] = INVALID_INDEX]
  /\ active_count' = active_count - 1
  /\ remaining' = remaining - LevelQuantity
  /\ levels' = [levels EXCEPT ![MakerSide][best[MakerSide].idx] = EmptyLevel]
  /\ pc' = "level"
  /\ UNCHANGED <<slot, free_head, allocated, index, best, taker, path, cursor, ret, filled>>

(***************************************************************************)
(* The one-order fast path, up to and including the reset of the level.    *)
(***************************************************************************)
FillSingle ==
  /\ OnTrade
  /\ path = "single"
  /\ reported' = reported + CurrentTrade.quantity
  /\ order_map' = [order_map EXCEPT ![slot[cursor].id] = INVALID_INDEX]
  /\ slot' = [slot EXCEPT ![cursor] = FreedSlot(free_head)]
  /\ free_head' = cursor
  /\ allocated' = allocated \ {cursor}
  /\ active_count' = active_count - 1
  /\ remaining' = remaining - LevelQuantity
  /\ levels' = [levels EXCEPT ![MakerSide][best[MakerSide].idx] = EmptyLevel]
  /\ pc' = "level"
  /\ UNCHANGED <<index, best, taker, path, cursor, ret, filled>>

(***************************************************************************)
(* One maker of the chain: only its map entry is dropped.                  *)
(***************************************************************************)
FillChain ==
  /\ OnTrade
  /\ path = "chain"
  /\ reported' = reported + CurrentTrade.quantity
  /\ order_map' = [order_map EXCEPT ![slot[cursor].id] = INVALID_INDEX]
  /\ cursor' = slot[cursor].next
  /\ UNCHANGED <<slot, free_head, allocated, levels, index, best, active_count,
                 pc, taker, remaining, path, ret, filled>>

(***************************************************************************)
(* The chain is walked to its end: deallocate_chain(level.head,            *)
(* level.tail) frees it in one splice and the level is reset.              *)
(***************************************************************************)
ChainDone ==
  LET level == BestLevel
      w == Walk(level.head)
      last == Min({k \in DOMAIN w : w[k] = level.tail})
      chain == {w[k] : k \in 1 .. last}
  IN  /\ pc = "walk" /\ path = "chain" /\ cursor = INVALID_INDEX
      /\ slot' = [i \in Slots |->
           IF i \in chain
           THEN FreedSlot(IF i = level.tail THEN free_head ELSE slot[i].next)
           ELSE slot[i]]
      /\ free_head' = level.head
      /\ allocated' = allocated \ chain
      /\ active_count' = active_count - level.order_count
      /\ remaining' = remaining - LevelQuantity
      /\ levels' = [levels EXCEPT ![MakerSide][best[MakerSide].idx] = EmptyLevel]
      /\ pc' = "level"
      /\ UNCHANGED <<index, best, order_map, taker, path, cursor, ret, filled, reported>>

(***************************************************************************)
(* The slow path: the taker is smaller than the level.  A maker it drains  *)
(* leaves the queue from the front, the last one it meets keeps the rest.  *)
(***************************************************************************)
ShrinkLevel(level, quantity) == [level EXCEPT !.total_quantity = @ - quantity]

WithoutHead(level, quantity, next) ==
  [ShrinkLevel(level, quantity) EXCEPT !.order_count = @ - 1, !.head = next]

FillSlowDrain ==
  LET maker == slot[cursor]
      idx == best[MakerSide].idx
  IN  /\ OnTrade
      /\ path = "slow"
      /\ CurrentTrade.quantity = maker.quantity
      /\ order_map' = [order_map EXCEPT ![maker.id] = INVALID_INDEX]
      /\ slot' = [i \in Slots |->
           IF i = cursor THEN FreedSlot(free_head)
           ELSE IF i = maker.next THEN [slot[i] EXCEPT !.prev = INVALID_INDEX]
           ELSE slot[i]]
      /\ free_head' = cursor
      /\ allocated' = allocated \ {cursor}
      /\ levels' = [levels EXCEPT ![MakerSide][idx] = WithoutHead(@, maker.quantity, maker.next)]
      /\ active_count' = active_count - 1
      /\ reported' = reported + maker.quantity
      /\ remaining' = remaining - maker.quantity
      /\ cursor' = maker.next
      /\ UNCHANGED <<index, best, pc, taker, path, ret, filled>>

\* Mutant of FillSlowPartial: the level's total is left alone.
FillSlowPartialKeepsTotal ==
  /\ OnTrade
  /\ path = "slow"
  /\ CurrentTrade.quantity < slot[cursor].quantity
  /\ slot' = [slot EXCEPT ![cursor].quantity = @ - remaining]
  /\ reported' = reported + remaining
  /\ remaining' = 0
  /\ cursor' = slot[cursor].next
  /\ UNCHANGED <<free_head, allocated, levels, index, best, order_map, active_count,
                 pc, taker, path, ret, filled>>

FillSlowPartial ==
  /\ OnTrade
  /\ path = "slow"
  /\ CurrentTrade.quantity < slot[cursor].quantity
  /\ slot' = [slot EXCEPT ![cursor].quantity = @ - CurrentTrade.quantity]
  /\ levels' = [levels EXCEPT ![MakerSide][best[MakerSide].idx] =
                  ShrinkLevel(@, CurrentTrade.quantity)]
  /\ reported' = reported + CurrentTrade.quantity
  /\ remaining' = remaining - CurrentTrade.quantity
  /\ cursor' = slot[cursor].next
  /\ UNCHANGED <<free_head, allocated, index, best, order_map, active_count,
                 pc, taker, path, ret, filled>>

\* Mutant of SlowDone: the loop is left only at the end of the queue.
SlowDoneAtEnd ==
  /\ pc = "walk"
  /\ path = "slow"
  /\ cursor = INVALID_INDEX
  /\ pc' = "level"
  /\ UNCHANGED <<bookVars, taker, remaining, path, cursor, ret, filled, reported>>

SlowDone ==
  /\ pc = "walk"
  /\ path = "slow"
  /\ cursor = INVALID_INDEX \/ remaining = 0
  /\ pc' = "level"
  /\ UNCHANGED <<bookVars, taker, remaining, path, cursor, ret, filled, reported>>

\* Mutant of LevelDone: the emptied level's bit stays set.
LevelDoneKeepsBit ==
  LET side == MakerSide
      tick == best[side].price - MinPrice
      ix == ClearBit(index[side], tick)
  IN  /\ pc = "level"
      /\ best' = IF IsEmpty(BestLevel)
                 THEN [best EXCEPT ![side] = IF side = "Sell" THEN AdvanceBestAsk(ix, tick)
                                             ELSE AdvanceBestBid(ix, tick)]
                 ELSE best
      /\ pc' = "match"
      /\ UNCHANGED <<slot, free_head, allocated, levels, index, order_map, active_count,
                     taker, remaining, path, cursor, ret, filled, reported>>

(***************************************************************************)
(* After a level: when it is empty its bit is cleared and the best price   *)
(* moves on.                                                               *)
(***************************************************************************)
LevelDone ==
  LET side == MakerSide
      tick == best[side].price - MinPrice
      ix == ClearBit(index[side], tick)
  IN  /\ pc = "level"
      /\ IF IsEmpty(BestLevel)
         THEN /\ index' = [index EXCEPT ![side] = ix]
              /\ best' = [best EXCEPT ![side] = IF side = "Sell" THEN AdvanceBestAsk(ix, tick)
                                                ELSE AdvanceBestBid(ix, tick)]
         ELSE UNCHANGED <<index, best>>
      /\ pc' = "match"
      /\ UNCHANGED <<slot, free_head, allocated, levels, order_map, active_count,
                     taker, remaining, path, cursor, ret, filled, reported>>

(***************************************************************************)
(* The two instantiations of match_order_direct.                           *)
(***************************************************************************)
MatchStep ==
  \/ EnterLevel
  \/ FillSingle
  \/ FillChain
  \/ ChainDone
  \/ FillSlowDrain
  \/ FillSlowPartial
  \/ SlowDone
  \/ LevelDone

MatchBuy == taker.side = "Buy" /\ MatchStep
MatchSell == taker.side = "Sell" /\ MatchStep

-----------------------------------------------------------------------------
(***************************************************************************)
(* add_order after the match: the order is filled, or the remainder of a   *)
(* market order is dropped, or a limit order's remainder finds the pool    *)
(* exhausted, or it rests.                                                 *)
(***************************************************************************)
MatchOver == pc = "match" /\ ~Crosses
Filled == taker.quantity - remaining

AddFilled ==
  /\ MatchOver
  /\ remaining = 0 \/ taker.type = "Market"
  /\ Return("Accepted", Filled)
  /\ UNCHANGED bookVars

AddExhausted ==
  /\ MatchOver
  /\ remaining > 0 /\ taker.type = "Limit"
  /\ free_head = INVALID_INDEX
  /\ Return("PoolExhausted", Filled)
  /\ UNCHANGED bookVars

\* Mutant of Improves: a better price does not replace the cached one.
ImprovesOnlyEmpty(side, price) == ~best[side].has

\* The new best price is better than the cached one, or there was none.
Improves(side, price) ==
  \/ ~best[side].has
  \/ IF side = "Buy" THEN price > best[side].price ELSE price < best[side].price

AddRested ==
  LET i == free_head
      side == taker.side
      tick == taker.price - MinPrice
      order == [next |-> INVALID_INDEX, prev |-> INVALID_INDEX, id |-> taker.id,
                price |-> taker.price, quantity |-> remaining, side |-> side]
      appended == AppendOrder(levels[side][tick], [slot EXCEPT ![i] = order], i)
  IN  /\ MatchOver
      /\ remaining > 0 /\ taker.type = "Limit"
      /\ free_head # INVALID_INDEX
      /\ free_head' = slot[i].next
      /\ allocated' = allocated \cup {i}
      /\ slot' = appended.slot
      /\ levels' = [levels EXCEPT ![side][tick] = appended.level]
      /\ index' = IF IsEmpty(levels[side][tick])
                  THEN [index EXCEPT ![side] = SetBit(index[side], tick)]
                  ELSE index
      /\ best' = IF Improves(side, taker.price)
                 THEN [best EXCEPT ![side] = BestAt(side, tick)]
                 ELSE best
      /\ order_map' = [order_map EXCEPT ![taker.id] = i]
      /\ active_count' = active_count + 1
      /\ Return("Accepted", Filled)

-----------------------------------------------------------------------------
(***************************************************************************)
(* The client calls, with any arguments of its sets; the price of a market *)
(* order and the quantity of a cancel are not looked at.                   *)
(***************************************************************************)
ClientCalls ==
  \/ \E id \in CancelIds : CancelOrder(id) \/ RejectCancel(id)
  \/ \E id \in AddIds, type \in {"Limit", "Market"}, price \in OrderPrices,
        quantity \in Quantities, side \in Sides :
       \/ AcceptAdd(id, type, price, quantity, side)
       \/ RejectAdd(id, type, price, quantity, side)

EngineStep == MatchBuy \/ MatchSell \/ AddFilled \/ AddExhausted \/ AddRested

Next == ClientCalls \/ EngineStep \/ ClientResumes

(***************************************************************************)
(* A call is ordinary sequential code: once entered it keeps running, and  *)
(* the client reads the result it gets.  Nothing makes the client call.    *)
(***************************************************************************)
Fairness == WF_vars(EngineStep) /\ WF_vars(ClientResumes)

Spec == Init /\ [][Next]_vars
FairSpec == Spec /\ Fairness

-----------------------------------------------------------------------------
(***************************************************************************)
(* validate_book, part by part.  The queue of a level is live, linked both *)
(* ways, holds orders of that price and side which the map resolves, ends  *)
(* at the tail, and adds up to the level's totals.                         *)
(***************************************************************************)
LevelValid(side, tick) ==
  LET level == levels[side][tick]
      w == Walk(level.head)
      n == Len(w)
  IN  /\ n <= Capacity
      /\ \A k \in 1 .. n :
           LET o == slot[w[k]]
           IN  /\ w[k] \in allocated
               /\ o.prev = IF k = 1 THEN INVALID_INDEX ELSE w[k - 1]
               /\ order_map[o.id] = w[k]
               /\ o.price = MinPrice + tick
               /\ o.side = side
      /\ n > 0 => level.tail = w[n]
      /\ level.total_quantity = QuantityOf(w)
      /\ level.order_count = n

IndexValid(side) ==
  /\ SetTicks(index[side]) = {tick \in Ticks : ~IsEmpty(levels[side][tick])}
  /\ SummaryMatches(index[side])

MapValid ==
  \A id \in 1 .. MaxOrderId :
    order_map[id] # INVALID_INDEX =>
      order_map[id] \in allocated /\ slot[order_map[id]].id = id

BestValid(side) ==
  LET occupied == {tick \in Ticks : ~IsEmpty(levels[side][tick])}
  IN  IF best[side].has
      THEN /\ occupied # {}
           /\ best[side].idx = IF side = "Buy" THEN Max(occupied) ELSE Min(occupied)
           /\ best[side].price = MinPrice + best[side].idx
      ELSE occupied = {} /\ best[side].idx \in Ticks

\* The orders of all levels, added up level by level.
RestingCount ==
  LET counted[n \in 0 .. PriceRange] ==
        IF n = 0 THEN 0
        ELSE counted[n - 1] + levels["Buy"][n - 1].order_count + levels["Sell"][n - 1].order_count
  IN  counted[PriceRange]

CountsValid ==
  /\ active_count = Cardinality(allocated)
  /\ Cardinality({id \in 1 .. MaxOrderId : order_map[id] # INVALID_INDEX}) = Cardinality(allocated)
  /\ RestingCount = Cardinality(allocated)
  /\ Len(Walk(free_head)) = Capacity - Cardinality(allocated)

(***************************************************************************)
(* validate_book() holds whenever no call is in flight, and stronger than  *)
(* the code's check an empty side has no level left behind: levels, links, *)
(* totals, index, map, cached bests and pool all agree after any sequence  *)
(* of adds, fills and cancels.                                             *)
(***************************************************************************)
ValidateBook ==
  pc \in {"idle", "done"} =>
    /\ \A side \in Sides, tick \in Ticks : LevelValid(side, tick)
    /\ \A side \in Sides : IndexValid(side) /\ BestValid(side)
    /\ MapValid
    /\ CountsValid

(***************************************************************************)
(* The book is never left crossed or locked: every resting bid is below    *)
(* every resting ask, by the levels themselves and not by the cached best  *)
(* prices the matching loop trusts.                                        *)
(***************************************************************************)
NeverCrossed ==
  pc \in {"idle", "done"} =>
    \A bid, ask \in Ticks :
      ~IsEmpty(levels["Buy"][bid]) /\ ~IsEmpty(levels["Sell"][ask]) => bid < ask

(***************************************************************************)
(* *filled_out is the sum of what on_trade was told, although the fast     *)
(* paths subtract the level's total and not the orders' quantities, and a  *)
(* level's 64-bit total is cut to Quantity.                                *)
(***************************************************************************)
FilledMatchesTrades == pc = "done" => filled = reported

(***************************************************************************)
(* Inside on_trade the client sees a trade at the best opposite price,     *)
(* within the taker's limit, of a positive quantity it still has, with a   *)
(* maker that is live and that order_exists still reports.                 *)
(***************************************************************************)
TradeAtBest ==
  OnTrade =>
    /\ cursor \in allocated
    /\ order_map[CurrentTrade.maker_id] = cursor
    /\ CurrentTrade.price = best[MakerSide].price
    /\ IF taker.side = "Buy" THEN CurrentTrade.price <= taker.price
       ELSE CurrentTrade.price >= taker.price
    /\ CurrentTrade.quantity > 0
    /\ reported + CurrentTrade.quantity <= taker.quantity

(***************************************************************************)
(* An order refused with PoolExhausted has traded nothing: a fill that     *)
(* leaves a remainder has freed at least one slot for it to rest in.       *)
(***************************************************************************)
ExhaustedUnfilled == pc = "done" /\ ret = "PoolExhausted" => filled = 0

(***************************************************************************)
(* Every call returns: the matching loops terminate.                       *)
(***************************************************************************)
CallReturns == pc # "idle" ~> pc = "idle"
=============================================================================
