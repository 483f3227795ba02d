---------------------------- MODULE StdOrderBook ----------------------------
(***************************************************************************)
(* The reference book of tests/StdOrderBook.h, the oracle of the           *)
(* differential fuzzer: per side a sorted map from prices to lists of      *)
(* orders, oldest first.  It says what an order book is, without slots,    *)
(* links, bitsets or cached best prices.                                   *)
(*                                                                         *)
(* A price without a list in the map is a price with an empty queue.       *)
(* order_map is the set of the keys of order_map_ and side_map_, which the *)
(* code changes together; where they lead is the id's place in the queues. *)
(* Its steps are those a client of the engine can see: a call, an on_trade *)
(* callback ("trade"), the return from a call.                             *)
(***************************************************************************)
EXTENDS Integers, SequencesExt

CONSTANTS
  MinPrice, MaxPrice, MaxOrderId, MARKET_BUY_PRICE,
  Capacity,          \* max_active_orders_
  AddIds, CancelIds, OrderPrices, Quantities   \* the arguments clients pass

VARIABLES
  queue,       \* bids_ and asks_, by side and price
  order_map,   \* the ids in order_map_ and side_map_
  live_count,  \* live_count_
  pc,          \* "idle", "match" (outer loop), "trade" (in on_trade), "done"
  taker,       \* the order being added, as submitted
  remaining,   \* its order.quantity
  ret,         \* the RejectReason returned
  filled       \* *filled_out

vars == <<queue, order_map, live_count, pc, taker, remaining, ret, filled>>

Sides == {"Buy", "Sell"}
Prices == MinPrice .. MaxPrice
Opposite(side) == IF side = "Buy" THEN "Sell" ELSE "Buy"
NoTaker == [id |-> 0, type |-> "none", side |-> "Buy", price |-> 0, quantity |-> 0]

Init ==
  /\ queue = [side \in Sides |-> [price \in Prices |-> <<>>]]
  /\ order_map = {}
  /\ live_count = 0
  /\ pc = "idle"
  /\ taker = NoTaker
  /\ remaining = 0
  /\ ret = "Accepted"
  /\ filled = 0

Return(reason, quantity) ==
  /\ pc' = "done"
  /\ ret' = reason
  /\ filled' = quantity

ClientResumes ==
  /\ pc = "done"
  /\ pc' = "idle"
  /\ taker' = NoTaker
  /\ remaining' = 0
  /\ ret' = "Accepted"
  /\ filled' = 0
  /\ UNCHANGED <<queue, order_map, live_count>>

-----------------------------------------------------------------------------
(***************************************************************************)
(* cancel_order looks the id up and nothing else.                          *)
(***************************************************************************)
CancelVerdict(id) == IF id \in order_map THEN "Accepted" ELSE "CancelFailed"

RejectCancel(id) ==
  /\ pc = "idle"
  /\ CancelVerdict(id) # "Accepted"
  /\ Return(CancelVerdict(id), 0)
  /\ UNCHANGED <<queue, order_map, live_count, taker, remaining>>

CancelOrder(id) ==
  /\ pc = "idle"
  /\ CancelVerdict(id) = "Accepted"
  /\ order_map' = order_map \ {id}
  /\ live_count' = live_count - 1
  /\ Return("Accepted", 0)
  /\ \E side \in Sides, price \in Prices :
       LET q == queue[side][price]
       IN  \E k \in 1 .. Len(q) :
             /\ q[k].id = id
             /\ queue' = [queue EXCEPT ![side][price] = RemoveAt(q, k)]
  /\ UNCHANGED <<taker, remaining>>

-----------------------------------------------------------------------------
Occupied(side) == LET q == queue[side] IN {price \in Prices : q[price] # <<>>}

AddVerdict(id, type, price, quantity, side) ==
  IF quantity = 0 THEN "InvalidQuantity"
  ELSE IF id = 0 \/ id > MaxOrderId THEN "OutOfBoundsOrderId"
  ELSE IF id \in order_map THEN "DuplicateOrderId"
  ELSE IF type = "Limit" /\ (price < MinPrice \/ price > MaxPrice) THEN "OutOfBoundsPrice"
  ELSE IF type = "Market" /\ Occupied(Opposite(side)) = {} THEN "MarketOnEmptyBook"
  ELSE "Accepted"

RejectAdd(id, type, price, quantity, side) ==
  /\ pc = "idle"
  /\ pc' = "done"
  /\ AddVerdict(id, type, price, quantity, side) # "Accepted"
  /\ Return(AddVerdict(id, type, price, quantity, side), 0)
  /\ UNCHANGED <<queue, order_map, live_count, taker, remaining>>

AcceptAdd(id, type, price, quantity, side) ==
  /\ pc = "idle"
  /\ pc' = "match"
  /\ taker' = [id |-> id, type |-> type, side |-> side,
               price |-> IF type = "Limit" THEN price
                         ELSE IF side = "Buy" THEN MARKET_BUY_PRICE ELSE 0,
               quantity |-> quantity]
  /\ remaining' = quantity
  /\ AddVerdict(id, type, price, quantity, side) = "Accepted"
  /\ UNCHANGED <<queue, order_map, live_count, ret, filled>>

(***************************************************************************)
(* begin() of the opposite map, and the tests of the outer loop.           *)
(***************************************************************************)
MakerSide == Opposite(taker.side)
BestPrice == IF MakerSide = "Sell" THEN Min(Occupied(MakerSide)) ELSE Max(Occupied(MakerSide))

Crosses ==
  /\ remaining > 0
  /\ Occupied(MakerSide) # {}
  /\ IF taker.side = "Buy" THEN BestPrice <= taker.price ELSE BestPrice >= taker.price

EnterLevel ==
  /\ pc = "match"
  /\ pc' = "trade"
  /\ Crosses
  /\ UNCHANGED <<queue, order_map, live_count, taker, remaining, ret, filled>>

(***************************************************************************)
(* on_trade is told of this trade, then it is applied to the oldest order  *)
(* at the best price; the inner loop goes on while the list lasts.         *)
(***************************************************************************)
CurrentTrade ==
  LET maker == Head(queue[MakerSide][BestPrice])
  IN  [maker_id |-> maker.id, taker_id |-> taker.id, price |-> BestPrice,
       quantity |-> Min({remaining, maker.quantity})]

AfterTrade ==
  LET q == queue[MakerSide][BestPrice]
      traded == CurrentTrade.quantity
      left == IF traded = Head(q).quantity THEN Tail(q)
              ELSE [q EXCEPT ![1].quantity = @ - traded]
  IN  /\ pc = "trade"
      /\ queue' = [queue EXCEPT ![MakerSide][BestPrice] = left]
      /\ order_map' = IF traded = Head(q).quantity THEN order_map \ {Head(q).id} ELSE order_map
      /\ live_count' = live_count - (Len(q) - Len(left))
      /\ remaining' = remaining - traded
      /\ pc' = IF left # <<>> /\ remaining - traded > 0 THEN "trade" ELSE "match"
      /\ UNCHANGED <<taker, ret, filled>>

(***************************************************************************)
(* After the loops.  filled_out was zeroed on entry and stays so when the  *)
(* remainder does not fit.                                                 *)
(***************************************************************************)
AddFilled ==
  /\ pc = "match"
  /\ remaining = 0 \/ taker.type = "Market"
  /\ Return("Accepted", taker.quantity - remaining)
  /\ ~Crosses
  /\ UNCHANGED <<queue, order_map, live_count, taker, remaining>>

AddExhausted ==
  /\ pc = "match"
  /\ remaining > 0 /\ taker.type = "Limit"
  /\ live_count + 1 > Capacity
  /\ Return("PoolExhausted", 0)
  /\ ~Crosses
  /\ UNCHANGED <<queue, order_map, live_count, taker, remaining>>

AddRested ==
  /\ pc = "match"
  /\ remaining > 0 /\ taker.type = "Limit"
  /\ live_count + 1 <= Capacity
  /\ Return("Accepted", taker.quantity - remaining)
  /\ ~Crosses
  /\ queue' = [queue EXCEPT ![taker.side][taker.price] =
                 Append(@, [id |-> taker.id, quantity |-> remaining])]
  /\ order_map' = order_map \cup {taker.id}
  /\ live_count' = live_count + 1
  /\ UNCHANGED <<taker, remaining>>

-----------------------------------------------------------------------------
ClientCalls ==
  /\ pc = "idle"
  /\ \/ \E id \in CancelIds : CancelOrder(id) \/ RejectCancel(id)
     \/ \E id \in AddIds, type \in {"Limit", "Market"}, price \in OrderPrices,
           quantity \in Quantities, side \in Sides :
          \/ AcceptAdd(id, type, price, quantity, side)
          \/ RejectAdd(id, type, price, quantity, side)

Next ==
  \/ ClientCalls
  \/ EnterLevel
  \/ AfterTrade
  \/ AddFilled
  \/ AddExhausted
  \/ AddRested
  \/ ClientResumes

Spec == Init /\ [][Next]_vars
=============================================================================
