\* One price and four orders in three slots: the queue of a level, chains of
\* three and the pool at its limit.
CONSTANTS
  MinPrice = 1
  MaxPrice = 1
  WordBits = 2
  Capacity = 3
  INVALID_INDEX = 4
  MaxOrderId = 4
  QuantityModulus = 3
  MARKET_BUY_PRICE = 3
  POISON = 9
  AddIds = {1, 2, 3, 4}
  CancelIds = {1, 2, 3, 4}
  OrderPrices = {1}
  Quantities = {1, 2}
  Followed = {"OrderRested", "TradeExecuted", "MakerFilled", "OrderCancelled"}
SPECIFICATION RecordedSpec
PROPERTIES
  ImplementsReference
  KeepsPoolContract
INVARIANT JournalReplays
