\* Five prices in words of two bits, orders at an adjacent pair and at a far one:
\* adjacent steps, scans through words and summary words, out-of-range arguments.
CONSTANTS
  MinPrice = 1
  MaxPrice = 5
  WordBits = 2
  Capacity = 2
  INVALID_INDEX = 4
  MaxOrderId = 3
  QuantityModulus = 3
  MARKET_BUY_PRICE = 7
  POISON = 9
  AddIds = {0, 1, 2, 3, 4}
  CancelIds = {1, 2, 3}
  OrderPrices = {0, 1, 2, 5, 6}
  Quantities = {0, 1, 2}
  Followed = {"OrderRested", "TradeExecuted", "MakerFilled", "OrderCancelled"}
SPECIFICATION RecordedFairSpec
INVARIANTS
  ValidateBook
  NeverCrossed
  TradesAgree
  JournalReplays
PROPERTIES
  ImplementsReference
  CallReturns
