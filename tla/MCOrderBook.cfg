\* Two prices and four orders in three slots; quantities of two bits, so that a
\* level can hold more than any taker can ask for.
CONSTANTS
  MinPrice = 1
  MaxPrice = 2
  WordBits = 1
  Capacity = 3
  INVALID_INDEX = 4
  MaxOrderId = 4
  QuantityModulus = 4
  MARKET_BUY_PRICE = 4
  POISON = 9
  AddIds = {1, 2, 3, 4}
  CancelIds = {1, 2, 3, 4}
  OrderPrices = {1, 2}
  Quantities = {1, 3}
SPECIFICATION Spec
INVARIANTS
  TypeOK
  ValidateBook
  FilledMatchesTrades
  TradeAtBest
  ExhaustedUnfilled
