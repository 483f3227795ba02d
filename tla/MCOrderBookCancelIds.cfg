\* Ids outside the range of the id map, 0 and MaxOrderId + 1.
CONSTANTS
  MinPrice = 1
  MaxPrice = 5
  WordBits = 2
  Capacity = 2
  INVALID_INDEX = 4
  MaxOrderId = 3
  QuantityModulus = 3
  MARKET_BUY_PRICE = 7
  POISON = 9
  AddIds = {1, 2, 3, 4}
  CancelIds = {0, 1, 2, 3, 4}
  OrderPrices = {1, 2, 5, 6}
  Quantities = {0, 1, 2}
SPECIFICATION Spec
INVARIANT SameCancelVerdict
