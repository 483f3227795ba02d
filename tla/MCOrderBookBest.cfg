\* Two adjacent prices and two slots, read through the best-price entries.
CONSTANTS
  MinPrice = 1
  MaxPrice = 2
  WordBits = 2
  Capacity = 2
  INVALID_INDEX = 4
  MaxOrderId = 2
  QuantityModulus = 3
  MARKET_BUY_PRICE = 3
  POISON = 9
  AddIds = {1, 2}
  CancelIds = {1, 2}
  OrderPrices = {1, 2}
  Quantities = {1}
  Followed = {"BestBidChanged", "BestAskChanged"}
SPECIFICATION RecordedSpec
INVARIANT BestAnnounced
