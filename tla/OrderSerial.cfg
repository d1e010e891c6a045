SPECIFICATION SerialSpec
CONSTANTS
  Orders = {o1, o2, o3}
  Classes = {c1}
  Total <- PairTotal
  Carts = {1, 2}
  CartQty <- CartNumber
  CartMaxLine <- CartNumber
  Gateways = {"zalopay"}
  HttpCancels = 1
  Callbacks = 1
  TestCalls = FALSE
  MaxAttempts = 1
  MaxCrashes = 0
  MaxFaults = 0
INVARIANTS NeverOversold StockAccounted
SYMMETRY Symmetry
CHECK_DEADLOCK FALSE
PROPERTY ImplementsStock
