SPECIFICATION FairSpec
CONSTANTS
  Orders = {o1}
  Classes = {c1}
  Total <- PairTotal
  Carts = {1}
  CartQty <- CartNumber
  CartMaxLine <- CartNumber
  Gateways = {"zalopay"}
  HttpCancels = 0
  Callbacks = 1
  TestCalls = FALSE
  MaxAttempts = 3
  MaxCrashes = 0
  MaxFaults = 1
PROPERTY ChargedIsFulfilled
CHECK_DEADLOCK FALSE
