SPECIFICATION Spec
CONSTANTS
  Orders = {o1, o2}
  Classes = {c1}
  Total <- SingleTotal
  Carts = {1}
  CartQty <- CartNumber
  CartMaxLine <- CartNumber
  Gateways = {"zalopay"}
  HttpCancels = 0
  Callbacks = 0
  TestCalls = FALSE
  MaxAttempts = 3
  MaxCrashes = 0
  MaxFaults = 0
INVARIANT NeverOversold
CHECK_DEADLOCK FALSE
