SPECIFICATION Spec
CONSTANTS
  Orders = {o1}
  Classes = {c1}
  Total <- PairTotal
  Carts = {1}
  CartQty <- CartNumber
  CartMaxLine <- CartNumber
  Gateways = {"vnpay"}
  HttpCancels = 0
  Callbacks = 1
  TestCalls = FALSE
  MaxAttempts = 3
  MaxCrashes = 0
  MaxFaults = 0
INVARIANT PaidAmountAccepted
CHECK_DEADLOCK FALSE
