\* Progress with no failing call: two orders that share the release worker,
\* a notification of each, its retries and a crash; two classes, and two lines
\* of each in a cart.
SPECIFICATION FairSpec
CONSTANTS
  Orders = {o1, o2}
  Classes = {c1, c2}
  Total <- QuadTotal
  Carts = {2}
  CartQty <- CartNumber
  CartMaxLine <- OneTicketLines
  Gateways = {"zalopay"}
  HttpCancels = 0
  Callbacks = 1
  TestCalls = FALSE
  MaxAttempts = 3
  MaxCrashes = 1
  MaxFaults = 0
INVARIANT CountersBalance
PROPERTIES ReservationsResolve JobsSettle
CHECK_DEADLOCK FALSE
