\* One order of two lines and everything that can happen to it: two transaction
\* jobs, a customer's cancellation, the release job, two crashes and a failing
\* call.
SPECIFICATION Spec
CONSTANTS
  Orders = {o1}
  Classes = {c1}
  Total <- PairTotal
  Carts = {2}
  CartQty <- CartNumber
  CartMaxLine <- OneTicketLines
  Gateways = {"vnpay", "zalopay"}
  HttpCancels = 1
  Callbacks = 2
  TestCalls = TRUE
  MaxAttempts = 3
  MaxCrashes = 2
  MaxFaults = 1
INVARIANTS TypeOK SingleWinner OutcomeAgreement SettledNotPending LifecycleInvariant
           KnownUntilConfirmed LostOnlyWhenCharged SoldMatchesOrders
PROPERTY ImplementsLedger
CHECK_DEADLOCK FALSE
