\* Two orders of one class, a dashboard, a midnight, a failing call, a crash.
SPECIFICATION AfterSaleSpec
CONSTANTS
  Classes = {c1}
  Orders = {o1, o2}
  Dashboards = {d1}
  MaxDays = 1
  MaxFaults = 1
  MaxCrashes = 1
INVARIANTS AfterSaleTypeOK SalesInvalidate NeverAhead MailedOnce
PROPERTIES StatisticsSettle ConfirmationsArrive
CHECK_DEADLOCK FALSE
