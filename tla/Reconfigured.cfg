\* Two administrators configure the same event, and a buyer.
SPECIFICATION Spec
CONSTANTS
  Classes = {c1}
  Quantities = {1}
  Admins = {a1, a2}
  Buyers = {b1}
  Patches = {}
  MaxFaults = 0
INVARIANT ReservationsSurvive
CHECK_DEADLOCK FALSE
