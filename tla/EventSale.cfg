\* Two administrators configure the event while it and its classes are edited
\* and removed, one request may die on its way, and a buyer reads and reserves.
SPECIFICATION Spec
CONSTANTS
  Classes = {c1, c2}
  Quantities = {1}
  Admins = {a1, a2}
  Buyers = {b1}
  Patches = {"DRAFT", "CANCELLED"}
  MaxFaults = 1
INVARIANTS TypeOK SaleOpensComplete BuyersFindTheSale PublishedIsOnSale OneConfigurationSurvives
PROPERTY RemovedGoesOffSale
CHECK_DEADLOCK FALSE
