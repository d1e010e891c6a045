\* Five requests about one address, of any kinds.
SPECIFICATION Spec
CONSTANTS
  Requests = {r1, r2, r3, r4, r5}
  Plain = {"plain"}
  MaxFaults = 1
INVARIANTS TypeOK OwnMailVerifies SessionsStayApart
PROPERTIES VerificationSticks UsedTokensRefused
SYMMETRY Symmetry
CHECK_DEADLOCK FALSE
