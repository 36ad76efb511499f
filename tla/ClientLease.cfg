SPECIFICATION FairSpec
CONSTANTS
  Writers = {w1, w2, w3}
  MaxFiles = 4
INVARIANTS
  LeaseSafe
PROPERTIES
  LeaseIsRenewed
  CloseReturns
CHECK_DEADLOCK FALSE
