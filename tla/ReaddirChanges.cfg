SPECIFICATION FairSpec
CONSTANTS
  NNames = 5
  Limit = 2
  Counts = {0, 1, 3}
  MaxChanges = 2
  MaxFailures = 1
INVARIANTS
  InOrder
  AsDocumented
PROPERTIES
  ReaddirReturns
