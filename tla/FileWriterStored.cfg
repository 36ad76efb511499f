SPECIFICATION Spec
CONSTANTS
  BlockSize = 1
  MaxBytes = 2
  MaxSessions = 1
  MaxFailures = 1
  Deadlines = {}
INVARIANT CloseMeansStored
