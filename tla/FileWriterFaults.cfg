SPECIFICATION FairSpec
CONSTANTS
  BlockSize = 2
  MaxBytes = 5
  MaxSessions = 2
  MaxFailures = 2
  Deadlines = {0, 1}
INVARIANTS
  BlocksRight
  CleanCloseStored
  DeadlineApplied
PROPERTIES
  NoClobber
  CallsReturn
