SPECIFICATION FairSpec
CONSTANTS
    Invocations <- MCInvocations
    Trees <- MCTrees
    LocalTrees <- MCLocalTrees
    RivalPaths <- MCRivalPaths
    Hidden = {2}
    MaxRivals = 2
    MaxFaults = 2
INVARIANTS
  ExitHonest
  CopyFaithful
  ReportsRight
PROPERTIES
  OnlyArguments
  ChecksHold
  Terminates
