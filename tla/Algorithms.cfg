SPECIFICATION Spec
CONSTANTS
  VarintBase = 2
  MaxVarintLen = 3
  TailSearchSize = 3
  Files <- MCFiles
  Counts = {0, 1, 2, 3, 4, 10}
  BodyLengths = {0, 1, 2, 3, 5}
  MaxMessages = 3
  BlockBytes = {0, 1, 3}
  Replicas = {1, 3}
  Environments <- MCEnvironments
  Arguments <- MCArguments
  Seconds <- MCSeconds
  SumLists <- MCSumLists
INVARIANTS
  SectionsRight
  FramingRight
  RequestsRight
  ClientRight
  ArgumentsRight
  ChecksumRight
