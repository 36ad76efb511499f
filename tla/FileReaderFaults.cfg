SPECIFICATION FairSpec
CONSTANTS
  ChunkSize = 3
  PacketChunks = 2
  Start <- TwoBlocks
  Corrupt <- SecondCorrupt
  NDatanodes = 2
  HangUp = {2}
  MaxFailures = 2
  ReadSizes = {0, 1, 2, 4, 8}
  Deadlines = {0, 1}
INVARIANTS
  HealthyBytes
  OffsetsAgree
  FailoverRight
PROPERTIES
  ReadsReturn
