SPECIFICATION Spec
CONSTANTS
  ChunkSize = 3
  PacketChunks = 2
  Start <- OneBlock
  Corrupt <- FirstCorrupt
  NDatanodes = 2
  HangUp = {}
  MaxFailures = 0
  ReadSizes = {1, 6}
  Deadlines = {}
INVARIANT BytesOfFile
