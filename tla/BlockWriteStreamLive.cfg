SPECIFICATION FairSpec
CONSTANTS
  PacketSize = 2
  ChunkSize = 1
  MaxPacketsInQueue = 1
  WireCapacity = 3
  StartOffsets = {0}
  MaxBytes = 2
  MaxHeartbeats = 1
  ExtendsDeadline = FALSE
  Faults = {"conn", "deadline", "status", "seqno"}
PROPERTIES
  CallsReturn
  GoroutinesExit
CHECK_DEADLOCK FALSE
