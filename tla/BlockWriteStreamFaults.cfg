SPECIFICATION Spec
CONSTANTS
  PacketSize = 4
  ChunkSize = 2
  MaxPacketsInQueue = 1
  WireCapacity = 3
  StartOffsets = {0, 1}
  MaxBytes = 2
  MaxHeartbeats = 1
  ExtendsDeadline = TRUE
  Faults = {"conn", "deadline", "status", "seqno"}
INVARIANTS
  FinishedMeansStored
  AckedMeansStored
  NoSendOnClosedChannel
  PacketsRight
  FramesIntact
  NoSpuriousAckError
PROPERTIES
  Refinement
