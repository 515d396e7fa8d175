\* The carrier drops, delays and loses replies; one writer.
CONSTANTS
  Cli = Cli
  Srv = Srv
  Ends = {Cli, Srv}
  Chunks <- ChunkIds
  Writers = {w1}
  MaxWrites = 2
  MaxBuf = 1
  PendingCap = 2
  IdxBits = 8
  MaxTries = 2
  MaxSpawn = 1
  FramesCap = 2
  MaxFuture = 2
  Faults <- AllFaults
  PostErr = PostErr
SPECIFICATION Spec
INVARIANTS TypeOK StreamPrefix
CHECK_DEADLOCK FALSE
