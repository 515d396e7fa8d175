\* Replies may be lost after the server handled the request.
CONSTANTS
  Cli = Cli
  Srv = Srv
  Ends = {Cli, Srv}
  Chunks <- ChunkIds
  Writers = {w1}
  MaxWrites = 2
  MaxBuf = 1
  PendingCap = 2
  IdxBits = 8
  MaxTries = 2
  MaxSpawn = 1
  FramesCap = 2
  MaxFuture = 2
  Faults <- LostReplyFaults
  PostErr = PostErr
SPECIFICATION Spec
PROPERTIES Delivery
CHECK_DEADLOCK FALSE
