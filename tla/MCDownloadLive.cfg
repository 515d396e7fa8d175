\* A reliable carrier; the server writes two frames and never closes.
CONSTANTS
  Cli = Cli
  Ends = {Cli}
  Chunks <- ChunkIds
  Workers = {r1, r2}
  NFrames = 2
  RespCap = 1
  FramesCap = 1
  MaxFuture = 1
  Faults <- NoFaults
  PeerCloses = FALSE
SPECIFICATION Spec
PROPERTIES Delivery
CHECK_DEADLOCK FALSE
