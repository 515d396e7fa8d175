\* A reliable carrier; the client application may close at any time.
CONSTANTS
  Cli = Cli
  Ends = {Cli}
  Chunks <- ChunkIds
  Workers = {r1, r2}
  NFrames = 1
  RespCap = 1
  FramesCap = 1
  MaxFuture = 1
  Faults <- NoFaults
  PeerCloses = FALSE
SPECIFICATION Spec
INVARIANTS NoPanic
CHECK_DEADLOCK FALSE
