\* Lost replies, body timeouts, peer and application closes.
CONSTANTS
  Cli = Cli
  Ends = {Cli}
  Chunks <- ChunkIds
  Workers = {r1, r2}
  NFrames = 2
  RespCap = 1
  FramesCap = 1
  MaxFuture = 1
  Faults <- AllFaults
  PeerCloses = TRUE
SPECIFICATION Spec
INVARIANTS TypeOK
PROPERTIES TeardownCompletes
CHECK_DEADLOCK FALSE
