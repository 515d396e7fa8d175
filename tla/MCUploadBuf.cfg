\* Two concurrent writers against a small write buffer; a reliable carrier.
CONSTANTS
  Cli = Cli
  Srv = Srv
  Ends = {Cli, Srv}
  Chunks <- ChunkIds
  Writers = {w1, w2}
  MaxWrites = 4
  MaxBuf = 1
  PendingCap = 2
  IdxBits = 8
  MaxTries = 2
  MaxSpawn = 1
  FramesCap = 2
  MaxFuture = 2
  Faults <- NoFaults
  PostErr = PostErr
SPECIFICATION Spec
INVARIANTS WriteBufBound
CHECK_DEADLOCK FALSE
