\* One client read side fed frames 1..3 in any order by the respLoop workers.
CONSTANTS
  Ends = {c}
  Chunks = {1, 2, 3}
  FramesCap = 2
  MaxFuture = 1
  NFrames = 3
  PostErr = PostErr
SPECIFICATION Spec
INVARIANTS TypeOK
PROPERTIES ReadStreamRefined Delivery CloseWakesReader
CHECK_DEADLOCK FALSE
