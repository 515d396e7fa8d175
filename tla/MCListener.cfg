\* Two accept loops, one Close from another goroutine; Serve may fail first.
CONSTANTS
  Acceptors = {a1, a2}
  Closers = {stop}
  Deferred <- NoDeferred
  PendCap = 1
  MaxConns = 2
  ServeMayFail = TRUE
SPECIFICATION Spec
INVARIANTS TypeOK
PROPERTIES CloseReturns AcceptSeesClose
CHECK_DEADLOCK FALSE
