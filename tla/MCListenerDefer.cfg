\* One accept loop, stopped by a Close from another goroutine, with a
\* `defer ln.Close()` that runs when the loop returns.
CONSTANTS
  Acceptors = {a1}
  Closers = {stop, dfr}
  Deferred = {dfr}
  PendCap = 1
  MaxConns = 1
  ServeMayFail = FALSE
SPECIFICATION Spec
PROPERTIES CloseReturns
CHECK_DEADLOCK FALSE
