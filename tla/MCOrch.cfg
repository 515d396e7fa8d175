\* Two connections to two endpoints; a one-slot orch channel, so the
\* fallback to a direct sendWriteBuf happens; one ping may fail.
CONSTANTS
  c1 = c1
  c2 = c2
  Conns = {c1, c2}
  EndpointOf <- TwoEndpoints
  OrchCap = 1
  MaxData = 1
  MaxSpawn = 1
  MaxPings = 2
  MaxFails = 1
  NoConn = NoConn
SPECIFICATION Spec
INVARIANTS TypeOK
PROPERTIES NotStranded
CHECK_DEADLOCK FALSE
