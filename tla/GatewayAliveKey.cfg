\* no crash, no Redis fault: the device only reconnects. The clock ticks every
\* second here, so that no time-out belongs to the shortest counterexample
SPECIFICATION Spec
CONSTANTS
  d1 = d1
  d2 = d2
  c1 = c1
  c2 = c2
  Devices = {d1}
  Conns = {c1, c2}
  Owner <- OneDevice
  Requests = {}
  NoConn = NoConn
  NoDevice = NoDevice
  IdleLimit = 60
  TTL = 60
  MaxCrashes = 0
  MaxRedisFaults = 0
PROPERTY AliveKeepsKey
