\* one device that reconnects, a request, a crash and a lost Redis call
SPECIFICATION FairSpec
CONSTANTS
  d1 = d1
  d2 = d2
  c1 = c1
  c2 = c2
  Devices = {d1, d2}
  Conns = {c1, c2}
  Owner <- OneDevice
  Requests = {r1}
  NoConn = NoConn
  NoDevice = NoDevice
  IdleLimit = 2
  TTL = 2
  MaxCrashes = 1
  MaxRedisFaults = 1
INVARIANTS TypeOK MappedSessionServes CommandsToOwner OrderlySession
PROPERTIES OfflineReplyJustified GoneEndsOffline
