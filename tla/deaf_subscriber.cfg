SPECIFICATION Spec
CONSTANTS
  k1 = k1
  k2 = k2
  s1 = s1
  f1 = f1
  NoFanout = NoFanout
  NoConn = NoConn
  Clients = {k1, k2}
  Slots = {s1}
  Fanouts = {f1}
  EventBuffer = 2
  SendQueue = 2
  MaxEvents = 3
  MaxTroubles = 1
INVARIANTS
  NobodyIsDeaf
CHECK_DEADLOCK FALSE
