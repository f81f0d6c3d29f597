SPECIFICATION LiveSpec
CONSTANTS
  k1 = k1
  k2 = k2
  s1 = s1
  f1 = f1
  f2 = f2
  NoFanout = NoFanout
  NoConn = NoConn
  Clients = {k1, k2}
  Slots = {s1}
  Fanouts = {f1, f2}
  EventBuffer = 1
  SendQueue = 1
  MaxEvents = 3
  MaxTroubles = 0
PROPERTIES
  CatchesUp
CHECK_DEADLOCK FALSE
