SPECIFICATION Spec
CONSTANTS
  k1 = k1
  s1 = s1
  s2 = s2
  f1 = f1
  f2 = f2
  NoFanout = NoFanout
  NoConn = NoConn
  Clients = {k1}
  Slots = {s1, s2}
  Fanouts = {f1, f2}
  EventBuffer = 1
  SendQueue = 2
  MaxEvents = 4
  MaxTroubles = 1
INVARIANTS
  FanoutIsSound
SYMMETRY DeliverySymmetry
PROPERTIES
  Mirrors
CHECK_DEADLOCK FALSE
