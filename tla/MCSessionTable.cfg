CONSTANTS
  d0 = d0
  d1 = d1
  k1 = k1
  k2 = k2
  Shards = {0, 1}
  Devices = {d0, d1}
  Home <- HomeOf
  Getconfs <- Clients
  Keys = {k1, k2}
  Slots = {s1, s2}
  InputCap = 1
  OutputCap = 1
  Prompt = TRUE
  MaxSessions = 2
  MaxRegs = 2
SPECIFICATION Spec
INVARIANTS TablesAgree RoutesLive StreamsServed Reached
SYMMETRY Symmetry
CHECK_DEADLOCK FALSE
