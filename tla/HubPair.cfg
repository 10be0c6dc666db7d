SPECIFICATION Spec
CONSTANTS
  Socket = {s1, s2, s3}
  Slot = {r1}
  Mortal = {}
  MaxClients = 2
  MaxReplay = 2
  MaxReplayLag = 0
  MaxBuffered = 0
  MaxId = 1
SYMMETRY Interchangeable
INVARIANTS
  TypeOK
  NothingMissed
  ClientsWithinLimit
CHECK_DEADLOCK FALSE
