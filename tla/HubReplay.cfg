SPECIFICATION FairSpec
CONSTANTS
  Socket = {s1}
  Slot = {r1, r2}
  Mortal = {s1}
  MaxClients = 1
  MaxReplay = 1
  MaxReplayLag = 2
  MaxBuffered = 0
  MaxId = 2
INVARIANTS
  NothingMissed
  SkipsOnlyKnown
PROPERTIES
  EveryEventArrives
  DeadPeersLeave
CHECK_DEADLOCK FALSE
