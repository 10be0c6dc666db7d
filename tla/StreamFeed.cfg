SPECIFICATION FairSpec
CONSTANTS
  Stream = {c1, c2}
  MaxClients = 1
  MaxReplay = 2
  ReadCap = 4
  QueueRoom = 2
  MaxNoise = 1
  MaxId = 3
INVARIANTS
  ActiveExact
PROPERTIES
  ImplementsFeed
  EveryEventStreams
CHECK_DEADLOCK FALSE
