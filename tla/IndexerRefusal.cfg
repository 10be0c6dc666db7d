SPECIFICATION Spec
CONSTANTS
  i1 = i1 i2 = i2
  g = g a1 = a1 b1 = b1 a2 = a2 b2 = b2 c2 = c2 m1 = m1
  Block <- MCBlock
  Height <- MCHeight
  Parent <- MCParent
  BaselineNumber = 0
  Indexer = {i1, i2}
  Market = {m1}
  LaunchLogs <- MCLaunchLogs
  SwapLogs = {}
  ConfirmationDepth = 0
  ChunkSize = 1
  MaxReorgDepth = 2
  MaxFlips = 3
  MaxFaults = 0
  None = None
SYMMETRY Processes
CONSTRAINT Bounded
INVARIANTS
  IndexesNeverRefuse
