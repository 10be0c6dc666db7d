SPECIFICATION FairSpec
CONSTANTS
  i1 = i1
  g = g x1 = x1 a2 = a2 a3 = a3 b2 = b2 b3 = b3 y1 = y1 y2 = y2 y3 = y3
  m1 = m1 m2 = m2 t1 = t1 t2 = t2
  Block <- MCBlock
  Height <- MCHeight
  Parent <- MCParent
  BaselineNumber = 0
  Indexer = {i1}
  Market = {m1, m2}
  LaunchLogs <- MCLaunchLogs
  SwapLogs <- MCSwapLogs
  ConfirmationDepth = 1
  ChunkSize = 1
  MaxReorgDepth = 1
  MaxFlips = 1
  MaxFaults = 1
  None = None
PROPERTIES
  ReorgsAreAnnounced
  ImplementsJournal
  Converges
