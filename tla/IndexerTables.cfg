SPECIFICATION Spec
CONSTANTS
  i1 = i1
  g = g x1 = x1 a2 = a2 a3 = a3 b2 = b2 b3 = b3 y1 = y1 y2 = y2 y3 = y3
  m1 = m1 m2 = m2 t1 = t1 t2 = t2
  Block <- MCBlock
  Height <- MCHeight
  Parent <- MCParent
  BaselineNumber = 0
  Indexer = {i1}
  Market = {m1, m2}
  LaunchLogs <- MCLaunchLogs
  SwapLogs <- MCSwapLogs
  ConfirmationDepth = 0
  ChunkSize = 2
  MaxReorgDepth = 2
  MaxFlips = 2
  MaxFaults = 0
  None = None
INVARIANTS
  TypeOK
  CanonicalBranch
  LocalCursorCurrent
  DerivedFromCanonical
  TradesBelongToMarkets
  MarketsMatchLogs
  StatsExact
  IndexesNeverRefuse
  OutboxReplaysMarkets
  OutboxReplaysTrades
  PoolCursorsListed
  PoolCursorBehindTip
