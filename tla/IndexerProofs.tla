--------------------------- MODULE IndexerProofs ---------------------------
(***************************************************************************)
(* What holds of the indexer for every block tree, every set of logs and   *)
(* every bound: first however many indexer processes share the database,   *)
(* then with one.                                                          *)
(***************************************************************************)
EXTENDS Indexer, FiniteSetTheorems, TLAPS

\* What the local variables l of an indexer at step s hold, with cursor t.
Ready(t, s, l) ==
  /\ s \in {"tip", "walk", "rollback", "scan", "block", "commit"} =>
       t # None /\ l.cur \in Block
  /\ s = "reload" => t # None
  /\ s \in {"create", "rollback", "commit"} => l.block \in Block
  /\ s = "create" => Height[l.block] = BaselineNumber
  /\ s \in {"block", "commit"} => l.logs \subseteq LaunchLogs
  /\ s = "commit" =>
       \A k \in l.logs : Height[k.block] = Height[l.block] => k.block = l.block
  /\ s \in {"poolLogs", "poolCommit"} => l.pool \in Market
  /\ s = "poolCommit" => l.logs \subseteq SwapLogs

LocalReady == \A i \in Indexer : Ready(tip, pc[i], loc[i])

LaunchesAboveBaseline ==
  \A m \in Market : launchedIn[m] # None => LaunchHeight(m) > BaselineNumber

\* TypeOK is not inductive: whether a value has its type depends on the step
\* an indexer is at, and the clamp of a pool cursor on its market being there.
TypeInv == TypeOK /\ LocalReady /\ LaunchesAboveBaseline /\ PoolCursorsListed

----------------------------------------------------------------------------
(* The types of what the operators of the model return *)

\* The head of a chain is one of its blocks, and its number a natural.
LEMMA HeadNumberNat ==
  ASSUME NEW C \in Chains
  PROVE  HeadNumber(C) \in Nat
<1>1. PICK h \in C : IsHead(h, C)
  BY DEF Chains
<1>2. (CHOOSE x \in C : IsHead(x, C)) \in C
  BY <1>1
<1> QED
  BY <1>2, BlockTreeAssumption DEF HeadNumber, Chains

\* A set of trades is finite, so it can be counted.
LEMMA SwapsFinite ==
  ASSUME NEW S \in SUBSET SwapLogs
  PROVE  IsFiniteSet(S) /\ Cardinality(S) \in Nat
BY IndexerAssumption, FS_Subset, FS_CardinalityType

LEMMA ConfirmedHeadNat ==
  ASSUME TypeOK, NEW i \in Indexer
  PROVE  ConfirmedHead(i) \in Nat
<1>1. loc[i].head \in Nat
  BY DEF TypeOK, LocalType, Loc
<1> QED
  BY <1>1, IndexerAssumption DEF ConfirmedHead

\* An indexer that moves to a step it is ready for keeps the local part of
\* the invariant, since no step takes the cursor row away.
LEMMA LocalStep ==
  ASSUME LocalType, LocalReady, NEW i \in Indexer, NEW s \in Steps, NEW l \in Loc,
         Goto(i, s), Keep(i, l), tip # None => tip' # None, Ready(tip', s, l)
  PROVE  LocalType' /\ LocalReady'
<1>1. LocalType'
  BY DEF LocalType, Goto, Keep
<1>2. ASSUME NEW j \in Indexer PROVE Ready(tip, pc[j], loc[j])'
  <2>1. CASE j = i
    BY <2>1 DEF LocalType, Goto, Keep, Ready
  <2>2. CASE j # i
    <3>1. pc'[j] = pc[j] /\ loc'[j] = loc[j]
      BY <2>2 DEF LocalType, Goto, Keep
    <3> QED
      BY <3>1 DEF LocalReady, Ready
  <2> QED
    BY <2>1, <2>2
<1> QED
  BY <1>1, <1>2 DEF LocalReady

LEMMA EmptyLocType ==
  /\ EmptyLoc \in Loc
  /\ "idle" \in Steps /\ \A t : Ready(t, "idle", EmptyLoc)
BY DEF EmptyLoc, Loc, Steps, Ready

\* The local variables after a read of the logs of a range.
LEMMA RangeLocType ==
  ASSUME NEW l \in Loc, NEW u \in Int, NEW ls \in SUBSET (LaunchLogs \cup SwapLogs)
  PROVE  [l EXCEPT !.upto = u, !.number = 0, !.logs = ls] \in Loc
<1>1. [l EXCEPT !.upto = u] \in Loc
  BY DEF Loc
<1>2. \A k \in Loc : [k EXCEPT !.number = 0] \in Loc
  BY DEF Loc
<1>3. \A k \in Loc : [k EXCEPT !.logs = ls] \in Loc
  BY DEF Loc
<1> QED
  BY <1>1, <1>2, <1>3

\* ... after a rollback, after a chunk and after a pool range.
LEMMA ContinueLocType ==
  ASSUME NEW l \in Loc
  PROVE  /\ [l EXCEPT !.block = None, !.number = 0] \in Loc
         /\ \A b \in Block : /\ [l EXCEPT !.cur = b, !.block = None] \in Loc
                            /\ [l EXCEPT !.cur = b, !.block = None, !.logs = {}, !.upto = 0] \in Loc
         /\ [l EXCEPT !.pool = None, !.logs = {}, !.upto = 0] \in Loc
<1>1. \A k \in Loc : /\ \A b \in Block : [k EXCEPT !.cur = b] \in Loc
                     /\ [k EXCEPT !.block = None] \in Loc
                     /\ [k EXCEPT !.number = 0] \in Loc
                     /\ [k EXCEPT !.logs = {}] \in Loc
                     /\ [k EXCEPT !.upto = 0] \in Loc
                     /\ [k EXCEPT !.pool = None] \in Loc
  BY DEF Loc
<1>2. [l EXCEPT !.block = None] \in Loc
  BY <1>1
<1>3. [l EXCEPT !.block = None, !.number = 0] \in Loc
  BY <1>1, <1>2
<1>4. ASSUME NEW b \in Block
      PROVE  /\ [l EXCEPT !.cur = b, !.block = None] \in Loc
             /\ [l EXCEPT !.cur = b, !.block = None, !.logs = {}, !.upto = 0] \in Loc
  <2>1. [l EXCEPT !.cur = b] \in Loc
    BY <1>1
  <2>2. [l EXCEPT !.cur = b, !.block = None] \in Loc
    BY <1>1, <2>1
  <2>3. [l EXCEPT !.cur = b, !.block = None, !.logs = {}] \in Loc
    BY <1>1, <2>2
  <2> QED
    BY <1>1, <2>2, <2>3
<1>5. [l EXCEPT !.pool = None, !.logs = {}] \in Loc
  BY <1>1
<1> QED
  BY <1>1, <1>3, <1>4, <1>5

\* An attempt that ends, or starts over, leaves its indexer in order.
LEMMA AbortKeepsLocal ==
  ASSUME TypeOK, LocalReady, NEW i \in Indexer, NEW s \in Statuses, Abort(i, s),
         UNCHANGED tip
  PROVE  /\ LocalType' /\ LocalReady'
         /\ status' \in Statuses
<1>1. status' \in Statuses
  BY DEF Abort, SetStatus, TypeOK, CursorType, Statuses
<1> QED
  BY <1>1, EmptyLocType, LocalStep DEF Abort, TypeOK

LEMMA RaceKeepsLocal ==
  ASSUME TypeOK, LocalReady, NEW i \in Indexer, Race(i), UNCHANGED tip
  PROVE  /\ LocalType' /\ LocalReady'
         /\ status' \in Statuses
<1>1. CASE loc[i].attempt < 2 /\ Goto(i, "head")
           /\ Keep(i, [EmptyLoc EXCEPT !.attempt = loc[i].attempt + 1])
           /\ UNCHANGED status
  <2> DEFINE l == [EmptyLoc EXCEPT !.attempt = loc[i].attempt + 1]
  <2>1. loc[i] \in Loc
    BY DEF TypeOK, LocalType
  <2>2. l \in Loc
    BY <1>1, <2>1 DEF EmptyLoc, Loc
  <2>3. Ready(tip', "head", l) /\ "head" \in Steps
    BY DEF Ready, Steps
  <2>4. status' \in Statuses
    BY <1>1 DEF TypeOK, CursorType
  <2> HIDE DEF l
  <2>5. Goto(i, "head") /\ Keep(i, l)
    BY <1>1 DEF l
  <2> QED
    BY <2>2, <2>3, <2>4, <2>5, LocalStep DEF TypeOK
<1>2. CASE Abort(i, "stale")
  BY <1>2, AbortKeepsLocal DEF Statuses
<1> QED
  BY <1>1, <1>2 DEF Race

----------------------------------------------------------------------------
(* What a rollback to the block a makes of the tables *)

LEMMA RollbackTypes ==
  ASSUME TypeOK, LaunchesAboveBaseline, PoolCursorsListed, NEW a \in Block, tip \in Block
  PROVE  /\ KeptBlocks(a) \in SUBSET Block
         /\ KeptLogs(a) \in SUBSET (LaunchLogs \cup SwapLogs)
         /\ MarketsAfterRollback(a) \in [Market -> Block \cup {None}]
         /\ TradesAfterRollback(a) \in [SwapLogs -> {"absent", "canonical", "orphaned"}]
         /\ StatsAfterRollback(a) \in [Market -> Nat]
         /\ PoolsAfterRollback(a) \in [Market -> Nat \cup {NoPool}]
         /\ RollbackEvents(a) \in SUBSET Events
<1> USE DEF TypeOK, TableType
<1>1. KeptBlocks(a) \in SUBSET Block
  BY DEF KeptBlocks, UpTo
<1>2. KeptLogs(a) \in SUBSET (LaunchLogs \cup SwapLogs)
  BY DEF KeptLogs
<1>3. MarketsAfterRollback(a) \in [Market -> Block \cup {None}]
  BY DEF MarketsAfterRollback
<1>4. TradesAfterRollback(a) \in [SwapLogs -> {"absent", "canonical", "orphaned"}]
  BY DEF TradesAfterRollback
<1>5. StatsAfterRollback(a) \in [Market -> Nat]
  <2>1. \A t, m : CanonicalTrades(t, m) \in SUBSET SwapLogs
    BY DEF CanonicalTrades
  <2> QED
    BY <2>1, SwapsFinite DEF StatsAfterRollback
<1>6. PoolsAfterRollback(a) \in [Market -> Nat \cup {NoPool}]
  <2> SUFFICES ASSUME NEW m \in Market, poolThrough[m] > Height[a],
                      m \notin RemovedMarkets(a)
               PROVE  Max2(LaunchHeight(m) - 1, Height[a]) \in Nat
    BY DEF PoolsAfterRollback
  <2>1. Height[a] \in Nat
    BY BlockTreeAssumption
  <2>2. poolThrough[m] # NoPool
    BY <2>1 DEF NoPool
  <2>3. launchedIn[m] \in Block
    BY <2>2 DEF PoolCursorsListed
  <2> QED
    BY <2>1, <2>3, BlockTreeAssumption DEF Max2, LaunchHeight
<1>7. RollbackEvents(a) \in SUBSET Events
  <2>1. OrphanedTrades(a) \in SUBSET SwapLogs /\ RemovedMarkets(a) \in SUBSET Market
    BY DEF OrphanedTrades, RemovedMarkets
  <2>2. RetainedAffected(a) \in SUBSET Market
    BY <2>1, IndexerAssumption DEF RetainedAffected
  <2>3. generation \in Nat /\ generation + 1 \in Nat
    BY DEF CursorType
  <2>4. Reorg(tip, a, generation + 1) \in Events
    BY <2>3 DEF Reorg, Events
  <2>5. \A s \in OrphanedTrades(a) : TradeReorg(s) \in Events
    BY <2>1 DEF TradeReorg, Events
  <2>6. \A m \in RetainedAffected(a) : Rebuilt(m) \in Events
    BY <2>2 DEF Rebuilt, Events
  <2>7. \A m \in RemovedMarkets(a) : Removed(m, generation + 1) \in Events
    BY <2>1, <2>3 DEF Removed, Events
  <2> QED
    BY <2>4, <2>5, <2>6, <2>7 DEF RollbackEvents
<1> QED
  BY <1>1, <1>2, <1>3, <1>4, <1>5, <1>6, <1>7

\* The facts about markets and pool cursors that make their types inductive.
LEMMA RollbackKeepsMarkets ==
  ASSUME TypeOK, LaunchesAboveBaseline, PoolCursorsListed, NEW a \in Block,
         launchedIn' = MarketsAfterRollback(a), poolThrough' = PoolsAfterRollback(a)
  PROVE  LaunchesAboveBaseline' /\ PoolCursorsListed'
<1> USE DEF TypeOK, TableType
<1>1. LaunchesAboveBaseline'
  BY DEF LaunchesAboveBaseline, MarketsAfterRollback, LaunchHeight
<1>2. PoolCursorsListed'
  <2> SUFFICES ASSUME NEW m \in Market, poolThrough'[m] # NoPool
               PROVE  launchedIn'[m] # None /\ LaunchHeight(m)' - 1 <= poolThrough'[m]
    BY DEF PoolCursorsListed
  <2>1. m \notin RemovedMarkets(a)
    BY DEF PoolsAfterRollback
  <2>2. launchedIn'[m] = launchedIn[m] /\ LaunchHeight(m)' = LaunchHeight(m)
    BY <2>1 DEF MarketsAfterRollback, LaunchHeight
  <2>3. Height[a] \in Nat
    BY BlockTreeAssumption
  <2>4. poolThrough[m] # NoPool
    BY <2>1, <2>3 DEF PoolsAfterRollback, NoPool
  <2>5. launchedIn[m] \in Block /\ LaunchHeight(m) \in Nat /\ LaunchHeight(m) - 1 <= poolThrough[m]
    BY <2>4, BlockTreeAssumption DEF PoolCursorsListed, LaunchHeight
  <2>6. poolThrough[m] \in Nat
    BY <2>4
  <2>7. poolThrough'[m] = IF poolThrough[m] > Height[a]
                          THEN Max2(LaunchHeight(m) - 1, Height[a]) ELSE poolThrough[m]
    BY <2>1 DEF PoolsAfterRollback
  <2>8. LaunchHeight(m) - 1 <= poolThrough'[m]
    BY <2>3, <2>5, <2>6, <2>7 DEF Max2
  <2> QED
    BY <2>2, <2>5, <2>8, IndexerAssumption
<1> QED
  BY <1>1, <1>2
----------------------------------------------------------------------------
(* What a committed block and a committed pool range make of the tables *)

LEMMA CommitTypes ==
  ASSUME TypeOK, NEW b \in Block, NEW ls \in SUBSET LaunchLogs
  PROVE  /\ MarketsAfterCommit(b, ls) \in [Market -> Block \cup {None}]
         /\ CommitEvents(ls) \in SUBSET Events
<1>1. generation \in Nat
  BY DEF TypeOK, CursorType
<1>2. \A l \in ls : Launched(l, generation) \in Events
  BY <1>1 DEF Launched, Events
<1> QED
  BY <1>2 DEF MarketsAfterCommit, CommitEvents, TypeOK, TableType

\* A committed launch is above the baseline; a market that was there stays.
LEMMA CommitKeepsMarkets ==
  ASSUME TypeOK, LaunchesAboveBaseline, PoolCursorsListed,
         NEW b \in Block, NEW ls \in SUBSET LaunchLogs, \A l \in ls : l.block = b,
         launchedIn' = MarketsAfterCommit(b, ls), UNCHANGED poolThrough
  PROVE  LaunchesAboveBaseline' /\ PoolCursorsListed'
<1> USE DEF TypeOK, TableType
<1>1. LaunchesAboveBaseline'
  <2> SUFFICES ASSUME NEW m \in Market, launchedIn'[m] # None
               PROVE  Height[launchedIn'[m]] > BaselineNumber
    BY DEF LaunchesAboveBaseline, LaunchHeight
  <2>1. CASE launchedIn'[m] = launchedIn[m]
    BY <2>1 DEF LaunchesAboveBaseline, LaunchHeight
  <2>2. CASE launchedIn'[m] = b /\ \E l \in ls : l.market = m
    BY <2>2, IndexerAssumption
  <2> QED
    BY <2>1, <2>2 DEF MarketsAfterCommit
<1>2. ASSUME NEW m \in Market, poolThrough[m] # NoPool
      PROVE  launchedIn'[m] # None /\ Height[launchedIn'[m]] - 1 <= poolThrough[m]
  BY <1>2 DEF PoolCursorsListed, MarketsAfterCommit, LaunchHeight
<1> QED
  BY <1>1, <1>2 DEF PoolCursorsListed, LaunchHeight

LEMMA TradeTypes ==
  ASSUME TypeOK, NEW ss \in SUBSET SwapLogs
  PROVE  /\ TradesAfterCommit(ss) \in [SwapLogs -> {"absent", "canonical", "orphaned"}]
         /\ StatsAfterCommit(ss) \in [Market -> Nat]
         /\ { TradeUpsert(s) : s \in NewTrades(ss) } \in SUBSET Events
<1> USE DEF TypeOK, TableType
<1>1. TradesAfterCommit(ss) \in [SwapLogs -> {"absent", "canonical", "orphaned"}]
  BY DEF TradesAfterCommit
<1>2. StatsAfterCommit(ss) \in [Market -> Nat]
  <2> DEFINE New(m) == { s \in NewTrades(ss) : s.market = m }
             N(m)   == Cardinality(New(m))
  <2>1. ASSUME NEW m \in Market PROVE N(m) \in Nat
    <3>1. New(m) \in SUBSET SwapLogs
      BY DEF NewTrades
    <3> QED
      BY <3>1, SwapsFinite
  <2>2. StatsAfterCommit(ss) = [m \in Market |-> stats[m] + N(m)]
    BY Zenon DEF StatsAfterCommit
  <2> HIDE DEF N
  <2> QED
    BY <2>1, <2>2
<1>3. \A s \in NewTrades(ss) : TradeUpsert(s) \in Events
  BY DEF TradeUpsert, Events, NewTrades
<1> QED
  BY <1>1, <1>2, <1>3

LEMMA PoolRowTypes ==
  ASSUME TypeOK, LaunchesAboveBaseline, PoolCursorsListed, NEW n \in Nat
  PROVE  /\ PoolRows(n) \in [Market -> Nat \cup {NoPool}]
         /\ \A m \in Market : PoolRows(n)[m] # NoPool =>
              launchedIn[m] # None /\ LaunchHeight(m) - 1 <= PoolRows(n)[m]
<1> USE DEF TypeOK, TableType
<1>1. \A m \in Market : launchedIn[m] # None => LaunchHeight(m) - 1 \in Nat
  <2> SUFFICES ASSUME NEW m \in Market, launchedIn[m] # None
               PROVE  LaunchHeight(m) - 1 \in Nat
    OBVIOUS
  <2>1. LaunchHeight(m) \in Nat /\ LaunchHeight(m) > BaselineNumber
    BY BlockTreeAssumption DEF LaunchesAboveBaseline, LaunchHeight
  <2> QED
    BY <2>1, BlockTreeAssumption
<1>2. PoolRows(n) \in [Market -> Nat \cup {NoPool}]
  BY <1>1 DEF PoolRows
<1> QED
  BY <1>1, <1>2 DEF PoolRows, PoolCursorsListed

\* A step that leaves the tables alone keeps what is known of them.
LEMMA TablesUntouched ==
  ASSUME TypeInv, UNCHANGED journal
  PROVE  TableType' /\ LaunchesAboveBaseline' /\ PoolCursorsListed'
BY DEF TypeInv, TypeOK, TableType, LaunchesAboveBaseline, PoolCursorsListed,
       LaunchHeight, journal, derived
----------------------------------------------------------------------------
(* Type correctness *)

LEMMA TypeInit == Init => TypeInv
<1> SUFFICES ASSUME Init PROVE TypeInv
  OBVIOUS
<1> USE DEF Init
<1>1. EnvType
  BY IndexerAssumption DEF EnvType
<1>2. LocalType /\ LocalReady
  BY EmptyLocType DEF LocalType, LocalReady
<1>3. CursorType
  BY DEF CursorType, Statuses
<1>4. TableType
  BY DEF TableType
<1>5. LaunchesAboveBaseline /\ PoolCursorsListed
  BY DEF LaunchesAboveBaseline, PoolCursorsListed
<1> QED
  BY <1>1, <1>2, <1>3, <1>4, <1>5 DEF TypeInv, TypeOK

\* The steps that only move an indexer on, and perhaps touch the cursor row.
LEMMA TypeQuietSteps ==
  ASSUME TypeInv, NEW i \in Indexer,
         \/ Start(i) \/ Initialize(i) \/ ReadHead(i) \/ OpenCursor(i)
         \/ CheckTip(i) \/ Walk(i) \/ MissingBlock(i) \/ ReadLogs(i) \/ EndScan(i)
         \/ ReadPoolLogs(i) \/ ReloadCursor(i) \/ ReadBaseline(i) \/ ReadBlock(i)
  PROVE  TypeInv'
<1> USE DEF TypeInv, TypeOK
<1>1. loc[i] \in Loc /\ Ready(tip, pc[i], loc[i])
  BY DEF LocalType, LocalReady
<1>2. remote \in Chains /\ remote \in SUBSET Block
  BY DEF EnvType, Chains
<1>3. TableType' /\ LaunchesAboveBaseline' /\ PoolCursorsListed'
  <2>1. UNCHANGED journal
    BY DEF Start, Initialize, ReadHead, OpenCursor, CheckTip, Walk, MissingBlock,
           ReadLogs, EndScan, ReadPoolLogs, ReloadCursor,
           ReadBaseline, ReadBlock
  <2> QED
    BY <2>1, TablesUntouched
<1>4. UNCHANGED env /\ UNCHANGED tip
  BY DEF Start, Initialize, ReadHead, OpenCursor, CheckTip, Walk, MissingBlock,
         ReadLogs, EndScan, ReadPoolLogs, ReloadCursor,
           ReadBaseline, ReadBlock, cursor
<1>5. EnvType'
  BY <1>4 DEF EnvType, env
<1> SUFFICES LocalType' /\ LocalReady' /\ CursorType'
  BY <1>3, <1>5
<1>10. CASE Start(i)
  <2>1. "init" \in Steps /\ Ready(tip', "init", loc[i]) /\ Keep(i, loc[i])
    BY <1>10 DEF Start, Steps, Ready, Keep, LocalType
  <2>2. LocalType' /\ LocalReady'
    BY <1>1, <1>4, <1>10, <2>1, LocalStep DEF Start
  <2> QED
    BY <1>10, <2>2 DEF Start, CursorType, cursor
<1>11. CASE Initialize(i)
  <2>1. "head" \in Steps /\ Ready(tip', "head", loc[i]) /\ Keep(i, loc[i])
    BY <1>11 DEF Initialize, Steps, Ready, Keep, LocalType
  <2>2. LocalType' /\ LocalReady'
    BY <1>1, <1>4, <1>11, <2>1, LocalStep DEF Initialize
  <2> QED
    BY <1>11, <2>2 DEF Initialize, SetStatus, CursorType, Statuses
<1>12. CASE ReadHead(i)
  <2> DEFINE l == [loc[i] EXCEPT !.head = HeadNumber(remote)]
  <2>1. l \in Loc
    BY <1>1, <1>2, HeadNumberNat DEF Loc
  <2>2. "open" \in Steps /\ Ready(tip', "open", l) /\ Goto(i, "open") /\ Keep(i, l)
    BY <1>12 DEF ReadHead, Steps, Ready
  <2> HIDE DEF l
  <2>3. LocalType' /\ LocalReady'
    BY <1>4, <2>1, <2>2, LocalStep
  <2> QED
    BY <1>12, <2>3 DEF ReadHead, CursorType, cursor
<1>13. CASE OpenCursor(i)
  <2>1. CASE tip = None
    <3>1. /\ "baseline" \in Steps /\ Ready(tip', "baseline", loc[i])
          /\ Goto(i, "baseline") /\ Keep(i, loc[i])
      BY <1>13, <2>1 DEF OpenCursor, Steps, Ready, Keep, LocalType
    <3>2. LocalType' /\ LocalReady'
      BY <1>1, <1>4, <3>1, LocalStep
    <3> QED
      BY <1>13, <2>1, <3>2 DEF OpenCursor, CursorType
  <2>2. CASE tip # None
    <3> DEFINE l == [loc[i] EXCEPT !.cur = tip]
    <3>1. l \in Loc
      BY <1>1 DEF Loc, CursorType
    <3>2. "tip" \in Steps /\ Ready(tip', "tip", l) /\ Goto(i, "tip") /\ Keep(i, l)
      BY <1>1, <1>4, <1>13, <2>2 DEF OpenCursor, Steps, Ready, CursorType, Loc
    <3> HIDE DEF l
    <3>3. LocalType' /\ LocalReady'
      BY <1>4, <3>1, <3>2, LocalStep
    <3>4. Max2(observed, loc[i].head) \in Nat
      BY <1>1 DEF Max2, CursorType, Loc
    <3> QED
      BY <1>13, <2>2, <3>3, <3>4 DEF OpenCursor, CursorType
  <2> QED
    BY <2>1, <2>2
<1>14. CASE CheckTip(i)
  <2>0. CursorType'
    BY <1>14 DEF CheckTip, CursorType, cursor
  <2>1. tip # None /\ loc[i].cur \in Block
    BY <1>1, <1>14 DEF Ready, CheckTip, At_
  <2>2. CASE Goto(i, "scan") /\ UNCHANGED loc
    <3>1. "scan" \in Steps /\ Ready(tip', "scan", loc[i]) /\ Keep(i, loc[i])
      BY <1>4, <2>1, <2>2 DEF Steps, Ready, Keep, LocalType
    <3> QED
      BY <1>1, <1>4, <2>0, <2>2, <3>1, LocalStep
  <2>3. CASE Goto(i, "walk") /\ Keep(i, [loc[i] EXCEPT !.number = Height[loc[i].cur]])
    <3> DEFINE l == [loc[i] EXCEPT !.number = Height[loc[i].cur]]
    <3>1. l \in Loc
      BY <1>1, <2>1, BlockTreeAssumption DEF Loc
    <3>2. "walk" \in Steps /\ Ready(tip', "walk", l) /\ Keep(i, l)
      BY <1>1, <1>4, <2>1, <2>3 DEF Steps, Ready, Loc
    <3> HIDE DEF l
    <3> QED
      BY <1>4, <2>0, <2>3, <3>1, <3>2, LocalStep
  <2> QED
    BY <1>14, <2>2, <2>3 DEF CheckTip
<1>15. CASE Walk(i)
  <2>1. tip # None /\ loc[i].cur \in Block /\ At_(i, "walk")
    BY <1>1, <1>15 DEF Ready, Walk, At_
  <2>2. ASSUME NEW a \in At(remote, loc[i].number), Keep(i, [loc[i] EXCEPT !.block = a]),
               Goto(i, "rollback"), UNCHANGED status
        PROVE  LocalType' /\ LocalReady' /\ CursorType'
    <3> DEFINE l == [loc[i] EXCEPT !.block = a]
    <3>1. l \in Loc /\ a \in Block
      BY <1>1, <1>2 DEF Loc, At
    <3>2. "rollback" \in Steps /\ Ready(tip', "rollback", l) /\ Keep(i, l)
      BY <1>1, <1>4, <2>1, <2>2, <3>1 DEF Steps, Ready, Loc
    <3> HIDE DEF l
    <3>3. LocalType' /\ LocalReady'
      BY <1>4, <2>2, <3>1, <3>2, LocalStep
    <3> QED
      BY <1>15, <2>2, <3>3 DEF Walk, CursorType
  <2>3. CASE Keep(i, [loc[i] EXCEPT !.number = loc[i].number - 1]) /\ UNCHANGED <<pc, status>>
    <3> DEFINE l == [loc[i] EXCEPT !.number = loc[i].number - 1]
    <3>1. l \in Loc
      BY <1>1 DEF Loc
    <3>2. "walk" \in Steps /\ Ready(tip', "walk", l) /\ Goto(i, "walk") /\ Keep(i, l)
      BY <1>1, <1>4, <2>1, <2>3 DEF Steps, Ready, Loc, Goto, LocalType, At_
    <3> HIDE DEF l
    <3>3. LocalType' /\ LocalReady'
      BY <1>4, <3>1, <3>2, LocalStep
    <3> QED
      BY <1>15, <2>3, <3>3 DEF Walk, CursorType
  <2>4. CASE Abort(i, "halted")
    <3>1. LocalType' /\ LocalReady' /\ status' \in Statuses
      BY <1>4, <2>4, AbortKeepsLocal DEF Statuses
    <3> QED
      BY <1>15, <3>1 DEF Walk, CursorType
  <2> QED
    BY <1>15, <2>2, <2>3, <2>4 DEF Walk
<1>16. CASE MissingBlock(i)
  <2>1. LocalType' /\ LocalReady' /\ status' \in Statuses
    BY <1>4, <1>16, AbortKeepsLocal DEF Statuses, MissingBlock
  <2> QED
    BY <1>16, <2>1 DEF MissingBlock, CursorType
<1>17. CASE ReadLogs(i)
  <2> DEFINE from == Height[loc[i].cur] + 1
             upto == Min2(ConfirmedHead(i), from + ChunkSize - 1)
             l == [loc[i] EXCEPT !.upto = upto,
                     !.logs = { k \in LaunchLogs : /\ k.block \in remote
                                                   /\ Height[k.block] \in from..upto }]
  <2>1. tip # None /\ loc[i].cur \in Block
    BY <1>1, <1>17 DEF Ready, ReadLogs, At_
  <2>2. upto \in Int
    BY <2>1, ConfirmedHeadNat, BlockTreeAssumption, IndexerAssumption DEF Min2
  <2>3. Goto(i, "block") /\ Keep(i, l)
    BY <1>17 DEF ReadLogs
  <2> HIDE DEF upto
  <2>4. l \in Loc
    BY <1>1, <2>2 DEF Loc
  <2>5. "block" \in Steps /\ Ready(tip', "block", l)
    BY <1>1, <1>4, <2>1 DEF Steps, Ready, Loc
  <2> HIDE DEF l
  <2>6. LocalType' /\ LocalReady'
    BY <1>4, <2>3, <2>4, <2>5, LocalStep
  <2> QED
    BY <1>17, <2>6 DEF ReadLogs, CursorType, cursor
<1>18. CASE EndScan(i)
  <2>1. "pools" \in Steps /\ Ready(tip', "pools", loc[i]) /\ Keep(i, loc[i])
    BY <1>18 DEF EndScan, Steps, Ready, Keep, LocalType
  <2>2. LocalType' /\ LocalReady'
    BY <1>1, <1>4, <1>18, <2>1, LocalStep DEF EndScan
  <2> QED
    BY <1>18, <2>2 DEF EndScan, CursorType, cursor
<1>19. CASE ReadPoolLogs(i)
  <2> DEFINE from == loc[i].number
             upto == Min2(ConfirmedHead(i), from + ChunkSize - 1)
             ss == { s \in SwapLogs : /\ s.block \in remote
                                      /\ s.market = loc[i].pool
                                      /\ Height[s.block] \in from..upto }
             l == [loc[i] EXCEPT !.upto = upto, !.number = 0, !.logs = ss]
  <2>1. loc[i].pool \in Market
    BY <1>1, <1>19 DEF Ready, ReadPoolLogs, At_
  <2>2. upto \in Int
    BY <1>1, ConfirmedHeadNat, IndexerAssumption DEF Min2, Loc
  <2>3. Goto(i, "poolCommit") /\ Keep(i, l)
    BY <1>19 DEF ReadPoolLogs
  <2>4. ss \in SUBSET SwapLogs /\ ss \in SUBSET (LaunchLogs \cup SwapLogs)
    OBVIOUS
  <2> HIDE DEF ss, upto
  <2>5. l \in Loc
    BY <1>1, <2>2, <2>4, RangeLocType
  <2>6. "poolCommit" \in Steps /\ Ready(tip', "poolCommit", l)
    BY <1>1, <2>1, <2>4 DEF Steps, Ready, Loc
  <2> HIDE DEF l
  <2>7. LocalType' /\ LocalReady'
    BY <1>4, <2>3, <2>5, <2>6, LocalStep
  <2> QED
    BY <1>19, <2>7 DEF ReadPoolLogs, CursorType, cursor
<1>20. CASE ReloadCursor(i)
  <2> DEFINE l == [loc[i] EXCEPT !.cur = tip]
  <2>1. tip \in Block /\ l \in Loc
    BY <1>1, <1>20 DEF ReloadCursor, At_, Ready, CursorType, Loc
  <2>2. "scan" \in Steps /\ Ready(tip', "scan", l)
    BY <1>1, <1>4, <2>1, IndexerAssumption DEF Steps, Ready, Loc
  <2>3. Goto(i, "scan") /\ Keep(i, l)
    BY <1>20 DEF ReloadCursor
  <2> HIDE DEF l
  <2>4. LocalType' /\ LocalReady'
    BY <1>4, <2>1, <2>2, <2>3, LocalStep
  <2> QED
    BY <1>20, <2>4 DEF ReloadCursor, CursorType, cursor
<1>21. CASE ReadBaseline(i)
  <2>1. PICK b \in At(remote, BaselineNumber) : Keep(i, [loc[i] EXCEPT !.block = b])
    BY <1>21 DEF ReadBaseline
  <2> DEFINE l == [loc[i] EXCEPT !.block = b]
  <2>2. l \in Loc /\ b \in Block /\ Height[b] = BaselineNumber
    BY <1>1, <1>2 DEF Loc, At
  <2>3. "create" \in Steps /\ Ready(tip', "create", l) /\ Goto(i, "create") /\ Keep(i, l)
    BY <1>1, <1>21, <2>1, <2>2 DEF ReadBaseline, Steps, Ready, Loc
  <2> HIDE DEF l
  <2>4. LocalType' /\ LocalReady'
    BY <1>4, <2>2, <2>3, LocalStep
  <2> QED
    BY <1>21, <2>4 DEF ReadBaseline, CursorType, cursor
<1>22. CASE ReadBlock(i)
  <2>1. tip # None /\ loc[i].cur \in Block /\ loc[i].logs \subseteq LaunchLogs
    BY <1>1, <1>22 DEF Ready, ReadBlock, At_
  <2>2. CASE Race(i)
    <3>1. LocalType' /\ LocalReady' /\ status' \in Statuses
      BY <1>4, <2>2, RaceKeepsLocal
    <3> QED
      BY <1>22, <3>1 DEF ReadBlock, CursorType
  <2>3. ASSUME NEW b \in At(remote, Height[loc[i].cur] + 1), BlockFits(i, b),
               Goto(i, "commit"), Keep(i, [loc[i] EXCEPT !.block = b]), UNCHANGED status
        PROVE  LocalType' /\ LocalReady' /\ CursorType'
    <3> DEFINE l == [loc[i] EXCEPT !.block = b]
    <3>1. l \in Loc /\ b \in Block
      BY <1>1, <1>2 DEF Loc, At
    <3>2. \A k \in loc[i].logs : Height[k.block] = Height[b] => k.block = b
      BY <2>3 DEF BlockFits, LogsOf
    <3>3. "commit" \in Steps /\ Ready(tip', "commit", l) /\ Keep(i, l)
      BY <1>1, <1>4, <2>1, <2>3, <3>1, <3>2 DEF Steps, Ready, Loc
    <3> HIDE DEF l
    <3>4. LocalType' /\ LocalReady'
      BY <1>4, <2>3, <3>1, <3>3, LocalStep
    <3> QED
      BY <1>22, <2>3, <3>4 DEF ReadBlock, CursorType
  <2> QED
    BY <1>22, <2>2, <2>3 DEF ReadBlock
<1> QED
  BY <1>21, <1>22, <1>10, <1>11, <1>12, <1>13, <1>14, <1>15, <1>16, <1>17, <1>18, <1>19, <1>20
LEMMA TypeInitializeCursor ==
  ASSUME TypeInv, NEW i \in Indexer, InitializeCursor(i)
  PROVE  TypeInv'
<1> USE DEF TypeInv, TypeOK
<1> DEFINE b == loc[i].block
<1>1. At_(i, "create")
  BY DEF InitializeCursor
<1>2. UNCHANGED <<env, derived, poolThrough, outbox>>
  BY DEF InitializeCursor
<1>3. loc[i] \in Loc /\ b \in Block /\ b # None
  BY <1>1, IndexerAssumption DEF LocalType, LocalReady, Ready, At_
<1>4. EnvType' /\ LaunchesAboveBaseline' /\ PoolCursorsListed'
  BY <1>2 DEF env, derived, EnvType, LaunchesAboveBaseline, PoolCursorsListed, LaunchHeight
<1>5. CASE /\ Abort(i, "stale")
           /\ UNCHANGED <<tip, observed, generation, chainBlocks>>
  <2>1. LocalType' /\ LocalReady' /\ status' \in Statuses
    BY <1>5, AbortKeepsLocal DEF Statuses
  <2> QED
    BY <1>2, <1>4, <1>5, <2>1 DEF derived, CursorType, TableType
<1>6. CASE /\ Goto(i, "tip")
           /\ chainBlocks' = chainBlocks \cup {b}
           /\ tip' = IF tip = None THEN b ELSE tip
           /\ Keep(i, [loc[i] EXCEPT !.cur = tip', !.block = None])
           /\ observed' = Max2(observed, Max2(loc[i].head, BaselineNumber))
           /\ status' = IF tip = None THEN "syncing" ELSE status
           /\ UNCHANGED generation
  <2> DEFINE l == [loc[i] EXCEPT !.cur = tip', !.block = None]
  <2>1. tip' \in Block /\ tip' # None
    BY <1>3, <1>6, IndexerAssumption DEF CursorType
  <2>2. l \in Loc
    BY <1>3, <2>1, ContinueLocType
  <2>3. "tip" \in Steps /\ Ready(tip', "tip", l) /\ Keep(i, l)
    BY <1>3, <1>6, <2>1 DEF Steps, Ready, Loc
  <2> HIDE DEF l
  <2>4. LocalType' /\ LocalReady'
    BY <1>6, <2>1, <2>2, <2>3, LocalStep
  <2>5. Max2(observed, Max2(loc[i].head, BaselineNumber)) \in Nat
    BY <1>3, BlockTreeAssumption DEF Loc, CursorType, Max2
  <2>6. CursorType'
    BY <1>6, <2>1, <2>5 DEF CursorType, Statuses
  <2>7. TableType'
    BY <1>2, <1>3, <1>6 DEF derived, TableType
  <2> QED
    BY <1>4, <2>4, <2>6, <2>7
<1> QED
  BY <1>5, <1>6 DEF InitializeCursor

LEMMA TypeRollback ==
  ASSUME TypeInv, NEW i \in Indexer, Rollback(i)
  PROVE  TypeInv'
<1> USE DEF TypeInv, TypeOK
<1>1. At_(i, "rollback") /\ UNCHANGED <<env, observed>>
  BY DEF Rollback
<1>2. loc[i] \in Loc /\ tip \in Block /\ loc[i].block \in Block
  BY <1>1 DEF LocalType, LocalReady, Ready, At_, CursorType
<1>3. EnvType'
  BY <1>1 DEF env, EnvType
<1>4. CASE tip \in At(chainBlocks, Height[loc[i].cur])
  <2> DEFINE a == loc[i].block
             l == [loc[i] EXCEPT !.block = None, !.number = 0]
  <2>1. /\ tip' = a /\ generation' = generation + 1 /\ status' = "syncing"
        /\ chainBlocks' = KeptBlocks(a) /\ rawLogs' = KeptLogs(a)
        /\ launchedIn' = MarketsAfterRollback(a) /\ trades' = TradesAfterRollback(a)
        /\ stats' = StatsAfterRollback(a) /\ poolThrough' = PoolsAfterRollback(a)
        /\ outbox' = Append(outbox, RollbackEvents(a))
        /\ Goto(i, "reload") /\ Keep(i, l)
    BY <1>4 DEF Rollback
  <2>2. CursorType'
    BY <1>1, <1>2, <2>1 DEF CursorType, Statuses
  <2>3. /\ KeptBlocks(a) \in SUBSET Block
        /\ KeptLogs(a) \in SUBSET (LaunchLogs \cup SwapLogs)
        /\ MarketsAfterRollback(a) \in [Market -> Block \cup {None}]
        /\ TradesAfterRollback(a) \in [SwapLogs -> {"absent", "canonical", "orphaned"}]
        /\ StatsAfterRollback(a) \in [Market -> Nat]
        /\ PoolsAfterRollback(a) \in [Market -> Nat \cup {NoPool}]
        /\ RollbackEvents(a) \in SUBSET Events
    BY <1>2, RollbackTypes
  <2>4. outbox' \in Seq(SUBSET Events)
    BY <2>1, <2>3 DEF TableType
  <2>5. TableType'
    BY <2>1, <2>3, <2>4 DEF TableType
  <2>6. LaunchesAboveBaseline' /\ PoolCursorsListed'
    BY <1>2, <2>1, RollbackKeepsMarkets
  <2>7. l \in Loc
    BY <1>2, ContinueLocType
  <2>8. tip' # None /\ "reload" \in Steps /\ Ready(tip', "reload", l)
    BY <1>2, <2>1, IndexerAssumption DEF Steps, Ready, Loc
  <2> HIDE DEF l
  <2>9. LocalType' /\ LocalReady'
    BY <2>1, <2>7, <2>8, LocalStep
  <2> QED
    BY <1>3, <2>2, <2>5, <2>6, <2>9
<1>5. CASE tip \notin At(chainBlocks, Height[loc[i].cur])
  <2>1. Abort(i, "stale") /\ UNCHANGED <<tip, generation, journal>>
    BY <1>5 DEF Rollback
  <2>2. LocalType' /\ LocalReady' /\ status' \in Statuses
    BY <2>1, AbortKeepsLocal DEF Statuses
  <2>3. TableType' /\ LaunchesAboveBaseline' /\ PoolCursorsListed'
    BY <2>1, TablesUntouched
  <2> QED
    BY <1>1, <1>3, <2>1, <2>2, <2>3 DEF CursorType
<1> QED
  BY <1>4, <1>5
LEMMA TypeCommitBlock ==
  ASSUME TypeInv, NEW i \in Indexer, CommitBlock(i)
  PROVE  TypeInv'
<1> USE DEF TypeInv, TypeOK
<1> DEFINE b == loc[i].block
           ls == LogsOf(i, b)
<1>1. At_(i, "commit") /\ UNCHANGED <<env, generation, trades, stats, poolThrough>>
  BY DEF CommitBlock
<1>2. /\ loc[i] \in Loc /\ tip \in Block /\ b \in Block /\ b # None
      /\ ls \in SUBSET LaunchLogs /\ \A k \in ls : k.block = b
  BY <1>1, IndexerAssumption DEF LocalType, LocalReady, Ready, At_, CursorType, LogsOf
<1>3. EnvType'
  BY <1>1 DEF env, EnvType
<1>4. CASE ~(CursorFits(b) /\ ~LaunchIndexRefuses(ls))
  <2>1. /\ Abort(i, "stale") \/ Race(i)
        /\ UNCHANGED <<tip, observed, chainBlocks, rawLogs, launchedIn, outbox>>
    BY <1>4 DEF CommitBlock
  <2>2. LocalType' /\ LocalReady' /\ status' \in Statuses
    BY <2>1, RaceKeepsLocal, AbortKeepsLocal DEF Statuses
  <2>3. TableType' /\ LaunchesAboveBaseline' /\ PoolCursorsListed'
    BY <1>1, <2>1, TablesUntouched DEF journal, derived
  <2> QED
    BY <1>1, <1>3, <2>1, <2>2, <2>3 DEF CursorType
<1>5. CASE CursorFits(b) /\ ~LaunchIndexRefuses(ls)
  <2>1. /\ tip' = b /\ observed' = Max2(observed, Max2(loc[i].head, Height[b]))
        /\ status' = "live"
        /\ chainBlocks' = chainBlocks \cup {b} /\ rawLogs' = rawLogs \cup ls
        /\ launchedIn' = MarketsAfterCommit(b, ls)
        /\ outbox' = IF ls = {} THEN outbox ELSE Append(outbox, CommitEvents(ls))
    BY <1>5 DEF CommitBlock
  <2>2. /\ MarketsAfterCommit(b, ls) \in [Market -> Block \cup {None}]
        /\ CommitEvents(ls) \in SUBSET Events
    BY <1>2, CommitTypes
  <2>3. Max2(observed, Max2(loc[i].head, Height[b])) \in Nat
    BY <1>2, BlockTreeAssumption DEF Loc, CursorType, Max2
  <2>4. CursorType'
    BY <1>1, <1>2, <2>1, <2>3 DEF CursorType, Statuses
  <2>5. LaunchesAboveBaseline' /\ PoolCursorsListed'
    BY <1>1, <1>2, <2>1, CommitKeepsMarkets
  <2>6. LocalType' /\ LocalReady'
    <3>1. CASE Height[b] < loc[i].upto
      <4> DEFINE l == [loc[i] EXCEPT !.cur = b, !.block = None]
      <4>1. l \in Loc
        BY <1>2, ContinueLocType
      <4>2. Goto(i, "block") /\ Keep(i, l)
        BY <1>5, <3>1 DEF CommitBlock
      <4>3. "block" \in Steps /\ Ready(tip', "block", l)
        BY <1>1, <1>2, <2>1 DEF Steps, Ready, Loc, At_, LocalReady
      <4> HIDE DEF l
      <4> QED
        BY <1>2, <2>1, <4>1, <4>2, <4>3, LocalStep
    <3>2. CASE ~(Height[b] < loc[i].upto)
      <4> DEFINE l == [loc[i] EXCEPT !.cur = b, !.block = None, !.logs = {}, !.upto = 0]
      <4>1. l \in Loc
        BY <1>2, ContinueLocType
      <4>2. Goto(i, "scan") /\ Keep(i, l)
        BY <1>5, <3>2 DEF CommitBlock
      <4>3. "scan" \in Steps /\ Ready(tip', "scan", l)
        BY <1>2, <2>1 DEF Steps, Ready, Loc
      <4> HIDE DEF l
      <4> QED
        BY <1>2, <2>1, <4>1, <4>2, <4>3, LocalStep
    <3> QED
      BY <3>1, <3>2
  <2> HIDE DEF ls
  <2>7. TableType'
    <3>1. outbox' \in Seq(SUBSET Events)
      BY <2>1, <2>2 DEF TableType
    <3> QED
      BY <1>1, <1>2, <2>1, <2>2, <3>1 DEF TableType
  <2> QED
    BY <1>3, <2>4, <2>5, <2>6, <2>7
<1> QED
  BY <1>4, <1>5

LEMMA TypeLoadPools ==
  ASSUME TypeInv, NEW i \in Indexer, LoadPools(i)
  PROVE  TypeInv'
<1> USE DEF TypeInv, TypeOK
<1> DEFINE n == ConfirmedHead(i)
           rows == PoolRows(n)
<1>1. /\ At_(i, "pools") /\ poolThrough' = rows
      /\ UNCHANGED <<env, tip, observed, generation, chainBlocks, derived, outbox>>
  BY DEF LoadPools
<1>2. loc[i] \in Loc /\ n \in Nat
  BY ConfirmedHeadNat DEF LocalType
<1>3. /\ rows \in [Market -> Nat \cup {NoPool}]
      /\ \A m \in Market : rows[m] # NoPool =>
           launchedIn[m] # None /\ LaunchHeight(m) - 1 <= rows[m]
  BY <1>2, PoolRowTypes
<1>4. EnvType' /\ TableType'
  BY <1>1, <1>3 DEF env, EnvType, derived, TableType
<1>5. LaunchesAboveBaseline' /\ PoolCursorsListed'
  BY <1>1, <1>3 DEF derived, LaunchesAboveBaseline, PoolCursorsListed, LaunchHeight
<1>6. LocalType' /\ LocalReady' /\ status' \in Statuses
  <2>1. CASE Abort(i, "live")
    BY <1>1, <2>1, AbortKeepsLocal DEF Statuses
  <2>2. ASSUME NEW m \in Pending(rows, n), Goto(i, "poolLogs"), UNCHANGED status,
               Keep(i, [loc[i] EXCEPT !.pool = m,
                                      !.number = Max2(rows[m] + 1, LaunchHeight(m))])
        PROVE  LocalType' /\ LocalReady' /\ status' \in Statuses
    <3> DEFINE v == Max2(rows[m] + 1, LaunchHeight(m))
               l == [loc[i] EXCEPT !.pool = m, !.number = v]
    <3>1. m \in Market /\ rows[m] \in Nat /\ launchedIn[m] # None
      BY <1>3, <2>2 DEF Pending
    <3>2. LaunchHeight(m) \in Nat
      BY <3>1, BlockTreeAssumption DEF LaunchHeight, TableType
    <3>3. v \in Int
      BY <3>1, <3>2 DEF Max2
    <3>4. Keep(i, l)
      BY <2>2
    <3> HIDE DEF v
    <3>5. l \in Loc
      BY <1>2, <3>1, <3>3 DEF Loc
    <3>6. "poolLogs" \in Steps /\ Ready(tip', "poolLogs", l)
      BY <1>2, <3>1 DEF Steps, Ready, Loc
    <3> HIDE DEF l
    <3>7. LocalType' /\ LocalReady'
      BY <1>1, <2>2, <3>4, <3>5, <3>6, LocalStep
    <3> QED
      BY <2>2, <3>7 DEF CursorType
  <2> QED
    BY <2>1, <2>2 DEF LoadPools
<1> QED
  BY <1>1, <1>4, <1>5, <1>6 DEF CursorType
LEMMA TypeCommitPool ==
  ASSUME TypeInv, NEW i \in Indexer, CommitPool(i)
  PROVE  TypeInv'
<1> USE DEF TypeInv, TypeOK
<1> DEFINE m == loc[i].pool
           ss == loc[i].logs
<1>1. At_(i, "poolCommit") /\ UNCHANGED <<env, tip, observed, generation, chainBlocks, launchedIn>>
  BY DEF CommitPool
<1>2. loc[i] \in Loc /\ m \in Market /\ ss \in SUBSET SwapLogs /\ loc[i].upto \in Int
  BY <1>1 DEF LocalType, LocalReady, Ready, At_, Loc
<1>3. EnvType'
  BY <1>1 DEF env, EnvType
<1>4. CASE (\A s \in ss : TradeAccepted(s)) /\ ~TradeIndexRefuses(ss)
  <2> DEFINE l == [loc[i] EXCEPT !.pool = None, !.logs = {}, !.upto = 0]
             ups == { TradeUpsert(s) : s \in NewTrades(ss) }
  <2>1. /\ rawLogs' = rawLogs \cup ss
        /\ trades' = TradesAfterCommit(ss)
        /\ stats' = StatsAfterCommit(ss)
        /\ poolThrough' = IF poolThrough[m] = NoPool THEN poolThrough
                          ELSE [poolThrough EXCEPT ![m] = Max2(@, loc[i].upto)]
        /\ outbox' = IF NewTrades(ss) = {} THEN outbox ELSE Append(outbox, ups)
        /\ Goto(i, "pools") /\ Keep(i, l) /\ UNCHANGED status
    BY <1>4 DEF CommitPool
  <2>2. /\ TradesAfterCommit(ss) \in [SwapLogs -> {"absent", "canonical", "orphaned"}]
        /\ StatsAfterCommit(ss) \in [Market -> Nat]
        /\ ups \in SUBSET Events
    BY <1>2, TradeTypes
  <2> HIDE DEF ups
  <2>3. poolThrough' \in [Market -> Nat \cup {NoPool}]
    <3>1. CASE poolThrough[m] = NoPool
      BY <2>1, <3>1 DEF TableType
    <3>2. CASE poolThrough[m] # NoPool
      <4>1. Max2(poolThrough[m], loc[i].upto) \in Nat
        BY <1>2, <3>2 DEF TableType, Max2
      <4> QED
        BY <2>1, <3>2, <4>1 DEF TableType
    <3> QED
      BY <3>1, <3>2
  <2>4. outbox' \in Seq(SUBSET Events)
    BY <2>1, <2>2 DEF TableType
  <2>5. TableType'
    BY <1>1, <1>2, <2>1, <2>2, <2>3, <2>4 DEF TableType
  <2>6. ASSUME NEW k \in Market, poolThrough'[k] # NoPool
        PROVE  launchedIn[k] # None /\ LaunchHeight(k) - 1 <= poolThrough'[k]
    <3>1. poolThrough[k] # NoPool
      BY <2>1, <2>6 DEF TableType
    <3>2. launchedIn[k] # None /\ LaunchHeight(k) - 1 <= poolThrough[k]
      BY <3>1 DEF PoolCursorsListed
    <3>3. poolThrough[k] \in Nat /\ LaunchHeight(k) \in Nat
      BY <3>1, <3>2, BlockTreeAssumption DEF TableType, LaunchHeight
    <3>4. poolThrough'[k] = poolThrough[k] \/ poolThrough'[k] = Max2(poolThrough[k], loc[i].upto)
      BY <2>1 DEF TableType
    <3>5. poolThrough'[k] >= poolThrough[k] /\ poolThrough'[k] \in Int
      BY <1>2, <3>3, <3>4 DEF Max2
    <3> QED
      BY <3>2, <3>3, <3>5
  <2>7. LaunchesAboveBaseline' /\ PoolCursorsListed'
    BY <1>1, <2>6 DEF LaunchesAboveBaseline, PoolCursorsListed, LaunchHeight
  <2>8. l \in Loc
    BY <1>2, ContinueLocType
  <2>9. "pools" \in Steps /\ Ready(tip', "pools", l)
    BY DEF Steps, Ready
  <2> HIDE DEF l
  <2>10. LocalType' /\ LocalReady'
    BY <1>1, <2>1, <2>8, <2>9, LocalStep
  <2> QED
    BY <1>1, <1>3, <2>1, <2>5, <2>7, <2>10 DEF CursorType
<1>5. CASE ~((\A s \in ss : TradeAccepted(s)) /\ ~TradeIndexRefuses(ss))
  <2>1. Abort(i, "stale") /\ UNCHANGED <<rawLogs, trades, stats, poolThrough, outbox>>
    BY <1>5 DEF CommitPool
  <2>2. LocalType' /\ LocalReady' /\ status' \in Statuses
    BY <1>1, <2>1, AbortKeepsLocal DEF Statuses
  <2>3. TableType' /\ LaunchesAboveBaseline' /\ PoolCursorsListed'
    BY <1>1, <2>1, TablesUntouched DEF journal, derived
  <2> QED
    BY <1>1, <1>3, <2>2, <2>3 DEF CursorType
<1> QED
  BY <1>4, <1>5

LEMMA TypeDisturb ==
  ASSUME TypeInv, NEW i \in Indexer, Disturb(i)
  PROVE  TypeInv'
<1> USE DEF TypeInv, TypeOK
<1>1. /\ faults < MaxFaults /\ faults' = faults + 1
      /\ UNCHANGED <<remote, flips, tip, observed, generation, journal>>
  BY DEF Disturb, RefuseRegistry, Fault, Crash, RemovedLog, cursor
<1>2. EnvType'
  BY <1>1, IndexerAssumption DEF EnvType
<1>3. TableType' /\ LaunchesAboveBaseline' /\ PoolCursorsListed'
  BY <1>1, TablesUntouched
<1>4. LocalType' /\ LocalReady' /\ status' \in Statuses
  <2>1. CASE RefuseRegistry(i)
    BY <1>1, <2>1, AbortKeepsLocal DEF RefuseRegistry, Statuses
  <2>2. CASE Fault(i)
    BY <1>1, <2>2, AbortKeepsLocal DEF Fault, Statuses
  <2>3. CASE Crash(i)
    <3>1. Goto(i, "idle") /\ Keep(i, EmptyLoc) /\ UNCHANGED status
      BY <2>3 DEF Crash, cursor
    <3> QED
      BY <1>1, <3>1, EmptyLocType, LocalStep DEF CursorType
  <2>4. CASE RemovedLog(i)
    BY <1>1, <2>4, RaceKeepsLocal DEF RemovedLog
  <2> QED
    BY <2>1, <2>2, <2>3, <2>4 DEF Disturb
<1> QED
  BY <1>1, <1>2, <1>3, <1>4 DEF CursorType

LEMMA TypeRemote ==
  ASSUME TypeInv, RemoteGrow \/ RemoteFlip \/ UNCHANGED vars
  PROVE  TypeInv'
<1> USE DEF TypeInv, TypeOK
<1>1. UNCHANGED <<faults, local, cursor, journal>>
  BY DEF RemoteGrow, RemoteFlip, vars, env
<1>2. EnvType'
  <2>1. remote' \in Chains
    <3>1. CASE RemoteGrow
      BY <3>1 DEF RemoteGrow
    <3>2. CASE RemoteFlip
      BY <3>2 DEF RemoteFlip
    <3>3. CASE UNCHANGED vars
      BY <3>3 DEF vars, env, EnvType
    <3> QED
      BY <3>1, <3>2, <3>3
  <2>2. flips' \in 0..MaxFlips /\ faults' \in 0..MaxFaults
    BY <1>1, IndexerAssumption DEF EnvType, RemoteGrow, RemoteFlip, vars, env
  <2> QED
    BY <2>1, <2>2 DEF EnvType
<1>3. TableType' /\ LaunchesAboveBaseline' /\ PoolCursorsListed'
  BY <1>1, TablesUntouched
<1>4. LocalType' /\ LocalReady' /\ CursorType'
  BY <1>1 DEF local, cursor, LocalType, LocalReady, Ready, CursorType
<1> QED
  BY <1>2, <1>3, <1>4

LEMMA TypeNext == TypeInv /\ [Next]_vars => TypeInv'
<1> SUFFICES ASSUME TypeInv, [Next]_vars PROVE TypeInv'
  OBVIOUS
<1>1. CASE \E i \in Indexer : Step(i)
  BY <1>1, TypeQuietSteps, TypeInitializeCursor, TypeRollback, TypeCommitBlock,
     TypeLoadPools, TypeCommitPool DEF Step
<1>2. CASE \E i \in Indexer : Disturb(i)
  BY <1>2, TypeDisturb
<1>3. CASE RemoteGrow \/ RemoteFlip \/ UNCHANGED vars
  BY <1>3, TypeRemote
<1> QED
  BY <1>1, <1>2, <1>3 DEF Next

\* Whatever the node answers and however many indexers share the database,
\* every variable keeps its type, and a pool cursor row always belongs to a
\* listed market.
THEOREM TypeCorrect == Spec => []TypeInv
BY TypeInit, TypeNext, PTL DEF Spec

THEOREM TypesHold == Spec => []TypeOK
<1>1. TypeInv => TypeOK
  BY DEF TypeInv
<1> QED
  BY <1>1, TypeCorrect, PTL

\* Foreign key and rollback never leave a pool cursor row behind: it belongs
\* to a listed market and is no older than its launch.
THEOREM PoolCursorsStayListed == Spec => []PoolCursorsListed
<1>1. TypeInv => PoolCursorsListed
  BY DEF TypeInv
<1> QED
  BY <1>1, TypeCorrect, PTL
----------------------------------------------------------------------------
(* Who writes the tables *)

Writers(i) ==
  InitializeCursor(i) \/ Rollback(i) \/ CommitBlock(i) \/ LoadPools(i) \/ CommitPool(i)

LEMMA OthersWriteNothing ==
  ASSUME [Next]_vars
  PROVE  UNCHANGED <<tip, generation, journal>> \/ \E i \in Indexer : Writers(i)
<1>1. ASSUME NEW i \in Indexer, Step(i)
      PROVE  UNCHANGED <<tip, generation, journal>> \/ Writers(i)
  BY <1>1 DEF Step, Start, Initialize, ReadHead, OpenCursor, CheckTip, Walk,
              MissingBlock, ReadLogs, EndScan, ReadPoolLogs, ReloadCursor, ReadBaseline,
              ReadBlock, Writers, cursor
<1>2. ASSUME NEW i \in Indexer, Disturb(i)
      PROVE  UNCHANGED <<tip, generation, journal>>
  BY <1>2 DEF Disturb, RefuseRegistry, Fault, Crash, RemovedLog, cursor
<1>3. CASE RemoteGrow \/ RemoteFlip \/ UNCHANGED vars
  BY <1>3 DEF RemoteGrow, RemoteFlip, vars, cursor
<1> QED
  BY <1>1, <1>2, <1>3 DEF Next

----------------------------------------------------------------------------
(* The trade counters *)

LEMMA StatsAfterRollbackExact ==
  ASSUME TypeOK, StatsExact, NEW a \in Block, NEW m \in Market
  PROVE  StatsAfterRollback(a)[m] = Cardinality(CanonicalTrades(TradesAfterRollback(a), m))
<1> DEFINE T == CanonicalTrades(TradesAfterRollback(a), m)
<1>1. CASE m \in RemovedMarkets(a)
  <2>1. T = {}
    BY <1>1 DEF CanonicalTrades, TradesAfterRollback
  <2> QED
    BY <1>1, <2>1, FS_EmptySet DEF StatsAfterRollback
<1>2. CASE m \notin RemovedMarkets(a) /\ m \in RetainedAffected(a)
  BY <1>2, Zenon DEF StatsAfterRollback
<1>3. CASE m \notin RemovedMarkets(a) /\ m \notin RetainedAffected(a)
  <2>1. \A s \in SwapLogs : s.market = m => s \notin OrphanedTrades(a)
    BY <1>3 DEF RetainedAffected
  <2>2. \A s \in SwapLogs : s.market = m => TradesAfterRollback(a)[s] = trades[s]
    BY <1>3, <2>1 DEF TradesAfterRollback
  <2>3. T = CanonicalTrades(trades, m)
    BY <2>2 DEF CanonicalTrades
  <2>4. StatsAfterRollback(a)[m] = stats[m]
    BY <1>3, Zenon DEF StatsAfterRollback
  <2> QED
    BY <2>3, <2>4 DEF StatsExact
<1> QED
  BY <1>1, <1>2, <1>3

LEMMA StatsAfterCommitExact ==
  ASSUME TypeOK, StatsExact, NEW ss \in SUBSET SwapLogs, NEW m \in Market
  PROVE  StatsAfterCommit(ss)[m] = Cardinality(CanonicalTrades(TradesAfterCommit(ss), m))
<1> DEFINE S == CanonicalTrades(trades, m)
           N == { s \in NewTrades(ss) : s.market = m }
<1>1. S \in SUBSET SwapLogs /\ N \in SUBSET SwapLogs
  BY DEF CanonicalTrades, NewTrades
<1>2. CanonicalTrades(TradesAfterCommit(ss), m) = S \cup N
  BY DEF CanonicalTrades, TradesAfterCommit, NewTrades
<1>3. S \cap N = {}
  BY DEF CanonicalTrades, NewTrades
<1>4. StatsAfterCommit(ss)[m] = stats[m] + Cardinality(N)
  BY Zenon DEF StatsAfterCommit
<1>5. stats[m] = Cardinality(S)
  BY DEF StatsExact
<1> HIDE DEF S, N
<1>6. Cardinality(S \cup N) = Cardinality(S) + Cardinality(N) - Cardinality(S \cap N)
  BY <1>1, SwapsFinite, FS_Union
<1>7. Cardinality(S \cap N) = 0
  BY <1>3, FS_EmptySet
<1> QED
  BY <1>1, <1>2, <1>4, <1>5, <1>6, <1>7, SwapsFinite

LEMMA StatsNext == TypeInv /\ StatsExact /\ [Next]_vars => StatsExact'
<1> SUFFICES ASSUME TypeInv, StatsExact, [Next]_vars PROVE StatsExact'
  OBVIOUS
<1>1. CASE UNCHANGED <<trades, stats>>
  BY <1>1 DEF StatsExact, CanonicalTrades
<1>2. ASSUME NEW i \in Indexer, Rollback(i), ~UNCHANGED <<trades, stats>>
      PROVE  StatsExact'
  <2>1. loc[i].block \in Block
    BY <1>2 DEF TypeInv, LocalReady, Ready, Rollback, At_
  <2>2. stats' = StatsAfterRollback(loc[i].block) /\ trades' = TradesAfterRollback(loc[i].block)
    BY <1>2 DEF Rollback, journal, derived
  <2>3. \A m \in Market : stats'[m] = Cardinality(CanonicalTrades(trades', m))
    BY <2>1, <2>2, StatsAfterRollbackExact DEF TypeInv
  <2> QED
    BY <2>3 DEF StatsExact, CanonicalTrades
<1>3. ASSUME NEW i \in Indexer, CommitPool(i), ~UNCHANGED <<trades, stats>>
      PROVE  StatsExact'
  <2>1. loc[i].logs \in SUBSET SwapLogs
    BY <1>3 DEF TypeInv, LocalReady, Ready, CommitPool, At_
  <2>2. stats' = StatsAfterCommit(loc[i].logs) /\ trades' = TradesAfterCommit(loc[i].logs)
    BY <1>3 DEF CommitPool
  <2>3. \A m \in Market : stats'[m] = Cardinality(CanonicalTrades(trades', m))
    BY <2>1, <2>2, StatsAfterCommitExact DEF TypeInv
  <2> QED
    BY <2>3 DEF StatsExact, CanonicalTrades
<1>4. \/ UNCHANGED <<trades, stats>>
      \/ \E i \in Indexer : Rollback(i) \/ CommitPool(i)
  BY OthersWriteNothing
     DEF Writers, InitializeCursor, CommitBlock, LoadPools, journal, derived
<1> QED
  BY <1>1, <1>2, <1>3, <1>4

\* The counter a market shows is the number of its canonical trades, though
\* it is kept by increments, conflicting inserts and recounts of rollbacks.
THEOREM StatsAlwaysExact == Spec => []StatsExact
<1>1. Init => StatsExact
  <2>1. ASSUME Init, NEW m \in Market PROVE CanonicalTrades(trades, m) = {}
    BY <2>1 DEF Init, CanonicalTrades
  <2> QED
    BY <2>1, FS_EmptySet DEF Init, StatsExact
<1> QED
  BY <1>1, StatsNext, TypeCorrect, PTL DEF Spec
----------------------------------------------------------------------------
(* The outbox as a log of the markets and trades tables *)

\* One more transaction decides alone, or leaves the last word as it was.
LEMMA PresentAfterAppend ==
  ASSUME NEW o \in Seq(SUBSET Events), NEW X \in SUBSET Events, NEW A, NEW R
  PROVE  Present(Append(o, X), A, R) <=>
           X \cap R = {} /\ (X \cap A # {} \/ Present(o, A, R))
<1> DEFINE p == Append(o, X)
           n == Len(o)
<1>1. n \in Nat /\ Len(p) = n + 1 /\ p[n + 1] = X /\ \A k \in 1..n : p[k] = o[k]
  OBVIOUS
<1> HIDE DEF p, n
<1>2. ASSUME Present(p, A, R)
      PROVE  X \cap R = {} /\ (X \cap A # {} \/ Present(o, A, R))
  <2>1. PICK j \in 1..(n + 1) : p[j] \cap A # {} /\ \A k \in j..(n + 1) : p[k] \cap R = {}
    BY <1>1, <1>2 DEF Present
  <2>2. X \cap R = {}
    BY <1>1, <2>1
  <2>3. CASE j = n + 1
    BY <1>1, <2>1, <2>2, <2>3
  <2>4. CASE j \in 1..n
    <3>1. o[j] \cap A # {} /\ \A k \in j..n : o[k] \cap R = {}
      BY <1>1, <2>1, <2>4
    <3> QED
      BY <2>2, <2>4, <3>1 DEF Present, n
  <2> QED
    BY <1>1, <2>1, <2>3, <2>4
<1>3. ASSUME X \cap R = {}, X \cap A # {}
      PROVE  Present(p, A, R)
  <2>1. n + 1 \in 1..Len(p) /\ \A k \in (n + 1)..Len(p) : k = n + 1
    BY <1>1
  <2> QED
    BY <1>1, <1>3, <2>1 DEF Present
<1>4. ASSUME X \cap R = {}, Present(o, A, R)
      PROVE  Present(p, A, R)
  <2>1. PICK j \in 1..n : o[j] \cap A # {} /\ \A k \in j..n : o[k] \cap R = {}
    BY <1>4 DEF Present, n
  <2>2. j \in 1..Len(p) /\ p[j] \cap A # {}
    BY <1>1, <2>1
  <2>3. \A k \in j..Len(p) : p[k] \cap R = {}
    BY <1>1, <1>4, <2>1
  <2> QED
    BY <2>2, <2>3 DEF Present
<1> QED
  BY <1>2, <1>3, <1>4 DEF p

LEMMA PresentInNothing ==
  ASSUME NEW A, NEW R
  PROVE  ~Present(<<>>, A, R)
BY DEF Present
\* A rollback announces the removal of the markets it removes, of no other,
\* and launches none.
LEMMA RollbackMarketEvents ==
  ASSUME TypeOK, NEW a \in Block, tip \in Block, RollbackEvents(a) \in SUBSET Events,
         NEW m \in Market
  PROVE  /\ RollbackEvents(a) \cap LaunchesOf(m) = {}
         /\ RollbackEvents(a) \cap RemovalsOf(m) # {} <=> m \in RemovedMarkets(a)
<1>1. RollbackEvents(a) \cap LaunchesOf(m) = {}
  BY DEF RollbackEvents, LaunchesOf, Reorg, TradeReorg, Rebuilt, Removed
<1>2. \A e \in RollbackEvents(a) \cap RemovalsOf(m) : m \in RemovedMarkets(a)
  BY DEF RollbackEvents, RemovalsOf, Reorg, TradeReorg, Rebuilt, Removed
<1>3. ASSUME m \in RemovedMarkets(a)
      PROVE  Removed(m, generation + 1) \in RollbackEvents(a) \cap RemovalsOf(m)
  <2>1. Removed(m, generation + 1) \in RollbackEvents(a)
    BY <1>3 DEF RollbackEvents
  <2>2. Removed(m, generation + 1).topic = "market.removed" /\ Removed(m, generation + 1).market = m
    BY DEF Removed
  <2> QED
    BY <2>1, <2>2 DEF RemovalsOf
<1> QED
  BY <1>1, <1>2, <1>3

\* A committed block announces the launch of the markets in it.
LEMMA CommitMarketEvents ==
  ASSUME TypeOK, NEW ls \in SUBSET LaunchLogs, CommitEvents(ls) \in SUBSET Events,
         NEW m \in Market
  PROVE  /\ CommitEvents(ls) \cap RemovalsOf(m) = {}
         /\ CommitEvents(ls) \cap LaunchesOf(m) # {} <=> \E l \in ls : l.market = m
<1>1. CommitEvents(ls) \cap RemovalsOf(m) = {}
  BY DEF CommitEvents, RemovalsOf, Launched
<1>2. \A e \in CommitEvents(ls) \cap LaunchesOf(m) : \E l \in ls : l.market = m
  BY DEF CommitEvents, LaunchesOf, Launched
<1>3. ASSUME NEW l \in ls, l.market = m
      PROVE  Launched(l, generation) \in CommitEvents(ls) \cap LaunchesOf(m)
  <2>1. Launched(l, generation) \in CommitEvents(ls)
    BY DEF CommitEvents
  <2>2. Launched(l, generation).topic = "market.launched" /\ Launched(l, generation).log = l
    BY DEF Launched
  <2> QED
    BY <1>3, <2>1, <2>2 DEF LaunchesOf
<1> QED
  BY <1>1, <1>2, <1>3

LEMMA MarketsReplayNext ==
  TypeInv /\ OutboxReplaysMarkets /\ [Next]_vars => OutboxReplaysMarkets'
<1> SUFFICES ASSUME TypeInv, OutboxReplaysMarkets, [Next]_vars,
                    NEW m \in Market
             PROVE  (launchedIn[m] # None <=> Present(outbox, LaunchesOf(m), RemovalsOf(m)))'
  BY DEF OutboxReplaysMarkets
<1> DEFINE L == LaunchesOf(m)
           R == RemovalsOf(m)
<1>1. launchedIn[m] # None <=> Present(outbox, L, R)
  BY DEF OutboxReplaysMarkets
<1>2. outbox \in Seq(SUBSET Events) /\ launchedIn \in [Market -> Block \cup {None}]
  BY DEF TypeInv, TypeOK, TableType
<1> SUFFICES launchedIn'[m] # None <=> Present(outbox', L, R)
  BY DEF LaunchesOf, RemovalsOf, Present
<1>3. CASE UNCHANGED <<launchedIn, outbox>>
  BY <1>1, <1>3
<1>4. ASSUME NEW i \in Indexer, Rollback(i), ~UNCHANGED <<launchedIn, outbox>>
      PROVE  launchedIn'[m] # None <=> Present(outbox', L, R)
  <2> DEFINE a == loc[i].block
  <2>1. a \in Block /\ tip \in Block
    BY <1>4 DEF TypeInv, TypeOK, CursorType, LocalReady, Ready, Rollback, At_
  <2>2. launchedIn' = MarketsAfterRollback(a) /\ outbox' = Append(outbox, RollbackEvents(a))
    BY <1>4 DEF Rollback, journal, derived
  <2> HIDE DEF a
  <2>3. RollbackEvents(a) \in SUBSET Events
    BY <2>1, RollbackTypes DEF TypeInv
  <2>4. /\ RollbackEvents(a) \cap L = {}
        /\ RollbackEvents(a) \cap R # {} <=> m \in RemovedMarkets(a)
    BY <2>1, <2>3, RollbackMarketEvents DEF TypeInv
  <2>5. Present(outbox', L, R) <=> m \notin RemovedMarkets(a) /\ Present(outbox, L, R)
    <3> HIDE DEF L, R
    <3>1. Present(Append(outbox, RollbackEvents(a)), L, R) <=>
            /\ RollbackEvents(a) \cap R = {}
            /\ RollbackEvents(a) \cap L # {} \/ Present(outbox, L, R)
      BY <1>2, <2>3, PresentAfterAppend
    <3> QED
      BY <2>2, <2>4, <3>1
  <2>6. launchedIn'[m] # None <=> m \notin RemovedMarkets(a) /\ launchedIn[m] # None
    BY <2>2 DEF MarketsAfterRollback, RemovedMarkets
  <2> QED
    BY <1>1, <2>5, <2>6
<1>5. ASSUME NEW i \in Indexer, CommitBlock(i), ~UNCHANGED <<launchedIn, outbox>>
      PROVE  launchedIn'[m] # None <=> Present(outbox', L, R)
  <2> DEFINE b == loc[i].block
             ls == LogsOf(i, b)
  <2>1. /\ launchedIn' = MarketsAfterCommit(b, ls)
        /\ outbox' = IF ls = {} THEN outbox ELSE Append(outbox, CommitEvents(ls))
    BY <1>5 DEF CommitBlock
  <2>2. b \in Block /\ b # None
    BY <1>5, IndexerAssumption DEF TypeInv, LocalReady, Ready, CommitBlock, At_
  <2>3. ls \in SUBSET LaunchLogs
    BY <1>5 DEF TypeInv, LocalReady, Ready, CommitBlock, At_, LogsOf
  <2> HIDE DEF ls
  <2>4. launchedIn'[m] # None <=> launchedIn[m] # None \/ \E l \in ls : l.market = m
    BY <2>1, <2>2 DEF MarketsAfterCommit, ls
  <2>5. CommitEvents(ls) \in SUBSET Events
    BY <2>2, <2>3, CommitTypes DEF TypeInv
  <2>6. /\ CommitEvents(ls) \cap R = {}
        /\ CommitEvents(ls) \cap L # {} <=> \E l \in ls : l.market = m
    BY <2>3, <2>5, CommitMarketEvents DEF TypeInv
  <2>7. CASE ls = {}
    BY <1>1, <2>1, <2>4, <2>7 DEF ls
  <2>8. CASE ls # {}
    <3>1. Present(outbox', L, R) <=> (\E l \in ls : l.market = m) \/ Present(outbox, L, R)
      <4> HIDE DEF L, R
      <4>1. Present(Append(outbox, CommitEvents(ls)), L, R) <=>
              /\ CommitEvents(ls) \cap R = {}
              /\ CommitEvents(ls) \cap L # {} \/ Present(outbox, L, R)
        BY <1>2, <2>5, PresentAfterAppend
      <4>2. outbox' = Append(outbox, CommitEvents(ls))
        BY <2>1, <2>8 DEF ls
      <4> QED
        BY <2>6, <4>1, <4>2
    <3> QED
      BY <1>1, <2>4, <3>1
  <2> QED
    BY <2>7, <2>8
<1>6. ASSUME NEW i \in Indexer, CommitPool(i), ~UNCHANGED <<launchedIn, outbox>>
      PROVE  launchedIn'[m] # None <=> Present(outbox', L, R)
  <2> DEFINE X == { TradeUpsert(s) : s \in NewTrades(loc[i].logs) }
  <2>1. outbox' = Append(outbox, X) /\ UNCHANGED launchedIn
    BY <1>6 DEF CommitPool
  <2>2. loc[i].logs \in SUBSET SwapLogs
    BY <1>6 DEF TypeInv, LocalReady, Ready, CommitPool, At_
  <2>3. X \in SUBSET Events
    BY <2>2, TradeTypes DEF TypeInv
  <2>4. X \cap L = {} /\ X \cap R = {}
    BY DEF TradeUpsert, LaunchesOf, RemovalsOf
  <2> HIDE DEF X, L, R
  <2>5. Present(Append(outbox, X), L, R) <=>
          X \cap R = {} /\ (X \cap L # {} \/ Present(outbox, L, R))
    BY <1>2, <2>3, PresentAfterAppend
  <2> QED
    BY <1>1, <2>1, <2>4, <2>5
<1>7. \/ UNCHANGED <<launchedIn, outbox>>
      \/ \E i \in Indexer : Rollback(i) \/ CommitBlock(i) \/ CommitPool(i)
  BY OthersWriteNothing DEF Writers, InitializeCursor, LoadPools, journal, derived
<1> QED
  BY <1>3, <1>4, <1>5, <1>6, <1>7

\* A consumer that obeys the outbox in order holds the markets table: each
\* launch and each removal of any reorg reaches it, in an order that counts.
THEOREM OutboxAlwaysReplaysMarkets == Spec => []OutboxReplaysMarkets
<1>1. Init => OutboxReplaysMarkets
  BY PresentInNothing DEF Init, OutboxReplaysMarkets
<1> QED
  BY <1>1, MarketsReplayNext, TypeCorrect, PTL DEF Spec
----------------------------------------------------------------------------
(* Every derived row hangs on a canonical block *)

LEMMA DerivedNext == TypeInv /\ DerivedFromCanonical /\ [Next]_vars => DerivedFromCanonical'
<1> SUFFICES ASSUME TypeInv, DerivedFromCanonical, [Next]_vars PROVE DerivedFromCanonical'
  OBVIOUS
<1> USE DEF DerivedFromCanonical
<1>0. /\ rawLogs \subseteq LaunchLogs \cup SwapLogs /\ chainBlocks \subseteq Block
      /\ launchedIn \in [Market -> Block \cup {None}]
      /\ trades \in [SwapLogs -> {"absent", "canonical", "orphaned"}]
      /\ \A s \in SwapLogs : s.market \in Market
  BY IndexerAssumption DEF TypeInv, TypeOK, TableType
<1>1. CASE chainBlocks \subseteq chainBlocks' /\ UNCHANGED <<rawLogs, launchedIn, trades>>
  BY <1>1
<1>2. ASSUME NEW i \in Indexer, Rollback(i), ~UNCHANGED journal
      PROVE  DerivedFromCanonical'
  <2> DEFINE a == loc[i].block
  <2>1. a \in Block
    BY <1>2 DEF TypeInv, LocalReady, Ready, Rollback, At_
  <2>2. /\ chainBlocks' = KeptBlocks(a) /\ rawLogs' = KeptLogs(a)
        /\ launchedIn' = MarketsAfterRollback(a) /\ trades' = TradesAfterRollback(a)
    BY <1>2 DEF Rollback
  <2> HIDE DEF a
  <2>3. \A b \in Block : Height[b] \in Nat
    BY BlockTreeAssumption
  <2>4. \A l \in rawLogs' : l.block \in chainBlocks'
    BY <2>2 DEF KeptLogs, KeptBlocks, UpTo
  <2>5. ASSUME NEW m \in Market, launchedIn'[m] # None PROVE launchedIn'[m] \in chainBlocks'
    <3>1. launchedIn'[m] = launchedIn[m] /\ ~(LaunchHeight(m) > Height[a])
      BY <2>2, <2>5 DEF MarketsAfterRollback, RemovedMarkets
    <3>2. launchedIn[m] \in chainBlocks /\ LaunchHeight(m) <= Height[a]
      BY <1>0, <2>1, <2>3, <2>5, <3>1 DEF LaunchHeight
    <3> QED
      BY <2>2, <3>1, <3>2 DEF KeptBlocks, UpTo, LaunchHeight
  <2>6. ASSUME NEW s \in SwapLogs, trades'[s] = "canonical"
        PROVE  s \in rawLogs' /\ launchedIn'[s.market] # None
    <3>1. s.market \notin RemovedMarkets(a) /\ s \notin OrphanedTrades(a) /\ trades[s] = "canonical"
      BY <2>2, <2>6 DEF TradesAfterRollback
    <3>2. s \in rawLogs /\ s.block \in chainBlocks /\ ~(Height[s.block] > Height[a])
      BY <3>1 DEF OrphanedTrades
    <3>3. s \in rawLogs'
      BY <1>0, <2>1, <2>2, <2>3, <3>2 DEF KeptLogs
    <3> QED
      BY <1>0, <2>2, <3>1, <3>3 DEF MarketsAfterRollback
  <2> QED
    BY <2>4, <2>5, <2>6
<1>3. ASSUME NEW i \in Indexer, CommitBlock(i), ~UNCHANGED <<chainBlocks, rawLogs, launchedIn>>
      PROVE  DerivedFromCanonical'
  <2> DEFINE b == loc[i].block
  <2>1. /\ chainBlocks' = chainBlocks \cup {b} /\ rawLogs' = rawLogs \cup LogsOf(i, b)
        /\ launchedIn' = MarketsAfterCommit(b, LogsOf(i, b)) /\ UNCHANGED trades
    BY <1>3 DEF CommitBlock
  <2>2. b # None
    BY <1>3, IndexerAssumption DEF CommitBlock, TypeInv, LocalReady, Ready, At_
  <2>3. \A l \in LogsOf(i, b) : l.block = b
    BY <1>3 DEF CommitBlock, TypeInv, LocalReady, Ready, At_, LogsOf
  <2>4. \A m \in Market : \/ launchedIn'[m] = b
                          \/ launchedIn'[m] = launchedIn[m]
    BY <2>1 DEF MarketsAfterCommit
  <2>5. \A m \in Market : launchedIn[m] # None => launchedIn'[m] # None
    BY <2>2, <2>4
  <2> QED
    BY <1>0, <2>1, <2>2, <2>3, <2>4, <2>5
<1>4. ASSUME NEW i \in Indexer, CommitPool(i), ~UNCHANGED <<rawLogs, trades>>
      PROVE  DerivedFromCanonical'
  <2> DEFINE ss == loc[i].logs
  <2>1. /\ \A s \in ss : TradeAccepted(s)
        /\ rawLogs' = rawLogs \cup ss /\ trades' = TradesAfterCommit(ss)
        /\ UNCHANGED <<chainBlocks, launchedIn>>
    BY <1>4 DEF CommitPool
  <2> HIDE DEF ss
  <2>2. \A s \in SwapLogs : trades'[s] = "canonical" => trades[s] = "canonical" \/ s \in ss
    BY <2>1 DEF TradesAfterCommit, NewTrades
  <2> QED
    BY <2>1, <2>2 DEF TradeAccepted
<1>5. \/ chainBlocks \subseteq chainBlocks' /\ UNCHANGED <<rawLogs, launchedIn, trades>>
      \/ \E i \in Indexer : Rollback(i) /\ ~UNCHANGED journal
      \/ \E i \in Indexer : CommitBlock(i) \/ CommitPool(i)
  <2>1. CASE UNCHANGED journal
    BY <2>1 DEF journal, derived
  <2>2. CASE \E i \in Indexer : InitializeCursor(i) \/ LoadPools(i)
    BY <2>2 DEF InitializeCursor, LoadPools, derived
  <2> QED
    BY <2>1, <2>2, OthersWriteNothing DEF Writers
<1>6. ASSUME NEW i \in Indexer, CommitBlock(i) \/ CommitPool(i) PROVE DerivedFromCanonical'
  <2>1. CASE CommitBlock(i) /\ UNCHANGED <<chainBlocks, rawLogs, launchedIn>>
    BY <1>1, <2>1 DEF CommitBlock
  <2>2. CASE CommitPool(i) /\ UNCHANGED <<rawLogs, trades>>
    BY <1>1, <2>2 DEF CommitPool
  <2> QED
    BY <1>3, <1>4, <1>6, <2>1, <2>2
<1> QED
  BY <1>1, <1>2, <1>5, <1>6

\* No market, raw log or canonical trade outlives the block it came from, and
\* none is written for a block that is not canonical at that moment, with any
\* number of indexers racing each other and the node.
THEOREM DerivedAlwaysCanonical == Spec => []DerivedFromCanonical
<1>1. Init => DerivedFromCanonical
  BY DEF Init, DerivedFromCanonical
<1> QED
  BY <1>1, DerivedNext, TypeCorrect, PTL DEF Spec

----------------------------------------------------------------------------
(* The markets are those of the canonical launch logs *)

\* MarketsMatchLogs is not inductive: a rollback takes a market and its launch
\* log away together only if both name the same block.
LaunchesRecorded ==
  /\ \A m \in Market : launchedIn[m] # None =>
       \E l \in rawLogs \cap LaunchLogs : l.market = m /\ l.block = launchedIn[m]
  /\ \A l \in rawLogs \cap LaunchLogs : launchedIn[l.market] = l.block

LEMMA LaunchesNext == TypeInv /\ LaunchesRecorded /\ [Next]_vars => LaunchesRecorded'
<1> SUFFICES ASSUME TypeInv, LaunchesRecorded, [Next]_vars PROVE LaunchesRecorded'
  OBVIOUS
<1> USE DEF LaunchesRecorded
<1>0. /\ rawLogs \subseteq LaunchLogs \cup SwapLogs
      /\ launchedIn \in [Market -> Block \cup {None}]
      /\ \A l \in LaunchLogs : l.block \in Block /\ l.block # None /\ l.market \in Market
      /\ LaunchLogs \cap SwapLogs = {}
      /\ \A b \in Block : Height[b] \in Nat
  BY IndexerAssumption, BlockTreeAssumption DEF TypeInv, TypeOK, TableType
<1>1. CASE UNCHANGED <<launchedIn, rawLogs>>
  BY <1>1
<1>2. ASSUME NEW i \in Indexer, Rollback(i), ~UNCHANGED journal
      PROVE  LaunchesRecorded'
  <2> DEFINE a == loc[i].block
  <2>1. rawLogs' = KeptLogs(a) /\ launchedIn' = MarketsAfterRollback(a) /\ a \in Block
    BY <1>2 DEF Rollback, At_, TypeInv, LocalReady, Ready
  <2> HIDE DEF a
  <2>2. ASSUME NEW l \in rawLogs' \cap LaunchLogs PROVE launchedIn'[l.market] = l.block
    <3>1. l \in rawLogs /\ Height[l.block] <= Height[a]
      BY <2>1 DEF KeptLogs
    <3>2. launchedIn[l.market] = l.block /\ ~(LaunchHeight(l.market) > Height[a])
      BY <1>0, <2>1, <3>1 DEF LaunchHeight
    <3> QED
      BY <1>0, <2>1, <3>2 DEF MarketsAfterRollback, RemovedMarkets
  <2>3. ASSUME NEW m \in Market, launchedIn'[m] # None
        PROVE  \E l \in rawLogs' \cap LaunchLogs : l.market = m /\ l.block = launchedIn'[m]
    <3>1. launchedIn'[m] = launchedIn[m] /\ m \notin RemovedMarkets(a)
      BY <2>1, <2>3 DEF MarketsAfterRollback
    <3>2. PICK l \in rawLogs \cap LaunchLogs : l.market = m /\ l.block = launchedIn[m]
      BY <2>3, <3>1
    <3>3. Height[l.block] <= Height[a]
      BY <1>0, <2>1, <2>3, <3>1, <3>2 DEF RemovedMarkets, LaunchHeight
    <3> QED
      BY <2>1, <3>1, <3>2, <3>3 DEF KeptLogs
  <2> QED
    BY <2>2, <2>3
<1>3. ASSUME NEW i \in Indexer, CommitBlock(i), ~UNCHANGED <<launchedIn, rawLogs>>
      PROVE  LaunchesRecorded'
  <2> DEFINE b == loc[i].block
             ls == LogsOf(i, b)
  <2>1. /\ rawLogs' = rawLogs \cup ls /\ launchedIn' = MarketsAfterCommit(b, ls)
        /\ ~LaunchIndexRefuses(ls)
    BY <1>3 DEF CommitBlock
  <2>2. ls \in SUBSET LaunchLogs /\ (\A l \in ls : l.block = b) /\ b # None
    BY <1>3, IndexerAssumption DEF CommitBlock, TypeInv, LocalReady, Ready, At_, LogsOf
  <2> HIDE DEF b, ls
  <2>3. ASSUME NEW l \in ls, launchedIn[l.market] # None PROVE launchedIn[l.market] = l.block
    <3>1. l.market \in Market
      BY <1>0, <2>2
    <3>2. PICK k \in rawLogs \cap LaunchLogs : k.market = l.market /\ k.block = launchedIn[l.market]
      BY <2>3, <3>1
    <3> QED
      BY <2>1, <3>2 DEF LaunchIndexRefuses
  <2>4. ASSUME NEW l \in rawLogs' \cap LaunchLogs PROVE launchedIn'[l.market] = l.block
    <3>1. CASE l \in rawLogs
      BY <1>0, <2>1, <3>1 DEF MarketsAfterCommit
    <3>2. CASE l \in ls
      BY <1>0, <2>1, <2>2, <2>3, <3>2 DEF MarketsAfterCommit
    <3> QED
      BY <2>1, <3>1, <3>2
  <2>5. ASSUME NEW m \in Market, launchedIn'[m] # None
        PROVE  \E l \in rawLogs' \cap LaunchLogs : l.market = m /\ l.block = launchedIn'[m]
    <3>1. CASE launchedIn[m] # None
      BY <2>1, <2>5, <3>1 DEF MarketsAfterCommit
    <3>2. CASE launchedIn[m] = None
      <4>1. PICK l \in ls : l.market = m
        BY <2>1, <2>5, <3>2 DEF MarketsAfterCommit
      <4> QED
        BY <2>1, <2>2, <2>4, <4>1
    <3> QED
      BY <3>1, <3>2
  <2> QED
    BY <2>4, <2>5
<1>4. ASSUME NEW i \in Indexer, CommitPool(i), ~UNCHANGED <<launchedIn, rawLogs>>
      PROVE  LaunchesRecorded'
  <2>1. UNCHANGED launchedIn /\ rawLogs' = rawLogs \cup loc[i].logs
    BY <1>4 DEF CommitPool
  <2>2. loc[i].logs \subseteq SwapLogs
    BY <1>4 DEF CommitPool, TypeInv, LocalReady, Ready, At_
  <2>3. rawLogs' \cap LaunchLogs = rawLogs \cap LaunchLogs
    BY <1>0, <2>1, <2>2
  <2> QED
    BY <2>1, <2>3
<1>5. \/ UNCHANGED <<launchedIn, rawLogs>>
      \/ \E i \in Indexer : Rollback(i) /\ ~UNCHANGED journal
      \/ \E i \in Indexer : CommitBlock(i) \/ CommitPool(i)
  <2>1. CASE UNCHANGED journal
    BY <2>1 DEF journal, derived
  <2>2. CASE \E i \in Indexer : InitializeCursor(i) \/ LoadPools(i)
    BY <2>2 DEF InitializeCursor, LoadPools, derived
  <2> QED
    BY <2>1, <2>2, OthersWriteNothing DEF Writers
<1> QED
  BY <1>1, <1>2, <1>3, <1>4, <1>5

LEMMA LaunchesAlwaysRecorded == Spec => []LaunchesRecorded
<1>1. Init => LaunchesRecorded
  BY DEF Init, LaunchesRecorded
<1> QED
  BY <1>1, LaunchesNext, TypeCorrect, PTL DEF Spec

\* No rollback leaves a market without its canonical launch or a canonical
\* launch without its market, with any number of indexers racing each other.
THEOREM MarketsAlwaysMatchLogs == Spec => []MarketsMatchLogs
<1>1. TypeInv /\ LaunchesRecorded => MarketsMatchLogs
  BY IndexerAssumption DEF TypeInv, LaunchesRecorded, MarketsMatchLogs
<1> QED
  BY <1>1, LaunchesAlwaysRecorded, TypeCorrect, PTL

----------------------------------------------------------------------------
(* Reorgs are announced *)

\* Rows stop being canonical only in a rollback, which opens a generation and
\* puts chain.reorg in the outbox in the same transaction.
THEOREM ReorgsAlwaysAnnounced == Spec => ReorgsAreAnnounced
<1> DEFINE Announced ==
      (chainBlocks \ chainBlocks' # {} \/ rawLogs \ rawLogs' # {}) =>
        /\ generation' = generation + 1
        /\ Len(outbox') = Len(outbox) + 1
        /\ Reorg(tip, tip', generation') \in outbox'[Len(outbox')]
<1>1. ASSUME TypeInv, [Next]_vars PROVE [Announced]_vars
  <2>1. CASE chainBlocks \subseteq chainBlocks' /\ rawLogs \subseteq rawLogs'
    BY <2>1
  <2>2. ASSUME NEW i \in Indexer, Rollback(i), ~UNCHANGED journal PROVE Announced
    <3> DEFINE X == RollbackEvents(loc[i].block)
    <3>1. /\ tip' = loc[i].block /\ generation' = generation + 1
          /\ outbox' = Append(outbox, X)
      BY <2>2 DEF Rollback
    <3>2. outbox \in Seq(SUBSET Events)
      BY <1>1 DEF TypeInv, TypeOK, TableType
    <3>3. Reorg(tip, tip', generation') \in X
      BY <3>1 DEF RollbackEvents
    <3> HIDE DEF X
    <3>4. Len(outbox') = Len(outbox) + 1 /\ outbox'[Len(outbox')] = X
      BY <3>1, <3>2
    <3> QED
      BY <3>1, <3>3, <3>4
  <2>3. \/ chainBlocks \subseteq chainBlocks' /\ rawLogs \subseteq rawLogs'
        \/ \E i \in Indexer : Rollback(i) /\ ~UNCHANGED journal
    <3>1. CASE UNCHANGED journal
      BY <3>1 DEF journal, derived
    <3>2. CASE \E i \in Indexer : InitializeCursor(i) \/ CommitBlock(i) \/ LoadPools(i) \/ CommitPool(i)
      BY <3>2 DEF InitializeCursor, CommitBlock, LoadPools, CommitPool, derived
    <3> QED
      BY <1>1, <3>1, <3>2, OthersWriteNothing DEF Writers
  <2> QED
    BY <2>1, <2>2, <2>3
<1> QED
  BY <1>1, TypeCorrect, PTL DEF Spec, ReorgsAreAnnounced

----------------------------------------------------------------------------
(***************************************************************************)
(* What holds when one indexer process owns the tables, as                 *)
(* docker-compose.coolify.yml runs it: the canonical rows are one branch,  *)
(* and they follow the journal of CanonicalJournal.  With two processes    *)
(* neither is true, because the rollback transaction trusts an ancestor    *)
(* that was looked up before it.                                           *)
(***************************************************************************)
OneIndexer == \A i, j \in Indexer : i = j

BranchInv == CanonicalBranch /\ LocalCursorCurrent

----------------------------------------------------------------------------
(* The ancestor search *)

LEMMA OldestAncestorBounds ==
  ASSUME NEW n \in Nat, n >= BaselineNumber
  PROVE  /\ OldestAncestor(n) \in Nat
         /\ OldestAncestor(n) <= n
         /\ n - OldestAncestor(n) <= MaxReorgDepth
BY BlockTreeAssumption, IndexerAssumption DEF OldestAncestor, Max2

LEMMA MovedCurrent ==
  ASSUME OneIndexer, LocalType, NEW i \in Indexer, NEW s, NEW l,
         Goto(i, s), Keep(i, l), Current(s, l, tip', chainBlocks')
  PROVE  LocalCursorCurrent'
<1> SUFFICES ASSUME NEW j \in Indexer PROVE Current(pc'[j], loc'[j], tip', chainBlocks')
  BY DEF LocalCursorCurrent, Current
<1>1. j = i /\ pc'[j] = s /\ loc'[j] = l
  BY DEF OneIndexer, LocalType, Goto, Keep
<1> QED
  BY <1>1

\* At these steps an indexer relies on nothing it read of the tables.
LEMMA AwayFromCursor ==
  ASSUME NEW s \in {"idle", "init", "head", "open", "pools", "poolLogs", "poolCommit"},
         NEW l, NEW t, NEW C
  PROVE  Current(s, l, t, C)
BY DEF Current

LEMMA AbortCurrent ==
  ASSUME OneIndexer, TypeOK, NEW i \in Indexer,
         (\E s \in Statuses : Abort(i, s)) \/ Race(i)
  PROVE  LocalCursorCurrent'
<1>1. ASSUME NEW s, Abort(i, s) PROVE LocalCursorCurrent'
  BY <1>1, MovedCurrent, AwayFromCursor DEF Abort, TypeOK
<1>2. CASE /\ Goto(i, "head")
           /\ Keep(i, [EmptyLoc EXCEPT !.attempt = loc[i].attempt + 1])
  BY <1>2, MovedCurrent, AwayFromCursor DEF TypeOK
<1> QED
  BY <1>1, <1>2 DEF Race

\* Between two reads of the ancestor search the tables do not move.
LEMMA QuietCurrent ==
  ASSUME OneIndexer, TypeInv, BranchInv, NEW i \in Indexer,
         \/ Start(i) \/ Initialize(i) \/ ReadHead(i) \/ OpenCursor(i)
         \/ CheckTip(i) \/ Walk(i) \/ MissingBlock(i) \/ ReadLogs(i) \/ EndScan(i)
         \/ ReadPoolLogs(i) \/ ReloadCursor(i) \/ ReadBaseline(i) \/ ReadBlock(i)
  PROVE  LocalCursorCurrent'
<1> USE DEF TypeInv, TypeOK
<1>0. loc[i] \in Loc /\ Current(pc[i], loc[i], tip, chainBlocks) /\ Ready(tip, pc[i], loc[i])
  BY DEF BranchInv, LocalCursorCurrent, LocalType, LocalReady
<1>1. UNCHANGED <<tip, chainBlocks>>
  BY DEF Start, Initialize, ReadHead, OpenCursor, CheckTip, Walk, MissingBlock,
         ReadLogs, EndScan, ReadPoolLogs, ReloadCursor, ReadBaseline, ReadBlock,
         cursor, journal
<1>2. CASE Start(i) \/ Initialize(i) \/ EndScan(i)
  <2>1. Keep(i, loc[i])
    BY <1>2 DEF Start, Initialize, EndScan, Keep, LocalType
  <2> QED
    BY <1>2, <2>1, MovedCurrent, AwayFromCursor DEF Start, Initialize, EndScan
<1>3. CASE ReadHead(i) \/ ReadPoolLogs(i)
  BY <1>3, MovedCurrent, AwayFromCursor DEF ReadHead, ReadPoolLogs
<1>4. CASE OpenCursor(i)
  <2>1. CASE tip = None
    <3>1. Goto(i, "baseline") /\ Keep(i, loc[i]) /\ Current("baseline", loc[i], tip', chainBlocks')
      BY <1>1, <1>4, <2>1 DEF OpenCursor, Keep, LocalType, Current
    <3> QED
      BY <3>1, MovedCurrent
  <2>2. CASE tip # None
    <3> DEFINE l == [loc[i] EXCEPT !.cur = tip]
    <3>1. Goto(i, "tip") /\ Keep(i, l) /\ l.cur = tip
      BY <1>0, <1>4, <2>2 DEF OpenCursor, Loc
    <3> HIDE DEF l
    <3> QED
      BY <1>1, <2>2, <3>1, MovedCurrent DEF Current
  <2> QED
    BY <2>1, <2>2
<1>5. CASE CheckTip(i)
  <2>1. tip # None /\ loc[i].cur = tip /\ tip \in Block
    BY <1>0, <1>5 DEF CheckTip, At_, Current, CursorType
  <2>2. CASE Goto(i, "scan") /\ UNCHANGED loc
    <3>1. Keep(i, loc[i]) /\ Current("scan", loc[i], tip', chainBlocks')
      BY <1>1, <2>1, <2>2 DEF Keep, LocalType, Current
    <3> QED
      BY <2>2, <3>1, MovedCurrent
  <2>3. CASE Goto(i, "walk") /\ Keep(i, [loc[i] EXCEPT !.number = Height[loc[i].cur]])
    <3> DEFINE l == [loc[i] EXCEPT !.number = Height[loc[i].cur]]
    <3>1. Goto(i, "walk") /\ Keep(i, l) /\ l.cur = tip /\ l.number = Height[tip]
      BY <1>0, <2>1, <2>3 DEF Loc
    <3>2. OldestAncestor(Height[tip]) <= Height[tip]
      BY <2>1, OldestAncestorBounds, BlockTreeAssumption
    <3> HIDE DEF l
    <3> QED
      BY <1>1, <2>1, <3>1, <3>2, MovedCurrent DEF Current
  <2> QED
    BY <1>5, <2>2, <2>3 DEF CheckTip
<1>6. CASE Walk(i)
  <2> DEFINE n == loc[i].number
             o == OldestAncestor(Height[tip])
  <2>1. tip # None /\ loc[i].cur = tip /\ tip \in Block /\ o <= n /\ n \in Int /\ At_(i, "walk")
    BY <1>0, <1>6 DEF Walk, At_, Current, CursorType, Loc
  <2>2. o \in Nat
    BY <2>1, OldestAncestorBounds, BlockTreeAssumption
  <2>3. ASSUME NEW a \in At(remote, n) \cap chainBlocks, Goto(i, "rollback"),
               Keep(i, [loc[i] EXCEPT !.block = a])
        PROVE  LocalCursorCurrent'
    <3> DEFINE l == [loc[i] EXCEPT !.block = a]
    <3>1. Keep(i, l) /\ l.cur = tip /\ l.block = a /\ Height[a] = n
      BY <1>0, <2>1, <2>3 DEF Loc, At
    <3>2. Current("rollback", l, tip', chainBlocks')
      BY <1>1, <2>1, <3>1 DEF Current
    <3> HIDE DEF l
    <3> QED
      BY <2>3, <3>1, <3>2, MovedCurrent
  <2>4. CASE n > o /\ Keep(i, [loc[i] EXCEPT !.number = n - 1]) /\ UNCHANGED pc
    <3> DEFINE l == [loc[i] EXCEPT !.number = n - 1]
    <3>1. Goto(i, "walk") /\ Keep(i, l) /\ l.cur = tip /\ l.number = n - 1
      BY <1>0, <2>1, <2>4 DEF Loc, Goto, At_, LocalType
    <3>2. o <= n - 1
      BY <2>1, <2>2, <2>4
    <3>3. Current("walk", l, tip', chainBlocks')
      BY <1>1, <2>1, <3>1, <3>2 DEF Current
    <3> HIDE DEF l
    <3> QED
      BY <3>1, <3>3, MovedCurrent
  <2>5. CASE Abort(i, "halted")
    BY <2>5, AbortCurrent DEF Statuses
  <2> QED
    BY <1>6, <2>1, <2>3, <2>4, <2>5 DEF Walk
<1>7. CASE MissingBlock(i)
  BY <1>7, AbortCurrent DEF MissingBlock, Statuses
<1>8. CASE ReadLogs(i)
  <2>1. tip # None /\ loc[i].cur = tip
    BY <1>0, <1>8 DEF ReadLogs, At_, Current
  <2>2. PICK u, ls : Goto(i, "block") /\ Keep(i, [loc[i] EXCEPT !.upto = u, !.logs = ls])
    BY <1>8 DEF ReadLogs
  <2> DEFINE l == [loc[i] EXCEPT !.upto = u, !.logs = ls]
  <2>3. Keep(i, l) /\ Current("block", l, tip', chainBlocks')
    BY <1>0, <1>1, <2>1, <2>2 DEF Loc, Current
  <2> HIDE DEF l
  <2> QED
    BY <2>2, <2>3, MovedCurrent
<1>9. CASE ReloadCursor(i)
  <2> DEFINE l == [loc[i] EXCEPT !.cur = tip]
  <2>1. tip # None /\ Goto(i, "scan") /\ Keep(i, l) /\ l.cur = tip
    BY <1>0, <1>9 DEF ReloadCursor, At_, Current, Loc
  <2> HIDE DEF l
  <2> QED
    BY <1>1, <2>1, MovedCurrent DEF Current
<1>10. CASE ReadBaseline(i)
  <2>1. tip = None
    BY <1>0, <1>10 DEF ReadBaseline, At_, Current
  <2>2. PICK l : Goto(i, "create") /\ Keep(i, l)
    BY <1>10 DEF ReadBaseline
  <2> QED
    BY <1>1, <2>1, <2>2, MovedCurrent DEF Current
<1>11. CASE ReadBlock(i)
  <2>1. tip # None /\ loc[i].cur = tip
    BY <1>0, <1>11 DEF ReadBlock, At_, Current
  <2>2. CASE Race(i)
    BY <2>2, AbortCurrent
  <2>3. ASSUME NEW b, Goto(i, "commit"), Keep(i, [loc[i] EXCEPT !.block = b])
        PROVE  LocalCursorCurrent'
    <3> DEFINE l == [loc[i] EXCEPT !.block = b]
    <3>1. Keep(i, l) /\ Current("commit", l, tip', chainBlocks')
      BY <1>0, <1>1, <2>1, <2>3 DEF Loc, Current
    <3> HIDE DEF l
    <3> QED
      BY <2>3, <3>1, MovedCurrent
  <2> QED
    BY <1>11, <2>2, <2>3 DEF ReadBlock
<1> QED
  BY <1>2, <1>3, <1>4, <1>5, <1>6, <1>7, <1>8, <1>9, <1>10, <1>11
----------------------------------------------------------------------------
(* The steps that write the tables *)

\* The journal steps of an indexer, in terms of the tables alone.
Founded(b) ==
  /\ tip = None /\ Height[b] = BaselineNumber
  /\ chainBlocks' = {b} /\ tip' = b /\ UNCHANGED generation

Extended(b) ==
  /\ tip # None /\ CursorFits(b)
  /\ chainBlocks' = chainBlocks \cup {b} /\ tip' = b /\ UNCHANGED generation

Rewound(a) ==
  /\ tip # None /\ a \in chainBlocks /\ OldestAncestor(Height[tip]) <= Height[a]
  /\ chainBlocks' = KeptBlocks(a) /\ tip' = a /\ generation' = generation + 1

JournalStep ==
  \E b \in Block : Founded(b) \/ Extended(b) \/ Rewound(b)

\* Each of them keeps the canonical rows one branch that ends in the cursor.
LEMMA JournalStepKeepsBranch ==
  ASSUME TypeOK, CanonicalBranch, JournalStep
  PROVE  CanonicalBranch'
<1> USE DEF CanonicalBranch, OnePerHeight, ParentClosed, IsHead
<1>0. /\ chainBlocks \subseteq Block /\ tip \in Block \cup {None} /\ None \notin Block
      /\ \A b \in Block : Height[b] \in Nat
  BY BlockTreeAssumption, IndexerAssumption DEF TypeOK, TableType, CursorType
<1>1. ASSUME NEW b \in Block, Founded(b) PROVE CanonicalBranch'
  BY <1>0, <1>1, BlockTreeAssumption DEF Founded
<1>2. ASSUME NEW b \in Block, Extended(b) PROVE CanonicalBranch'
  <2>1. /\ tip \in chainBlocks /\ \A c \in chainBlocks : Height[c] <= Height[tip]
        /\ Height[b] = Height[tip] + 1 /\ Parent[b] = tip
    BY <1>0, <1>2 DEF Extended, CursorFits
  <2>2. \A c \in chainBlocks : Height[c] < Height[b]
    BY <1>0, <2>1
  <2>3. OnePerHeight(chainBlocks')
    BY <1>0, <1>2, <2>2 DEF Extended
  <2>4. ParentClosed(chainBlocks')
    BY <1>2, <2>1 DEF Extended
  <2>5. IsHead(b, chainBlocks')
    BY <1>0, <1>2, <2>2 DEF Extended
  <2> QED
    BY <1>0, <1>2, <2>3, <2>4, <2>5 DEF Extended
<1>3. ASSUME NEW a \in Block, Rewound(a) PROVE CanonicalBranch'
  <2>1. chainBlocks' = { b \in chainBlocks : Height[b] <= Height[a] } /\ a \in chainBlocks
    BY <1>3 DEF Rewound, KeptBlocks, UpTo
  <2>2. OnePerHeight(chainBlocks')
    BY <2>1 DEF Rewound
  <2>3. ParentClosed(chainBlocks')
    <3> SUFFICES ASSUME NEW b \in chainBlocks, Height[b] <= Height[a],
                        Height[b] > BaselineNumber
                 PROVE  Parent[b] \in chainBlocks'
      BY <2>1
    <3>1. Parent[b] \in chainBlocks
      OBVIOUS
    <3>2. Height[Parent[b]] = Height[b] - 1
      BY <1>0, BlockTreeAssumption
    <3>3. Height[b] \in Nat /\ Height[a] \in Nat
      BY <1>0
    <3>4. Height[Parent[b]] <= Height[a]
      BY <3>2, <3>3
    <3> QED
      BY <2>1, <3>1, <3>4
  <2>4. IsHead(a, chainBlocks')
    BY <1>0, <2>1
  <2> QED
    BY <1>0, <1>3, <2>2, <2>3, <2>4 DEF Rewound
<1> QED
  BY <1>1, <1>2, <1>3 DEF JournalStep

\* What a writer does to the journal, and where it leaves its indexer.
LEMMA WritersStep ==
  ASSUME OneIndexer, TypeInv, BranchInv, NEW i \in Indexer, Writers(i)
  PROVE  /\ JournalStep \/ UNCHANGED <<tip, generation, chainBlocks>>
         /\ LocalCursorCurrent'
<1> USE DEF TypeInv, TypeOK
<1>0. loc[i] \in Loc /\ Current(pc[i], loc[i], tip, chainBlocks) /\ Ready(tip, pc[i], loc[i])
  BY DEF BranchInv, LocalCursorCurrent, LocalType, LocalReady
<1>1. CASE InitializeCursor(i)
  <2> DEFINE b == loc[i].block
             l == [loc[i] EXCEPT !.cur = tip', !.block = None]
  <2>1. CASE Abort(i, "stale") /\ UNCHANGED <<tip, generation, chainBlocks>>
    BY <2>1, AbortCurrent DEF Statuses
  <2>2. CASE /\ Goto(i, "tip") /\ chainBlocks' = chainBlocks \cup {b}
             /\ tip' = IF tip = None THEN b ELSE tip
             /\ Keep(i, l) /\ UNCHANGED generation
             /\ \A c \in At(chainBlocks, BaselineNumber) : c = b
    <3>1. tip = None /\ chainBlocks = {}
      BY <1>0, <1>1 DEF InitializeCursor, At_, Current, BranchInv, CanonicalBranch
    <3>2. b \in Block /\ b # None /\ Height[b] = BaselineNumber
      BY <1>0, <1>1, IndexerAssumption DEF InitializeCursor, At_, Ready
    <3>3. JournalStep
      BY <2>2, <3>1, <3>2 DEF JournalStep, Founded
    <3>4. Current("tip", l, tip', chainBlocks')
      BY <1>0, <2>2, <3>1, <3>2 DEF Loc, Current
    <3> HIDE DEF l
    <3> QED
      BY <2>2, <3>3, <3>4, MovedCurrent
  <2> QED
    BY <1>1, <2>1, <2>2 DEF InitializeCursor
<1>2. CASE Rollback(i)
  <2> DEFINE a == loc[i].block
             l == [loc[i] EXCEPT !.block = None, !.number = 0]
  <2>1. CASE Abort(i, "stale") /\ UNCHANGED <<tip, generation, journal>>
    BY <2>1, AbortCurrent DEF Statuses, journal
  <2>2. CASE /\ tip' = a /\ generation' = generation + 1
             /\ chainBlocks' = KeptBlocks(a)
             /\ Goto(i, "reload") /\ Keep(i, l)
    <3>1. /\ tip # None /\ a \in chainBlocks /\ a \in Block /\ a # None
          /\ OldestAncestor(Height[tip]) <= Height[a]
      BY <1>0, <1>2, IndexerAssumption DEF Rollback, At_, Current, Ready
    <3>2. JournalStep
      BY <2>2, <3>1 DEF JournalStep, Rewound
    <3>3. Current("reload", l, tip', chainBlocks')
      BY <2>2, <3>1 DEF Current
    <3> HIDE DEF l
    <3> QED
      BY <2>2, <3>2, <3>3, MovedCurrent
  <2> QED
    BY <1>2, <2>1, <2>2 DEF Rollback
<1>3. CASE CommitBlock(i)
  <2> DEFINE b == loc[i].block
  <2>1. CASE (Race(i) \/ Abort(i, "stale")) /\ UNCHANGED <<tip, chainBlocks>>
    BY <1>3, <2>1, AbortCurrent DEF CommitBlock, Statuses
  <2>2. CASE CursorFits(b) /\ ~LaunchIndexRefuses(LogsOf(i, b))
    <3>1. /\ b \in Block /\ b # None /\ tip # None /\ UNCHANGED generation
          /\ tip' = b /\ chainBlocks' = chainBlocks \cup {b}
      BY <1>0, <1>3, <2>2, IndexerAssumption DEF CommitBlock, At_, Ready
    <3>2. JournalStep
      BY <2>2, <3>1 DEF JournalStep, Extended
    <3>3. CASE Height[b] < loc[i].upto
      <4> DEFINE l == [loc[i] EXCEPT !.cur = b, !.block = None]
      <4>1. Goto(i, "block") /\ Keep(i, l) /\ l.cur = b
        BY <1>0, <1>3, <2>2, <3>3 DEF Loc, CommitBlock
      <4> HIDE DEF l
      <4> QED
        BY <3>1, <3>2, <4>1, MovedCurrent DEF Current
    <3>4. CASE ~(Height[b] < loc[i].upto)
      <4> DEFINE l == [loc[i] EXCEPT !.cur = b, !.block = None, !.logs = {}, !.upto = 0]
      <4>1. Goto(i, "scan") /\ Keep(i, l) /\ l.cur = b
        BY <1>0, <1>3, <2>2, <3>4 DEF Loc, CommitBlock
      <4> HIDE DEF l
      <4> QED
        BY <3>1, <3>2, <4>1, MovedCurrent DEF Current
    <3> QED
      BY <3>2, <3>3, <3>4
  <2> QED
    BY <1>3, <2>1, <2>2 DEF CommitBlock
<1>4. CASE LoadPools(i) \/ CommitPool(i)
  <2>1. UNCHANGED <<tip, generation, chainBlocks>>
    BY <1>4 DEF LoadPools, CommitPool
  <2>2. LocalCursorCurrent'
    <3>1. ASSUME NEW s \in Statuses, Abort(i, s) PROVE LocalCursorCurrent'
      BY <3>1, AbortCurrent
    <3>2. ASSUME NEW s \in {"pools", "poolLogs"}, NEW l, Goto(i, s), Keep(i, l)
          PROVE  LocalCursorCurrent'
      BY <3>2, MovedCurrent, AwayFromCursor
    <3> QED
      BY <1>4, <3>1, <3>2 DEF LoadPools, CommitPool, Statuses
  <2> QED
    BY <2>1, <2>2
<1> QED
  BY <1>1, <1>2, <1>3, <1>4 DEF Writers
----------------------------------------------------------------------------
(* The theorems *)

\* A step of the program is a step of the journal or leaves it alone.
LEMMA BranchNext ==
  ASSUME OneIndexer, TypeInv, BranchInv, [Next]_vars
  PROVE  /\ JournalStep \/ UNCHANGED <<tip, generation, chainBlocks>>
         /\ BranchInv'
<1>1. ASSUME NEW i \in Indexer, Writers(i)
      PROVE  /\ JournalStep \/ UNCHANGED <<tip, generation, chainBlocks>>
             /\ LocalCursorCurrent'
  BY <1>1, WritersStep
<1>2. JournalStep \/ UNCHANGED <<tip, generation, chainBlocks>>
  BY <1>1, OthersWriteNothing DEF journal
<1>3. CanonicalBranch'
  <2>1. CASE UNCHANGED <<tip, generation, chainBlocks>>
    BY <2>1 DEF BranchInv, CanonicalBranch, OnePerHeight, ParentClosed, IsHead
  <2> QED
    BY <1>2, <2>1, JournalStepKeepsBranch DEF TypeInv, BranchInv
<1>4. LocalCursorCurrent'
  <2>1. ASSUME NEW i \in Indexer, Step(i) PROVE LocalCursorCurrent'
    BY <1>1, <2>1, QuietCurrent DEF Step, Writers
  <2>2. ASSUME NEW i \in Indexer, Disturb(i) PROVE LocalCursorCurrent'
    <3>1. CASE Crash(i)
      BY <3>1, MovedCurrent, AwayFromCursor DEF Crash, TypeInv, TypeOK
    <3> QED
      BY <2>2, <3>1, AbortCurrent
         DEF Disturb, RefuseRegistry, Fault, RemovedLog, TypeInv, Statuses
  <2>3. CASE RemoteGrow \/ RemoteFlip \/ UNCHANGED vars
    <3>1. UNCHANGED <<pc, loc, tip, chainBlocks>>
      BY <2>3 DEF RemoteGrow, RemoteFlip, vars, local, cursor, journal
    <3> QED
      BY <3>1 DEF BranchInv, LocalCursorCurrent, Current
  <2> QED
    BY <2>1, <2>2, <2>3 DEF Next
<1> QED
  BY <1>2, <1>3, <1>4 DEF BranchInv

LEMMA BranchInit == Init => BranchInv
BY DEF Init, BranchInv, CanonicalBranch, LocalCursorCurrent, Current,
       OnePerHeight, ParentClosed

LEMMA BranchAlways == OneIndexer => (Spec => []BranchInv)
<1> SUFFICES ASSUME OneIndexer PROVE Spec => []BranchInv
  OBVIOUS
<1>1. TypeInv /\ BranchInv /\ [Next]_vars => BranchInv'
  BY BranchNext
<1> QED
  BY <1>1, BranchInit, TypeCorrect, PTL DEF Spec

\* The canonical rows of chain_blocks are always one unbroken branch ending
\* in the cursor, for every tree of forks and every behaviour of the node.
THEOREM OneIndexerKeepsBranch == OneIndexer => (Spec => []CanonicalBranch)
<1>1. BranchInv => CanonicalBranch
  BY DEF BranchInv
<1> QED
  BY <1>1, BranchAlways, PTL

\* What the indexer read of the tables before an RPC call still holds after
\* it, and the ancestor it found is canonical and within the retained depth.
THEOREM OneIndexerNeverStale == OneIndexer => (Spec => []LocalCursorCurrent)
<1>1. BranchInv => LocalCursorCurrent
  BY DEF BranchInv
<1> QED
  BY <1>1, BranchAlways, PTL

\* The tables implement the abstract journal: they only grow by a child of
\* the tip and are only cut back to a block they hold, at most MaxReorgDepth
\* blocks below the tip, with a new generation.
THEOREM OneIndexerImplementsJournal == OneIndexer => (Spec => ImplementsJournal)
<1> SUFFICES ASSUME OneIndexer PROVE Spec => ImplementsJournal
  OBVIOUS
<1>1. Init => Journal!JournalInit
  BY DEF Init, Journal!JournalInit
<1>2. TypeInv /\ BranchInv /\ [Next]_vars => [Journal!JournalNext]_(Journal!journalVars)
  <2> SUFFICES ASSUME TypeInv, BranchInv, [Next]_vars
               PROVE  [Journal!JournalNext]_(Journal!journalVars)
    OBVIOUS
  <2>1. JournalStep \/ UNCHANGED <<tip, generation, chainBlocks>>
    BY BranchNext
  <2>2. CASE UNCHANGED <<tip, generation, chainBlocks>>
    BY <2>2 DEF Journal!journalVars
  <2>3. ASSUME NEW b \in Block, Founded(b) PROVE Journal!Found(b)
    BY <2>3 DEF Founded, Journal!Found
  <2>4. ASSUME NEW b \in Block, Extended(b) PROVE Journal!Extend(b)
    BY <2>4 DEF Extended, CursorFits, Journal!Extend
  <2>5. ASSUME NEW a \in Block, Rewound(a) PROVE Journal!Rewind(a)
    <3>1. tip \in Block /\ Height[tip] \in Nat /\ Height[tip] >= BaselineNumber
      BY <2>5, BlockTreeAssumption DEF Rewound, TypeInv, TypeOK, CursorType
    <3>2. Height[a] \in Nat /\ OldestAncestor(Height[tip]) <= Height[a]
      BY <2>5, BlockTreeAssumption DEF Rewound
    <3>3. Height[tip] - Height[a] <= MaxReorgDepth
      BY <3>1, <3>2, OldestAncestorBounds, IndexerAssumption
    <3> QED
      BY <2>5, <3>3 DEF Rewound, KeptBlocks, UpTo, Journal!Rewind, Journal!UpTo
  <2> QED
    BY <2>1, <2>2, <2>3, <2>4, <2>5 DEF JournalStep, Journal!JournalNext
<1> QED
  BY <1>1, <1>2, BranchAlways, TypeCorrect, PTL
     DEF Spec, ImplementsJournal, Journal!JournalSpec
----------------------------------------------------------------------------
(* Trades of a single branch *)

\* The canonical blocks are a chain as a node serves it.
LEMMA BranchIsChain ==
  ASSUME TypeInv, BranchInv, chainBlocks # {}
  PROVE  chainBlocks \in Chains /\ tip \in chainBlocks
BY DEF TypeInv, TypeOK, TableType, BranchInv, CanonicalBranch, Chains, IsHead

\* On one chain a market has one launch, and its swaps come no earlier.
LEMMA TradedAfterLaunch ==
  ASSUME TypeInv, BranchInv, DerivedFromCanonical, LaunchesRecorded,
         NEW s \in SwapLogs, trades[s] = "canonical"
  PROVE  s.block \in chainBlocks /\ LaunchHeight(s.market) <= Height[s.block]
<1>1. s \in rawLogs /\ s.block \in chainBlocks /\ launchedIn[s.market] # None
  BY DEF DerivedFromCanonical
<1>2. chainBlocks \in Chains
  BY <1>1, BranchIsChain
<1>3. PICK l \in LaunchLogs : /\ l.market = s.market /\ l.block \in chainBlocks
                              /\ Height[l.block] <= Height[s.block]
  BY <1>1, <1>2, ChainContentAssumption
<1>4. PICK k \in rawLogs \cap LaunchLogs :
        k.market = s.market /\ k.block = launchedIn[s.market]
  BY <1>1, IndexerAssumption DEF LaunchesRecorded
<1>5. k.block \in chainBlocks
  BY <1>4 DEF DerivedFromCanonical
<1>6. l = k
  BY <1>2, <1>3, <1>4, <1>5, ChainContentAssumption
<1> QED
  BY <1>1, <1>3, <1>4, <1>6 DEF LaunchHeight

\* A rollback retracts the trades it orphans, of markets that go as well, and
\* announces none.
LEMMA RollbackTradeEvents ==
  ASSUME NEW a, NEW s \in SwapLogs
  PROVE  /\ RollbackEvents(a) \cap {TradeUpsert(s)} = {}
         /\ RollbackEvents(a) \cap {TradeReorg(s)} # {} <=> s \in OrphanedTrades(a)
<1>1. TradeUpsert(s) \notin RollbackEvents(a)
  BY DEF RollbackEvents, Reorg, TradeReorg, Rebuilt, Removed, TradeUpsert
<1>2. \A r : TradeReorg(r) = TradeReorg(s) => r = s
  <2>1. \A r : TradeReorg(r).log = r
    BY DEF TradeReorg
  <2> QED
    BY <2>1
<1>3. TradeReorg(s) \in RollbackEvents(a) => s \in OrphanedTrades(a)
  BY <1>2 DEF RollbackEvents, Reorg, TradeReorg, Rebuilt, Removed
<1>4. s \in OrphanedTrades(a) => TradeReorg(s) \in RollbackEvents(a)
  BY DEF RollbackEvents
<1> QED
  BY <1>1, <1>3, <1>4

LEMMA TradesReplayNext ==
  ASSUME TypeInv, BranchInv, DerivedFromCanonical, LaunchesRecorded,
         OutboxReplaysTrades, [Next]_vars
  PROVE  OutboxReplaysTrades'
<1> SUFFICES ASSUME NEW s \in SwapLogs
             PROVE  (trades[s] = "canonical" <=>
                       Present(outbox, {TradeUpsert(s)}, {TradeReorg(s)}))'
  BY DEF OutboxReplaysTrades
<1> DEFINE A == {TradeUpsert(s)}
           R == {TradeReorg(s)}
<1>1. trades[s] = "canonical" <=> Present(outbox, A, R)
  BY DEF OutboxReplaysTrades
<1>2. outbox \in Seq(SUBSET Events) /\ trades \in [SwapLogs -> {"absent", "canonical", "orphaned"}]
  BY DEF TypeInv, TypeOK, TableType
<1> SUFFICES trades'[s] = "canonical" <=> Present(outbox', A, R)
  BY DEF TradeUpsert, TradeReorg, Present
<1>3. CASE UNCHANGED <<trades, outbox>>
  BY <1>1, <1>3
<1>4. ASSUME NEW i \in Indexer, Rollback(i), ~UNCHANGED <<trades, outbox>>
      PROVE  trades'[s] = "canonical" <=> Present(outbox', A, R)
  <2> DEFINE a == loc[i].block
  <2>1. a \in Block /\ tip \in Block
    BY <1>4 DEF TypeInv, TypeOK, CursorType, LocalReady, Ready, Rollback, At_
  <2>2. trades' = TradesAfterRollback(a) /\ outbox' = Append(outbox, RollbackEvents(a))
    BY <1>4 DEF Rollback, journal, derived
  <2> HIDE DEF a
  <2>3. RollbackEvents(a) \in SUBSET Events
    BY <2>1, RollbackTypes DEF TypeInv
  <2>4. /\ RollbackEvents(a) \cap A = {}
        /\ RollbackEvents(a) \cap R # {} <=> s \in OrphanedTrades(a)
    BY RollbackTradeEvents
  <2>5. ASSUME trades[s] = "canonical", s.market \in RemovedMarkets(a)
        PROVE  s \in OrphanedTrades(a)
    <3>1. LaunchHeight(s.market) <= Height[s.block] /\ s.block \in chainBlocks
      BY <2>5, TradedAfterLaunch
    <3>2. LaunchHeight(s.market) > Height[a] /\ launchedIn[s.market] \in Block
      BY <2>5 DEF RemovedMarkets, TypeInv, TypeOK, TableType
    <3>3. Height[s.block] \in Nat /\ Height[a] \in Nat /\ LaunchHeight(s.market) \in Nat
      BY <2>1, <3>1, <3>2, BlockTreeAssumption
         DEF TypeInv, TypeOK, TableType, LaunchHeight
    <3> QED
      BY <2>5, <3>1, <3>2, <3>3 DEF OrphanedTrades
  <2>6. trades'[s] = "canonical" <=> trades[s] = "canonical" /\ s \notin OrphanedTrades(a)
    BY <2>2, <2>5 DEF TradesAfterRollback, OrphanedTrades
  <2> HIDE DEF A, R
  <2>7. Present(Append(outbox, RollbackEvents(a)), A, R) <=>
          /\ RollbackEvents(a) \cap R = {}
          /\ RollbackEvents(a) \cap A # {} \/ Present(outbox, A, R)
    BY <1>2, <2>3, PresentAfterAppend
  <2> QED
    BY <1>1, <2>2, <2>4, <2>6, <2>7
<1>5. ASSUME NEW i \in Indexer, CommitBlock(i), ~UNCHANGED <<trades, outbox>>
      PROVE  trades'[s] = "canonical" <=> Present(outbox', A, R)
  <2> DEFINE ls == LogsOf(i, loc[i].block)
  <2>1. outbox' = Append(outbox, CommitEvents(ls)) /\ UNCHANGED trades
    BY <1>5 DEF CommitBlock
  <2>2. ls \in SUBSET LaunchLogs /\ loc[i].block \in Block
    BY <1>5 DEF TypeInv, LocalReady, Ready, CommitBlock, At_, LogsOf
  <2> HIDE DEF ls
  <2>3. CommitEvents(ls) \in SUBSET Events
    BY <2>2, CommitTypes DEF TypeInv
  <2>4. CommitEvents(ls) \cap A = {} /\ CommitEvents(ls) \cap R = {}
    BY DEF CommitEvents, Launched, TradeUpsert, TradeReorg
  <2> HIDE DEF A, R
  <2>5. Present(Append(outbox, CommitEvents(ls)), A, R) <=>
          /\ CommitEvents(ls) \cap R = {}
          /\ CommitEvents(ls) \cap A # {} \/ Present(outbox, A, R)
    BY <1>2, <2>3, PresentAfterAppend
  <2> QED
    BY <1>1, <2>1, <2>4, <2>5
<1>6. ASSUME NEW i \in Indexer, CommitPool(i), ~UNCHANGED <<trades, outbox>>
      PROVE  trades'[s] = "canonical" <=> Present(outbox', A, R)
  <2> DEFINE ss == loc[i].logs
             X  == { TradeUpsert(r) : r \in NewTrades(ss) }
  <2>1. /\ trades' = TradesAfterCommit(ss)
        /\ outbox' = IF NewTrades(ss) = {} THEN outbox ELSE Append(outbox, X)
    BY <1>6 DEF CommitPool
  <2>2. ss \in SUBSET SwapLogs
    BY <1>6 DEF TypeInv, LocalReady, Ready, CommitPool, At_
  <2>3. X \in SUBSET Events
    BY <2>2, TradeTypes DEF TypeInv
  <2>4. trades'[s] = "canonical" <=> s \in NewTrades(ss) \/ trades[s] = "canonical"
    BY <2>1 DEF TradesAfterCommit
  <2>5. X \cap R = {} /\ (X \cap A # {} <=> s \in NewTrades(ss))
    <3>1. \A r : TradeUpsert(r).log = r
      BY DEF TradeUpsert
    <3>2. \A r : TradeUpsert(r) # TradeReorg(s)
      BY DEF TradeUpsert, TradeReorg
    <3>3. TradeUpsert(s) \in X <=> s \in NewTrades(ss)
      BY <3>1
    <3> QED
      BY <3>2, <3>3
  <2> HIDE DEF A, R, X
  <2>6. Present(Append(outbox, X), A, R) <=>
          X \cap R = {} /\ (X \cap A # {} \/ Present(outbox, A, R))
    BY <1>2, <2>3, PresentAfterAppend
  <2> QED
    BY <1>1, <2>1, <2>4, <2>5, <2>6
<1>7. \/ UNCHANGED <<trades, outbox>>
      \/ \E i \in Indexer : Rollback(i) \/ CommitBlock(i) \/ CommitPool(i)
  BY OthersWriteNothing DEF Writers, InitializeCursor, LoadPools, journal, derived
<1> QED
  BY <1>3, <1>4, <1>5, <1>6, <1>7

\* A consumer that obeys the trade events in order holds the canonical trades:
\* a rollback also retracts the trades of the markets it deletes.
THEOREM OneIndexerReplaysTrades == OneIndexer => (Spec => []OutboxReplaysTrades)
<1> SUFFICES ASSUME OneIndexer PROVE Spec => []OutboxReplaysTrades
  OBVIOUS
<1>1. Init => OutboxReplaysTrades
  BY PresentInNothing DEF Init, OutboxReplaysTrades
<1>2. /\ TypeInv /\ BranchInv /\ DerivedFromCanonical /\ LaunchesRecorded
      /\ OutboxReplaysTrades /\ [Next]_vars
      => OutboxReplaysTrades'
  BY TradesReplayNext
<1> QED
  BY <1>1, <1>2, TypeCorrect, BranchAlways, DerivedAlwaysCanonical,
     LaunchesAlwaysRecorded, PTL DEF Spec

\* No transaction of the one indexer is refused by the unique indexes: what
\* its rollbacks leave behind never blocks what is mined again.
THEOREM OneIndexerNeverRefused == OneIndexer => (Spec => []IndexesNeverRefuse)
<1> SUFFICES ASSUME OneIndexer PROVE Spec => []IndexesNeverRefuse
  OBVIOUS
<1>1. ASSUME TypeInv, BranchInv, DerivedFromCanonical
      PROVE  IndexesNeverRefuse
  <2> SUFFICES ASSUME NEW i \in Indexer
               PROVE  /\ pc[i] = "commit" /\ CursorFits(loc[i].block) =>
                           ~LaunchIndexRefuses(LogsOf(i, loc[i].block))
                      /\ pc[i] = "poolCommit" /\ (\A s \in loc[i].logs : TradeAccepted(s)) =>
                           ~TradeIndexRefuses(loc[i].logs)
    BY DEF IndexesNeverRefuse
  <2>0. chainBlocks \subseteq Block /\ \A b \in Block : Height[b] \in Nat
    BY <1>1, BlockTreeAssumption DEF TypeInv, TypeOK, TableType
  <2>1. ASSUME pc[i] = "commit", CursorFits(loc[i].block),
               NEW l \in LogsOf(i, loc[i].block), NEW k \in rawLogs \cap LaunchLogs,
               k.market = l.market
        PROVE  k = l
    <3> DEFINE b == loc[i].block
               C == chainBlocks \cup {b}
    <3>1. b \in Block /\ l \in LaunchLogs /\ l.block = b /\ tip # None
      BY <1>1, <2>1 DEF TypeInv, LocalReady, Ready, LogsOf
    <3>2. k.block \in chainBlocks
      BY <1>1 DEF DerivedFromCanonical
    <3>3. Height[b] = Height[tip] + 1 /\ Parent[b] = tip
      BY <2>1 DEF CursorFits
    <3>4. tip \in chainBlocks /\ \A c \in chainBlocks : Height[c] <= Height[tip]
      BY <1>1, <3>1 DEF BranchInv, CanonicalBranch, IsHead
    <3> HIDE DEF b
    <3>5. \A c \in chainBlocks : Height[c] < Height[b]
      BY <2>0, <3>1, <3>3, <3>4
    <3>6. OnePerHeight(C) /\ ParentClosed(C)
      BY <1>1, <2>0, <3>1, <3>3, <3>4, <3>5
         DEF BranchInv, CanonicalBranch, OnePerHeight, ParentClosed
    <3>7. IsHead(b, C)
      BY <2>0, <3>1, <3>5 DEF IsHead
    <3>8. C \in Chains
      BY <2>0, <3>1, <3>6, <3>7 DEF Chains
    <3> QED
      BY <2>1, <3>1, <3>2, <3>8, ChainContentAssumption
  <2>2. ASSUME pc[i] = "poolCommit", \A s \in loc[i].logs : TradeAccepted(s),
               NEW s \in NewTrades(loc[i].logs), NEW r \in SwapLogs, r.tx = s.tx,
               trades[r] = "canonical" \/ r \in NewTrades(loc[i].logs)
        PROVE  r = s
    <3>1. s \in SwapLogs /\ s.block \in chainBlocks
      BY <1>1, <2>2 DEF TypeInv, LocalReady, Ready, NewTrades, TradeAccepted
    <3>2. r.block \in chainBlocks
      BY <1>1, <2>2 DEF DerivedFromCanonical, NewTrades, TradeAccepted
    <3> QED
      BY <1>1, <2>2, <3>1, <3>2, BranchIsChain, ChainContentAssumption
  <2> QED
    BY <2>1, <2>2 DEF LaunchIndexRefuses, TradeIndexRefuses
<1> QED
  BY <1>1, TypeCorrect, BranchAlways, DerivedAlwaysCanonical, PTL

----------------------------------------------------------------------------
(* Pool cursors never pass the block cursor *)

\* A backfill runs once the scan has reached the confirmed head, so what the
\* local variables l of an indexer at step s ask for lies below the cursor t.
Reached(l) ==
  IF l.head > ConfirmationDepth THEN l.head - ConfirmationDepth ELSE 0

Backfills(s, l, t) ==
  /\ s \in {"pools", "poolLogs", "poolCommit"} => t # None /\ Reached(l) <= Height[t]
  /\ s = "poolCommit" => l.upto <= Height[t]

BackfillsBehindTip == \A i \in Indexer : Backfills(pc[i], loc[i], tip)

PoolInv == BackfillsBehindTip /\ PoolCursorBehindTip

LEMMA MovedBackfills ==
  ASSUME OneIndexer, LocalType, NEW i \in Indexer, NEW s, NEW l,
         Goto(i, s), Keep(i, l), Backfills(s, l, tip')
  PROVE  BackfillsBehindTip'
<1> SUFFICES ASSUME NEW j \in Indexer PROVE Backfills(pc'[j], loc'[j], tip')
  BY DEF BackfillsBehindTip, Backfills, Reached
<1>1. j = i /\ pc'[j] = s /\ loc'[j] = l
  BY DEF OneIndexer, LocalType, Goto, Keep
<1> QED
  BY <1>1

\* An indexer that moves to a step outside the backfill.
LEMMA AwayFromPools ==
  ASSUME OneIndexer, LocalType, NEW i \in Indexer,
         NEW s \in Steps \ {"pools", "poolLogs", "poolCommit"}, Goto(i, s)
  PROVE  BackfillsBehindTip'
<1> SUFFICES ASSUME NEW j \in Indexer PROVE pc'[j] = s
  BY DEF BackfillsBehindTip, Backfills
<1> QED
  BY DEF OneIndexer, LocalType, Goto

LEMMA GivenUpPools ==
  ASSUME OneIndexer, LocalType, NEW i \in Indexer,
         (\E s : Abort(i, s)) \/ Race(i)
  PROVE  BackfillsBehindTip'
<1>1. Goto(i, "idle") \/ Goto(i, "head")
  BY DEF Abort, Race
<1> QED
  BY <1>1, AwayFromPools DEF Steps

\* The steps that only move the indexer on.
LEMMA QuietPools ==
  ASSUME OneIndexer, TypeInv, BranchInv, PoolInv, NEW i \in Indexer,
         \/ Start(i) \/ Initialize(i) \/ ReadHead(i) \/ OpenCursor(i)
         \/ CheckTip(i) \/ Walk(i) \/ MissingBlock(i) \/ ReadLogs(i) \/ EndScan(i)
         \/ ReadPoolLogs(i) \/ ReloadCursor(i) \/ ReadBaseline(i) \/ ReadBlock(i)
  PROVE  BackfillsBehindTip'
<1> USE DEF TypeInv, TypeOK, PoolInv
<1>0. loc[i] \in Loc /\ Current(pc[i], loc[i], tip, chainBlocks) /\ Backfills(pc[i], loc[i], tip)
  BY DEF BranchInv, LocalCursorCurrent, LocalType, BackfillsBehindTip
<1>1. UNCHANGED tip
  BY DEF Start, Initialize, ReadHead, OpenCursor, CheckTip, Walk, MissingBlock,
         ReadLogs, EndScan, ReadPoolLogs, ReloadCursor, ReadBaseline, ReadBlock, cursor
<1>2. CASE Start(i) \/ Initialize(i) \/ ReadHead(i) \/ OpenCursor(i) \/ CheckTip(i)
           \/ ReadLogs(i) \/ ReloadCursor(i) \/ ReadBaseline(i)
  <2>1. \E s \in Steps \ {"pools", "poolLogs", "poolCommit"} : Goto(i, s)
    BY <1>2 DEF Start, Initialize, ReadHead, OpenCursor, CheckTip, ReadLogs,
                ReloadCursor, ReadBaseline, Steps
  <2> QED
    BY <2>1, AwayFromPools
<1>3. CASE Walk(i)
  <2>1. Goto(i, "rollback") \/ Goto(i, "walk") \/ Abort(i, "halted")
    BY <1>3 DEF Walk, Goto, At_, LocalType
  <2> QED
    BY <2>1, AwayFromPools, GivenUpPools DEF Steps
<1>4. CASE MissingBlock(i)
  BY <1>4, GivenUpPools DEF MissingBlock
<1>5. CASE ReadBlock(i)
  <2>1. Goto(i, "commit") \/ Race(i)
    BY <1>5 DEF ReadBlock
  <2> QED
    BY <2>1, AwayFromPools, GivenUpPools DEF Steps
<1>6. CASE EndScan(i)
  <2>1. tip # None /\ loc[i].cur = tip /\ Height[tip] + 1 > Reached(loc[i])
    BY <1>0, <1>6 DEF EndScan, At_, Current, ConfirmedHead, Reached
  <2>2. Reached(loc[i]) \in Int
    BY <1>0, IndexerAssumption DEF Reached, Loc
  <2>3. Height[tip] \in Int
    BY <2>1, BlockTreeAssumption DEF CursorType
  <2>4. Backfills("pools", loc[i], tip')
    BY <1>1, <2>1, <2>2, <2>3 DEF Backfills
  <2>5. Goto(i, "pools") /\ Keep(i, loc[i])
    BY <1>6 DEF EndScan, Keep, LocalType
  <2> QED
    BY <2>4, <2>5, MovedBackfills
<1>7. CASE ReadPoolLogs(i)
  <2> DEFINE u == Min2(ConfirmedHead(i), loc[i].number + ChunkSize - 1)
  <2>1. tip # None /\ Reached(loc[i]) <= Height[tip] /\ ConfirmedHead(i) = Reached(loc[i])
    BY <1>0, <1>7 DEF ReadPoolLogs, At_, Backfills, ConfirmedHead, Reached
  <2>2. PICK ls : Goto(i, "poolCommit") /\ Keep(i, [loc[i] EXCEPT !.upto = u, !.number = 0, !.logs = ls])
    BY <1>7 DEF ReadPoolLogs
  <2>3. u \in Int /\ u <= ConfirmedHead(i)
    BY <1>0, IndexerAssumption, ConfirmedHeadNat DEF Min2, Loc
  <2>4. u <= Height[tip]
    BY <2>1, <2>3, BlockTreeAssumption, ConfirmedHeadNat DEF CursorType
  <2> HIDE DEF u
  <2> DEFINE l == [loc[i] EXCEPT !.upto = u, !.number = 0, !.logs = ls]
  <2>5. l.upto = u /\ l.head = loc[i].head
    BY <1>0 DEF Loc
  <2> HIDE DEF l
  <2>6. Backfills("poolCommit", l, tip')
    BY <1>1, <2>1, <2>4, <2>5 DEF Backfills, Reached
  <2>7. Keep(i, l)
    BY <2>2 DEF l
  <2> QED
    BY <2>2, <2>6, <2>7, MovedBackfills
<1> QED
  BY <1>2, <1>3, <1>4, <1>5, <1>6, <1>7

\* The transactions: where they leave the indexer and the pool cursors.
LEMMA WritersPools ==
  ASSUME OneIndexer, TypeInv, BranchInv, DerivedFromCanonical, PoolInv,
         NEW i \in Indexer, Writers(i)
  PROVE  PoolInv'
<1> USE DEF TypeInv, TypeOK
<1>0. loc[i] \in Loc /\ Current(pc[i], loc[i], tip, chainBlocks) /\ Ready(tip, pc[i], loc[i])
      /\ Backfills(pc[i], loc[i], tip)
  BY DEF BranchInv, LocalCursorCurrent, LocalType, LocalReady, PoolInv, BackfillsBehindTip
<1>a. poolThrough \in [Market -> Nat \cup {NoPool}] /\ launchedIn \in [Market -> Block \cup {None}]
      /\ chainBlocks \subseteq Block /\ tip \in Block \cup {None}
      /\ \A b \in Block : Height[b] \in Nat
  BY BlockTreeAssumption DEF TableType, CursorType
<1>b. ASSUME NEW m \in Market, launchedIn[m] # None
      PROVE  /\ tip \in Block /\ tip # None /\ launchedIn[m] \in Block
             /\ LaunchHeight(m) <= Height[tip] /\ LaunchHeight(m) \in Nat
  <2>1. launchedIn[m] \in chainBlocks
    BY <1>b DEF DerivedFromCanonical
  <2> QED
    BY <1>a, <2>1 DEF BranchInv, CanonicalBranch, IsHead, LaunchHeight
<1>c. \A m \in Market : poolThrough[m] # NoPool =>
        launchedIn[m] # None /\ poolThrough[m] <= Height[tip] /\ poolThrough[m] \in Nat
  BY <1>a DEF PoolInv, PoolCursorBehindTip, PoolCursorsListed
<1>1. CASE InitializeCursor(i)
  <2>1. tip = None
    BY <1>0, <1>1 DEF InitializeCursor, At_, Current
  <2>2. \A m \in Market : poolThrough[m] = NoPool
    BY <1>b, <1>c, <2>1
  <2>3. UNCHANGED poolThrough /\ (Goto(i, "tip") \/ Abort(i, "stale"))
    BY <1>1 DEF InitializeCursor
  <2>4. BackfillsBehindTip'
    BY <2>3, AwayFromPools, GivenUpPools DEF Steps
  <2> QED
    BY <2>2, <2>3, <2>4 DEF PoolInv, PoolCursorBehindTip
<1>2. CASE Rollback(i)
  <2> DEFINE a == loc[i].block
  <2>1. Goto(i, "reload") \/ Abort(i, "stale")
    BY <1>2 DEF Rollback
  <2>2. BackfillsBehindTip'
    BY <2>1, AwayFromPools, GivenUpPools DEF Steps
  <2>3. CASE UNCHANGED <<tip, poolThrough>>
    BY <2>2, <2>3 DEF PoolInv, PoolCursorBehindTip
  <2>4. CASE tip' = a /\ poolThrough' = PoolsAfterRollback(a)
    <3>1. a \in Block
      BY <1>0, <1>2 DEF Rollback, At_, Ready
    <3> HIDE DEF a
    <3> SUFFICES ASSUME NEW m \in Market, poolThrough'[m] # NoPool
                 PROVE  poolThrough'[m] <= Height[a]
      BY <2>2, <2>4 DEF PoolInv, PoolCursorBehindTip
    <3>2. /\ m \notin RemovedMarkets(a)
          /\ poolThrough'[m] = IF poolThrough[m] > Height[a]
                               THEN Max2(LaunchHeight(m) - 1, Height[a]) ELSE poolThrough[m]
      BY <2>4 DEF PoolsAfterRollback
    <3>3. poolThrough[m] # NoPool
      BY <1>a, <3>1, <3>2 DEF NoPool
    <3>4. LaunchHeight(m) <= Height[a] /\ LaunchHeight(m) \in Nat /\ poolThrough[m] \in Nat
      BY <1>a, <1>b, <1>c, <3>1, <3>2, <3>3 DEF RemovedMarkets
    <3> QED
      BY <1>a, <3>1, <3>2, <3>4 DEF Max2
  <2> QED
    BY <1>2, <2>3, <2>4 DEF Rollback, journal
<1>3. CASE CommitBlock(i)
  <2> DEFINE b == loc[i].block
  <2>1. UNCHANGED poolThrough /\ (Goto(i, "block") \/ Goto(i, "scan") \/ Abort(i, "stale") \/ Race(i))
    BY <1>3 DEF CommitBlock
  <2>2. BackfillsBehindTip'
    BY <2>1, AwayFromPools, GivenUpPools DEF Steps
  <2>3. CASE UNCHANGED tip
    BY <2>1, <2>2, <2>3 DEF PoolInv, PoolCursorBehindTip
  <2>4. CASE CursorFits(b) /\ tip' = b
    <3>1. b \in Block /\ tip \in Block /\ Height[b] = Height[tip] + 1
      BY <1>0, <1>3, <1>a, <2>4 DEF CommitBlock, At_, Ready, CursorFits
    <3> HIDE DEF b
    <3>2. \A m \in Market : poolThrough[m] # NoPool => poolThrough[m] <= Height[b]
      BY <1>a, <1>c, <3>1
    <3> QED
      BY <2>1, <2>2, <2>4, <3>2 DEF PoolInv, PoolCursorBehindTip
  <2> QED
    BY <1>3, <2>3, <2>4 DEF CommitBlock
<1>4. CASE LoadPools(i)
  <2> DEFINE n == ConfirmedHead(i)
  <2>1. UNCHANGED tip /\ poolThrough' = PoolRows(n) /\ At_(i, "pools")
    BY <1>4 DEF LoadPools
  <2>2. \A m \in Market : poolThrough'[m] # NoPool => poolThrough'[m] <= Height[tip]
    <3> HIDE DEF n
    <3> SUFFICES ASSUME NEW m \in Market, poolThrough'[m] # NoPool
                 PROVE  poolThrough'[m] <= Height[tip]
      OBVIOUS
    <3>1. CASE poolThrough[m] = NoPool
      <4>1. launchedIn[m] # None /\ poolThrough'[m] = LaunchHeight(m) - 1
        BY <2>1, <3>1 DEF PoolRows
      <4> QED
        BY <1>a, <1>b, <4>1
    <3>2. CASE poolThrough[m] # NoPool
      BY <1>c, <2>1, <3>2 DEF PoolRows
    <3> QED
      BY <3>1, <3>2
  <2>3. CASE Abort(i, "live")
    BY <2>1, <2>2, <2>3, GivenUpPools DEF PoolInv, PoolCursorBehindTip
  <2>4. ASSUME NEW m, NEW k, Goto(i, "poolLogs"),
               Keep(i, [loc[i] EXCEPT !.pool = m, !.number = k])
        PROVE  PoolInv'
    <3> DEFINE l == [loc[i] EXCEPT !.pool = m, !.number = k]
    <3>1. l.head = loc[i].head
      BY <1>0 DEF Loc
    <3> HIDE DEF l
    <3>2. Backfills("poolLogs", l, tip')
      BY <1>0, <2>1, <3>1 DEF Backfills, Reached, At_
    <3>3. Keep(i, l)
      BY <2>4 DEF l
    <3>4. BackfillsBehindTip'
      BY <2>4, <3>2, <3>3, MovedBackfills
    <3> QED
      BY <2>1, <2>2, <3>4 DEF PoolInv, PoolCursorBehindTip
  <2> QED
    BY <1>4, <2>3, <2>4 DEF LoadPools
<1>5. CASE CommitPool(i)
  <2> DEFINE m == loc[i].pool
             l == [loc[i] EXCEPT !.pool = None, !.logs = {}, !.upto = 0]
  <2>1. UNCHANGED tip /\ At_(i, "poolCommit")
    BY <1>5 DEF CommitPool
  <2>2. CASE Abort(i, "stale") /\ UNCHANGED poolThrough
    BY <2>1, <2>2, GivenUpPools DEF PoolInv, PoolCursorBehindTip
  <2>3. CASE /\ Goto(i, "pools") /\ Keep(i, l)
             /\ poolThrough' = IF poolThrough[m] = NoPool THEN poolThrough
                               ELSE [poolThrough EXCEPT ![m] = Max2(@, loc[i].upto)]
    <3>1. l.head = loc[i].head
      BY <1>0 DEF Loc
    <3>2. /\ tip # None /\ Reached(loc[i]) <= Height[tip] /\ loc[i].upto <= Height[tip]
          /\ loc[i].upto \in Int
      BY <1>0, <2>1 DEF Backfills, At_, Loc
    <3> HIDE DEF l
    <3>3. BackfillsBehindTip'
      <4>1. Backfills("pools", l, tip')
        BY <2>1, <3>1, <3>2 DEF Backfills, Reached
      <4> QED
        BY <2>3, <4>1, MovedBackfills
    <3>4. ASSUME NEW k \in Market, poolThrough'[k] # NoPool PROVE poolThrough'[k] <= Height[tip]
      <4>1. poolThrough[k] # NoPool
        BY <1>a, <2>3, <3>4
      <4>2. poolThrough'[k] = poolThrough[k] \/ poolThrough'[k] = Max2(poolThrough[k], loc[i].upto)
        BY <1>a, <2>3
      <4> QED
        BY <1>a, <1>c, <3>2, <4>1, <4>2 DEF Max2
    <3> QED
      BY <2>1, <3>3, <3>4 DEF PoolInv, PoolCursorBehindTip
  <2> QED
    BY <1>5, <2>2, <2>3 DEF CommitPool
<1> QED
  BY <1>1, <1>2, <1>3, <1>4, <1>5 DEF Writers

LEMMA PoolsNext ==
  ASSUME OneIndexer, TypeInv, BranchInv, DerivedFromCanonical, PoolInv, [Next]_vars
  PROVE  PoolInv'
<1>1. ASSUME NEW i \in Indexer, Writers(i) PROVE PoolInv'
  BY <1>1, WritersPools
<1>2. CASE UNCHANGED <<tip, generation, journal>>
  <2>1. PoolCursorBehindTip'
    BY <1>2 DEF PoolInv, PoolCursorBehindTip, journal
  <2>2. ASSUME NEW i \in Indexer, Step(i) PROVE PoolInv'
    BY <1>1, <2>1, <2>2, QuietPools DEF Step, Writers, PoolInv
  <2>3. ASSUME NEW i \in Indexer, Disturb(i) PROVE BackfillsBehindTip'
    <3>1. CASE Crash(i)
      BY <3>1, AwayFromPools DEF Crash, TypeInv, TypeOK, Steps
    <3> QED
      BY <2>3, <3>1, GivenUpPools
         DEF Disturb, RefuseRegistry, Fault, RemovedLog, TypeInv, TypeOK
  <2>4. CASE RemoteGrow \/ RemoteFlip \/ UNCHANGED vars
    <3>1. UNCHANGED <<pc, loc, tip>>
      BY <2>4 DEF RemoteGrow, RemoteFlip, vars, local, cursor
    <3> QED
      BY <2>1, <3>1 DEF PoolInv, BackfillsBehindTip, Backfills, Reached
  <2> QED
    BY <2>1, <2>2, <2>3, <2>4 DEF Next, PoolInv
<1> QED
  BY <1>1, <1>2, OthersWriteNothing

\* The backfill of a pool never runs ahead of the blocks: no swap of a block
\* that is still to come is passed over.
THEOREM OneIndexerPoolsBehind == OneIndexer => (Spec => []PoolCursorBehindTip)
<1> SUFFICES ASSUME OneIndexer PROVE Spec => []PoolCursorBehindTip
  OBVIOUS
<1>1. Init => PoolInv
  BY DEF Init, PoolInv, BackfillsBehindTip, Backfills, PoolCursorBehindTip
<1>2. TypeInv /\ BranchInv /\ DerivedFromCanonical /\ PoolInv /\ [Next]_vars => PoolInv'
  BY PoolsNext
<1>3. PoolInv => PoolCursorBehindTip
  BY DEF PoolInv
<1> QED
  BY <1>1, <1>2, <1>3, TypeCorrect, BranchAlways, DerivedAlwaysCanonical, PTL DEF Spec
=============================================================================
