------------------------------ MODULE Indexer ------------------------------
(***************************************************************************)
(* The QUOTE chain indexer: QuoteIndexer.sync running against one JSON-RPC *)
(* node and the PostgreSQL tables of PostgresIndexerStore.                 *)
(*                                                                         *)
(* Every RPC read is an action of its own, because the node may change its *)
(* chain between any two of them; every store transaction is one action,   *)
(* because it runs under pg_advisory_xact_lock.  The plain store read next *)
(* to an RPC read or a transaction is merged into that step.  An indexer   *)
(* that fails or crashes loses its local state and keeps the tables.       *)
(* Every market is a DIRECT one (engine_kind 1); of a log the model keeps  *)
(* its block, its market and, for a swap, its transaction.                 *)
(***************************************************************************)
EXTENDS BlockTree, Sequences

CONSTANTS
  Indexer,            \* indexer processes sharing the database
  Market,             \* launch ids
  LaunchLogs,         \* QUOTEMarketLaunched logs, [block, market]
  SwapLogs,           \* pool Swap logs, [block, market, tx]
  ConfirmationDepth,
  ChunkSize,
  MaxReorgDepth,
  MaxFlips,           \* bound: chain switches of the RPC node
  MaxFaults,          \* bound: RPC failures, crashes and refused registries
  None

ASSUME IndexerAssumption ==
  /\ ConfirmationDepth \in Nat
  /\ ChunkSize \in Nat \ {0}
  /\ MaxReorgDepth \in Nat \ {0}
  /\ MaxFlips \in Nat /\ MaxFaults \in Nat
  /\ None \notin Block /\ None \notin Market
  /\ IsFiniteSet(SwapLogs)
  /\ \A l \in LaunchLogs : /\ l.block \in Block /\ l.market \in Market
                           /\ Height[l.block] > BaselineNumber
  /\ \A s \in SwapLogs : s.block \in Block /\ s.market \in Market
  /\ LaunchLogs \cap SwapLogs = {}

\* What the contracts guarantee of one chain: a launch id is used once, a
\* pool only trades once its market exists, a transaction is mined once.
ASSUME ChainContentAssumption ==
  \A C \in Chains :
    /\ \A l, k \in LaunchLogs :
         l.block \in C /\ k.block \in C /\ l.market = k.market => l = k
    /\ \A s \in SwapLogs : s.block \in C =>
         \E l \in LaunchLogs : /\ l.market = s.market /\ l.block \in C
                               /\ Height[l.block] <= Height[s.block]
    /\ \A s, r \in SwapLogs :
         s.block \in C /\ r.block \in C /\ s.tx = r.tx => s = r

VARIABLES
  remote,        \* the chain the RPC node serves now
  flips,         \* chain switches so far
  faults,        \* failures so far
  pc, loc,       \* per indexer: next step and local variables of the attempt
  tip,           \* chain_cursors: canonical_number and canonical_hash
  observed,      \* chain_cursors.observed_number
  generation,    \* chain_cursors.generation
  status,        \* chain_cursors.status
  chainBlocks,   \* chain_blocks rows with canonical = true
  rawLogs,       \* raw_logs rows with canonical = true
  launchedIn,    \* markets: the block of the launch, or None
  trades,        \* market_trade_events, by log
  stats,         \* market_live_stats.total_trade_count (0: no row)
  poolThrough,   \* indexer_pancake_v3_pool_cursors.indexed_through
  outbox         \* outbox rows, one set of them per transaction

env     == <<remote, flips, faults>>
local   == <<pc, loc>>
cursor  == <<tip, observed, generation, status>>
derived == <<rawLogs, launchedIn, trades, stats>>
journal == <<chainBlocks, derived, poolThrough, outbox>>
vars    == <<env, local, cursor, journal>>

NoPool == -1

EmptyLoc ==
  [attempt |-> 0, head |-> 0, cur |-> None, number |-> 0, block |-> None,
   logs |-> {}, upto |-> 0, pool |-> None]

Loc == [attempt : 0..2, head : Nat, cur : Block \cup {None}, number : Int,
        block : Block \cup {None}, logs : SUBSET (LaunchLogs \cup SwapLogs),
        upto : Int, pool : Market \cup {None}]

Steps == {"idle", "init", "head", "open", "baseline", "create", "tip", "walk",
          "rollback", "reload", "scan", "block", "commit",
          "pools", "poolLogs", "poolCommit"}

Init ==
  /\ remote \in { C \in Chains : \A b \in C : Height[b] = BaselineNumber }
  /\ flips = 0 /\ faults = 0
  /\ pc = [i \in Indexer |-> "idle"]
  /\ loc = [i \in Indexer |-> EmptyLoc]
  /\ tip = None /\ observed = 0 /\ generation = 0 /\ status = "none"
  /\ chainBlocks = {} /\ rawLogs = {}
  /\ launchedIn = [m \in Market |-> None]
  /\ trades = [s \in SwapLogs |-> "absent"]
  /\ stats = [m \in Market |-> 0]
  /\ poolThrough = [m \in Market |-> NoPool]
  /\ outbox = <<>>

----------------------------------------------------------------------------
(* Control flow of one sync *)

Max2(a, b) == IF a >= b THEN a ELSE b
Min2(a, b) == IF a <= b THEN a ELSE b

At_(i, step) == pc[i] = step
Goto(i, step) == pc' = [pc EXCEPT ![i] = step]
Keep(i, l) == loc' = [loc EXCEPT ![i] = l]

\* setStatus is an UPDATE: without a cursor row it changes nothing.
SetStatus(s) == status' = IF tip = None THEN status ELSE s

Abort(i, s) == Goto(i, "idle") /\ Keep(i, EmptyLoc) /\ SetStatus(s)

\* A CanonicalRaceError restarts the attempt, twice at most.
Race(i) ==
  \/ /\ loc[i].attempt < 2
     /\ Goto(i, "head")
     /\ Keep(i, [EmptyLoc EXCEPT !.attempt = loc[i].attempt + 1])
     /\ UNCHANGED status
  \/ /\ loc[i].attempt = 2
     /\ Abort(i, "stale")

ConfirmedHead(i) ==
  IF loc[i].head > ConfirmationDepth THEN loc[i].head - ConfirmationDepth ELSE 0

\* Mutant: the ancestor search goes one block too deep.
OldestAncestorTooDeep(n) ==
  Max2(BaselineNumber, IF n > MaxReorgDepth THEN n - MaxReorgDepth - 1 ELSE 0)

\* Mutant: the ancestor search stops one block short.
OldestAncestorTooShallow(n) ==
  Max2(BaselineNumber, IF n >= MaxReorgDepth THEN n - MaxReorgDepth + 1 ELSE 0)

\* How far below a cursor at block n the search for an ancestor may go.
OldestAncestor(n) ==
  Max2(BaselineNumber, IF n > MaxReorgDepth THEN n - MaxReorgDepth ELSE 0)

Start(i) ==
  /\ At_(i, "idle")
  /\ Goto(i, "init")
  /\ UNCHANGED <<env, loc, cursor, journal>>

\* validateChain and installRegistry accept the registry.
Initialize(i) ==
  /\ At_(i, "init")
  /\ Goto(i, "head")
  /\ SetStatus("syncing")
  /\ UNCHANGED <<env, loc, tip, observed, generation, journal>>

\* A code hash, a pin or the registry snapshot does not match.
RefuseRegistry(i) ==
  /\ At_(i, "init")
  /\ faults < MaxFaults
  /\ faults' = faults + 1
  /\ Abort(i, "halted")
  /\ UNCHANGED <<remote, flips, tip, observed, generation, journal>>

ReadHead(i) ==
  /\ At_(i, "head")
  /\ Goto(i, "open")
  /\ Keep(i, [loc[i] EXCEPT !.head = HeadNumber(remote)])
  /\ UNCHANGED <<env, cursor, journal>>

\* loadCursor and updateObservedHead.
OpenCursor(i) ==
  /\ At_(i, "open")
  /\ IF tip = None
     THEN Goto(i, "baseline") /\ UNCHANGED <<loc, observed>>
     ELSE /\ Goto(i, "tip")
          /\ Keep(i, [loc[i] EXCEPT !.cur = tip])
          /\ observed' = Max2(observed, loc[i].head)
  /\ UNCHANGED <<env, tip, generation, status, journal>>

\* getBlockByNumber(firstStartBlock - 1).
ReadBaseline(i) ==
  /\ At_(i, "baseline")
  /\ \E b \in At(remote, BaselineNumber) : Keep(i, [loc[i] EXCEPT !.block = b])
  /\ Goto(i, "create")
  /\ UNCHANGED <<env, cursor, journal>>

\* The insert keeps a cursor another process made; the index on canonical
\* heights refuses a second baseline.
InitializeCursor(i) ==
  LET b == loc[i].block IN
  /\ At_(i, "create")
  /\ IF \E c \in At(chainBlocks, BaselineNumber) : c # b
     THEN /\ Abort(i, "stale")
          /\ UNCHANGED <<tip, observed, generation, chainBlocks>>
     ELSE /\ Goto(i, "tip")
          /\ chainBlocks' = chainBlocks \cup {b}
          /\ tip' = IF tip = None THEN b ELSE tip
          /\ Keep(i, [loc[i] EXCEPT !.cur = tip', !.block = None])
          /\ observed' = Max2(observed, Max2(loc[i].head, BaselineNumber))
          /\ status' = IF tip = None THEN "syncing" ELSE status
          /\ UNCHANGED generation
  /\ UNCHANGED <<env, derived, poolThrough, outbox>>

----------------------------------------------------------------------------
(* ensureCanonicalCursor *)

CheckTip(i) ==
  /\ At_(i, "tip")
  /\ \E b \in At(remote, Height[loc[i].cur]) :
       IF b = loc[i].cur
       THEN Goto(i, "scan") /\ UNCHANGED loc
       ELSE /\ Goto(i, "walk")
            /\ Keep(i, [loc[i] EXCEPT !.number = Height[loc[i].cur]])
  /\ UNCHANGED <<env, cursor, journal>>

\* One turn of the ancestor search, from the tip down to the oldest height.
Walk(i) ==
  LET n == loc[i].number
      common == At(remote, n) \cap chainBlocks
  IN
  /\ At_(i, "walk")
  /\ \/ /\ common # {}
        /\ \E a \in common : Keep(i, [loc[i] EXCEPT !.block = a])
        /\ Goto(i, "rollback")
        /\ UNCHANGED status
     \/ /\ common = {}
        /\ At(remote, n) # {} \/ At(chainBlocks, n) = {}
        /\ n > OldestAncestor(Height[loc[i].cur])
        /\ Keep(i, [loc[i] EXCEPT !.number = n - 1])
        /\ UNCHANGED <<pc, status>>
     \/ /\ common = {}
        /\ At(remote, n) # {} \/ At(chainBlocks, n) = {}
        /\ n <= OldestAncestor(Height[loc[i].cur])
        /\ Abort(i, "halted")        \* reorg_beyond_retained_history
  /\ UNCHANGED <<env, tip, observed, generation, journal>>

\* The read of a height the node does not have (yet) fails the sync.
MissingBlock(i) ==
  /\ \/ /\ At_(i, "tip")
        /\ At(remote, Height[loc[i].cur]) = {}
     \/ /\ At_(i, "walk")
        /\ At(remote, loc[i].number) = {} /\ At(chainBlocks, loc[i].number) # {}
     \/ /\ At_(i, "block")
        /\ At(remote, Height[loc[i].cur] + 1) = {}
  /\ Abort(i, "stale")
  /\ UNCHANGED <<env, tip, observed, generation, journal>>

(* The rollback transaction to ancestor a *)

LaunchHeight(m) == Height[launchedIn[m]]

\* Mutant: a market launched right above the ancestor is overlooked.
RemovedMarketsOffByOne(a) ==
  { m \in Market : launchedIn[m] # None /\ LaunchHeight(m) > Height[a] + 1 }

RemovedMarkets(a) ==
  { m \in Market : launchedIn[m] # None /\ LaunchHeight(m) > Height[a] }

\* Mutant: the block right above the ancestor is overlooked.
OrphanedTradesOffByOne(a) ==
  { s \in SwapLogs : trades[s] = "canonical" /\ Height[s.block] > Height[a] + 1 }

OrphanedTrades(a) ==
  { s \in SwapLogs : trades[s] = "canonical" /\ Height[s.block] > Height[a] }

\* Markets that stay but lose a trade.
RetainedAffected(a) ==
  { s.market : s \in OrphanedTrades(a) } \ RemovedMarkets(a)

\* Mutant: the block right above the ancestor stays canonical.
KeptBlocksOffByOne(a) == UpTo(chainBlocks, Height[a] + 1)

KeptBlocks(a) == UpTo(chainBlocks, Height[a])

KeptLogs(a) == { l \in rawLogs : Height[l.block] <= Height[a] }

MarketsAfterRollback(a) ==
  [m \in Market |-> IF m \in RemovedMarkets(a) THEN None ELSE launchedIn[m]]

\* Mutant: the trades of a removed market are orphaned, not deleted.
TradesOnlyOrphaned(a) ==
  [s \in SwapLogs |-> IF s \in OrphanedTrades(a) THEN "orphaned" ELSE trades[s]]

\* Trades of a removed market are deleted, the others only orphaned.
TradesAfterRollback(a) ==
  [s \in SwapLogs |->
     IF s.market \in RemovedMarkets(a) THEN "absent"
     ELSE IF s \in OrphanedTrades(a) THEN "orphaned" ELSE trades[s]]

CanonicalTrades(t, m) == { s \in SwapLogs : s.market = m /\ t[s] = "canonical" }

\* Mutant: the counter is decremented for each trade row above the ancestor,
\* the ones an earlier rollback has orphaned included.
StatsDecremented(a) ==
  [m \in Market |->
     IF m \in RemovedMarkets(a) THEN 0
     ELSE stats[m] - Cardinality({ s \in SwapLogs :
            s.market = m /\ trades[s] # "absent" /\ Height[s.block] > Height[a] })]

\* rebuild_market_trade_projection recounts; a removed market loses its row.
StatsAfterRollback(a) ==
  [m \in Market |->
     IF m \in RemovedMarkets(a) THEN 0
     ELSE IF m \in RetainedAffected(a)
          THEN Cardinality(CanonicalTrades(TradesAfterRollback(a), m))
          ELSE stats[m]]

\* Mutant: without the clamp to the ancestor.
PoolsNotClamped(a) ==
  [m \in Market |-> IF m \in RemovedMarkets(a) THEN NoPool ELSE poolThrough[m]]

\* Mutant: without the cascade of the foreign key.
PoolsNotCascaded(a) ==
  [m \in Market |->
     IF poolThrough[m] > Height[a]
     THEN Max2(LaunchHeight(m) - 1, Height[a]) ELSE poolThrough[m]]

\* The foreign key of a removed market cascades to its pool cursor.
PoolsAfterRollback(a) ==
  [m \in Market |->
     IF m \in RemovedMarkets(a) THEN NoPool
     ELSE IF poolThrough[m] > Height[a]
          THEN Max2(LaunchHeight(m) - 1, Height[a]) ELSE poolThrough[m]]

Launched(l, g)  == [topic |-> "market.launched", log |-> l, generation |-> g]
Removed(m, g)   == [topic |-> "market.removed", market |-> m, generation |-> g]
Reorg(old, a, g) ==
  [topic |-> "chain.reorg", previous |-> old, ancestor |-> a, generation |-> g]
TradeUpsert(s)  == [topic |-> "market.trade.upsert", log |-> s]
TradeReorg(s)   == [topic |-> "market.trade.reorg", log |-> s]
Rebuilt(m)      == [topic |-> "market.trades.rebuilt", market |-> m]

\* Mutant: a rollback that touches no market is not announced.
EventsOnlyOfMarkets(a) ==
  { Reorg(tip, a, generation + 1) : m \in RemovedMarkets(a) \cup RetainedAffected(a) }
    \cup { TradeReorg(s) : s \in OrphanedTrades(a) }
    \cup { Rebuilt(m) : m \in RetainedAffected(a) }
    \cup { Removed(m, generation + 1) : m \in RemovedMarkets(a) }

\* Mutant: no event for a removed market.
EventsWithoutRemovals(a) ==
  {Reorg(tip, a, generation + 1)}
    \cup { TradeReorg(s) : s \in OrphanedTrades(a) }
    \cup { Rebuilt(m) : m \in RetainedAffected(a) }

\* Mutant: only the trades of markets that stay are announced.
EventsOfRetainedTrades(a) ==
  {Reorg(tip, a, generation + 1)}
    \cup { TradeReorg(s) : s \in { o \in OrphanedTrades(a) : o.market \in RetainedAffected(a) } }
    \cup { Rebuilt(m) : m \in RetainedAffected(a) }
    \cup { Removed(m, generation + 1) : m \in RemovedMarkets(a) }

\* Mutant: a kept market is announced as rebuilt, its trades are not.
EventsWithoutTrades(a) ==
  {Reorg(tip, a, generation + 1)}
    \cup { Rebuilt(m) : m \in RetainedAffected(a) }
    \cup { Removed(m, generation + 1) : m \in RemovedMarkets(a) }

RollbackEvents(a) ==
  {Reorg(tip, a, generation + 1)}
    \cup { TradeReorg(s) : s \in OrphanedTrades(a) }
    \cup { Rebuilt(m) : m \in RetainedAffected(a) }
    \cup { Removed(m, generation + 1) : m \in RemovedMarkets(a) }

\* The old tip is read back at the height the attempt started from; the
\* transaction refuses if that is not the cursor any more.
Rollback(i) ==
  /\ At_(i, "rollback")
  /\ IF tip \in At(chainBlocks, Height[loc[i].cur])
     THEN LET a == loc[i].block IN
          /\ tip' = a
          /\ generation' = generation + 1
          /\ status' = "syncing"
          /\ chainBlocks' = KeptBlocks(a)
          /\ rawLogs' = KeptLogs(a)
          /\ launchedIn' = MarketsAfterRollback(a)
          /\ trades' = TradesAfterRollback(a)
          /\ stats' = StatsAfterRollback(a)
          /\ poolThrough' = PoolsAfterRollback(a)
          /\ outbox' = Append(outbox, RollbackEvents(a))
          /\ Goto(i, "reload")
          /\ Keep(i, [loc[i] EXCEPT !.block = None, !.number = 0])
     ELSE /\ Abort(i, "stale")
          /\ UNCHANGED <<tip, generation, journal>>
  /\ UNCHANGED <<env, observed>>

\* Mutant: the cursor of before the rollback is kept.
KeepCursor(i) ==
  /\ At_(i, "reload")
  /\ Goto(i, "scan")
  /\ UNCHANGED <<env, loc, cursor, journal>>

\* The cursor is loaded again once the rollback is committed.
ReloadCursor(i) ==
  /\ At_(i, "reload")
  /\ Goto(i, "scan")
  /\ Keep(i, [loc[i] EXCEPT !.cur = tip])
  /\ UNCHANGED <<env, cursor, journal>>

----------------------------------------------------------------------------
(* The scan: logs of a chunk first, then its blocks one by one *)

ReadLogs(i) ==
  LET from == Height[loc[i].cur] + 1
      upto == Min2(ConfirmedHead(i), from + ChunkSize - 1)
  IN
  /\ At_(i, "scan")
  /\ from <= ConfirmedHead(i)
  /\ Goto(i, "block")
  /\ Keep(i, [loc[i] EXCEPT !.upto = upto,
       !.logs = { l \in LaunchLogs : /\ l.block \in remote
                                     /\ Height[l.block] \in from..upto }])
  /\ UNCHANGED <<env, cursor, journal>>

LogsOf(i, b) == { l \in loc[i].logs : Height[l.block] = Height[b] }

\* The block continues the chain read so far and is the one its logs name.
BlockFits(i, b) ==
  /\ Parent[b] = loc[i].cur
  /\ \A l \in LogsOf(i, b) : l.block = b

\* cursor_height_mismatch and cursor_parent_mismatch do not apply.
CursorFits(b) ==
  /\ Height[b] = Height[tip] + 1
  /\ Parent[b] = tip

\* insertMarket: ON CONFLICT DO NOTHING.
MarketsAfterCommit(b, ls) ==
  [m \in Market |-> IF launchedIn[m] = None /\ (\E l \in ls : l.market = m)
                    THEN b ELSE launchedIn[m]]

CommitEvents(ls) == { Launched(l, generation) : l \in ls }

\* direct_market_launch_one_canonical_launch: a second canonical launch of a
\* market fails the transaction.
LaunchIndexRefuses(ls) ==
  \E l \in ls, k \in rawLogs \cap LaunchLogs : k # l /\ k.market = l.market

\* The next block of the chunk is read and held until its commit.
ReadBlock(i) ==
  /\ At_(i, "block")
  /\ \E b \in At(remote, Height[loc[i].cur] + 1) :
       IF BlockFits(i, b)
       THEN /\ Goto(i, "commit")
            /\ Keep(i, [loc[i] EXCEPT !.block = b])
            /\ UNCHANGED status
       ELSE Race(i)
  /\ UNCHANGED <<env, tip, observed, generation, journal>>

\* The transaction of one block; the chunk goes on with the next.
CommitBlock(i) ==
  LET b == loc[i].block
      ls == LogsOf(i, b)
  IN
  /\ At_(i, "commit")
  /\ IF CursorFits(b) /\ ~LaunchIndexRefuses(ls)
     THEN /\ tip' = b
          /\ observed' = Max2(observed, Max2(loc[i].head, Height[b]))
          /\ status' = "live"
          /\ chainBlocks' = chainBlocks \cup {b}
          /\ rawLogs' = rawLogs \cup ls
          /\ launchedIn' = MarketsAfterCommit(b, ls)
          /\ outbox' = IF ls = {} THEN outbox ELSE Append(outbox, CommitEvents(ls))
          /\ IF Height[b] < loc[i].upto
             THEN Goto(i, "block") /\ Keep(i, [loc[i] EXCEPT !.cur = b, !.block = None])
             ELSE /\ Goto(i, "scan")
                  /\ Keep(i, [loc[i] EXCEPT !.cur = b, !.block = None, !.logs = {}, !.upto = 0])
     ELSE /\ IF CursorFits(b) THEN Abort(i, "stale") ELSE Race(i)
          /\ UNCHANGED <<tip, observed, chainBlocks, rawLogs, launchedIn, outbox>>
  /\ UNCHANGED <<env, generation, trades, stats, poolThrough>>

EndScan(i) ==
  /\ At_(i, "scan")
  /\ Height[loc[i].cur] + 1 > ConfirmedHead(i)
  /\ Goto(i, "pools")
  /\ UNCHANGED <<env, loc, cursor, journal>>

----------------------------------------------------------------------------
(* syncPancakeV3PoolBackfills *)

\* A cursor row for each market launched at or below the confirmed head.
PoolRows(n) ==
  [m \in Market |->
     IF poolThrough[m] = NoPool /\ launchedIn[m] # None /\ LaunchHeight(m) <= n
     THEN LaunchHeight(m) - 1 ELSE poolThrough[m]]

Pending(rows, n) ==
  { m \in Market : rows[m] # NoPool /\ LaunchHeight(m) <= n /\ rows[m] < n }

LoadPools(i) ==
  LET n == ConfirmedHead(i)
      rows == PoolRows(n)
  IN
  /\ At_(i, "pools")
  /\ poolThrough' = rows
  /\ \/ /\ Pending(rows, n) = {}
        /\ Abort(i, "live")
     \/ \E m \in Pending(rows, n) :
          /\ \A k \in Pending(rows, n) : rows[m] <= rows[k]
          /\ Goto(i, "poolLogs")
          /\ Keep(i, [loc[i] EXCEPT !.pool = m,
                        !.number = Max2(rows[m] + 1, LaunchHeight(m))])
          /\ UNCHANGED status
  /\ UNCHANGED <<env, tip, observed, generation, chainBlocks, derived, outbox>>

ReadPoolLogs(i) ==
  LET from == loc[i].number
      upto == Min2(ConfirmedHead(i), from + ChunkSize - 1)
  IN
  /\ At_(i, "poolLogs")
  /\ Goto(i, "poolCommit")
  /\ Keep(i, [loc[i] EXCEPT !.upto = upto, !.number = 0,
       !.logs = { s \in SwapLogs : /\ s.block \in remote
                                   /\ s.market = loc[i].pool
                                   /\ Height[s.block] \in from..upto }])
  /\ UNCHANGED <<env, cursor, journal>>

\* Mutant: the block of the trade is not looked up.
TradeAcceptedByMarket(s) == launchedIn[s.market] # None

\* insertDirectPancakeV3Trade finds the market and the canonical block.
TradeAccepted(s) == launchedIn[s.market] # None /\ s.block \in chainBlocks

\* INSERT ... ON CONFLICT DO NOTHING on (block hash, tx, log index).
NewTrades(ss) == { s \in ss : trades[s] = "absent" }

\* market_trade_events_one_canonical_log: a second canonical row of one
\* transaction log fails the transaction.
TradeIndexRefuses(ss) ==
  \E s \in NewTrades(ss), r \in SwapLogs :
    r # s /\ r.tx = s.tx /\ (trades[r] = "canonical" \/ r \in NewTrades(ss))

TradesAfterCommit(ss) ==
  [s \in SwapLogs |-> IF s \in NewTrades(ss) THEN "canonical" ELSE trades[s]]

\* Mutant: a conflicting row is counted too.
StatsCountConflicts(ss) ==
  [m \in Market |-> stats[m] + Cardinality({ s \in ss : s.market = m })]

\* apply_market_trade_insert runs once for each row really inserted.
StatsAfterCommit(ss) ==
  [m \in Market |->
     stats[m] + Cardinality({ s \in NewTrades(ss) : s.market = m })]

CommitPool(i) ==
  LET m == loc[i].pool
      ss == loc[i].logs
  IN
  /\ At_(i, "poolCommit")
  /\ IF (\A s \in ss : TradeAccepted(s)) /\ ~TradeIndexRefuses(ss)
     THEN /\ rawLogs' = rawLogs \cup ss
          /\ trades' = TradesAfterCommit(ss)
          /\ stats' = StatsAfterCommit(ss)
          /\ poolThrough' = IF poolThrough[m] = NoPool THEN poolThrough
                            ELSE [poolThrough EXCEPT ![m] = Max2(@, loc[i].upto)]
          /\ outbox' = IF NewTrades(ss) = {} THEN outbox
                       ELSE Append(outbox, { TradeUpsert(s) : s \in NewTrades(ss) })
          /\ Goto(i, "pools")
          /\ Keep(i, [loc[i] EXCEPT !.pool = None, !.logs = {}, !.upto = 0])
          /\ UNCHANGED status
     ELSE Abort(i, "stale") /\ UNCHANGED <<rawLogs, trades, stats, poolThrough, outbox>>
  /\ UNCHANGED <<env, tip, observed, generation, chainBlocks, launchedIn>>

----------------------------------------------------------------------------
(* Failures and the RPC node *)

\* An RPC or database error: sync records 'stale' and gives up.
Fault(i) ==
  /\ pc[i] # "idle"
  /\ faults < MaxFaults
  /\ faults' = faults + 1
  /\ Abort(i, "stale")
  /\ UNCHANGED <<remote, flips, tip, observed, generation, journal>>

\* The process dies and is started again.
Crash(i) ==
  /\ pc[i] # "idle"
  /\ faults < MaxFaults
  /\ faults' = faults + 1
  /\ Goto(i, "idle")
  /\ Keep(i, EmptyLoc)
  /\ UNCHANGED <<remote, flips, cursor, journal>>

\* eth_getLogs hands back a log flagged as removed.
RemovedLog(i) ==
  /\ At_(i, "scan") \/ At_(i, "poolLogs")
  /\ At_(i, "scan") => Height[loc[i].cur] + 1 <= ConfirmedHead(i)
  /\ faults < MaxFaults
  /\ faults' = faults + 1
  /\ Race(i)
  /\ UNCHANGED <<remote, flips, tip, observed, generation, journal>>

RemoteGrow ==
  /\ \E b \in Block \ remote :
       /\ remote \cup {b} \in Chains
       /\ Height[b] > HeadNumber(remote)
       /\ remote' = remote \cup {b}
  /\ UNCHANGED <<flips, faults, local, cursor, journal>>

\* The node switches to a fork, or answers from one that is behind.
RemoteFlip ==
  /\ flips < MaxFlips
  /\ flips' = flips + 1
  /\ remote' \in { C \in Chains : ~(remote \subseteq C) }
  /\ UNCHANGED <<faults, local, cursor, journal>>

Step(i) ==
  \/ Start(i) \/ Initialize(i) \/ ReadHead(i) \/ OpenCursor(i)
  \/ ReadBaseline(i) \/ InitializeCursor(i) \/ CheckTip(i) \/ Walk(i) \/ MissingBlock(i)
  \/ Rollback(i) \/ ReloadCursor(i) \/ ReadLogs(i) \/ ReadBlock(i) \/ CommitBlock(i)
  \/ EndScan(i) \/ LoadPools(i) \/ ReadPoolLogs(i) \/ CommitPool(i)

Disturb(i) == RefuseRegistry(i) \/ Fault(i) \/ Crash(i) \/ RemovedLog(i)

Next ==
  \/ \E i \in Indexer : Step(i) \/ Disturb(i)
  \/ RemoteGrow
  \/ RemoteFlip

Spec == Init /\ [][Next]_vars

\* The poll timer restarts an idle sync, a started one runs on, and the
\* chain the node follows keeps growing.
FairSpec == Spec /\ (\A i \in Indexer : WF_vars(Step(i))) /\ WF_vars(RemoteGrow)

----------------------------------------------------------------------------
(* Properties *)

Events ==
  [topic : {"market.launched"}, log : LaunchLogs, generation : Nat]
    \cup [topic : {"market.removed"}, market : Market, generation : Nat]
    \cup [topic : {"chain.reorg"}, previous : Block, ancestor : Block, generation : Nat]
    \cup [topic : {"market.trade.upsert", "market.trade.reorg"}, log : SwapLogs]
    \cup [topic : {"market.trades.rebuilt"}, market : Market]

EnvType ==
  /\ remote \in Chains /\ flips \in 0..MaxFlips /\ faults \in 0..MaxFaults

LocalType == pc \in [Indexer -> Steps] /\ loc \in [Indexer -> Loc]

Statuses == {"none", "syncing", "live", "stale", "halted"}

CursorType ==
  /\ tip \in Block \cup {None} /\ observed \in Nat /\ generation \in Nat
  /\ status \in Statuses

TableType ==
  /\ chainBlocks \in SUBSET Block
  /\ rawLogs \in SUBSET (LaunchLogs \cup SwapLogs)
  /\ launchedIn \in [Market -> Block \cup {None}]
  /\ trades \in [SwapLogs -> {"absent", "canonical", "orphaned"}]
  /\ stats \in [Market -> Nat]
  /\ poolThrough \in [Market -> Nat \cup {NoPool}]
  /\ outbox \in Seq(SUBSET Events)

\* Every variable has its type.
TypeOK == EnvType /\ LocalType /\ CursorType /\ TableType

\* The canonical rows of chain_blocks are one unbroken branch that ends in
\* the cursor, whatever the node did between the reads of a scan and of an
\* ancestor search.
CanonicalBranch ==
  /\ OnePerHeight(chainBlocks) /\ ParentClosed(chainBlocks)
  /\ IF tip = None THEN chainBlocks = {} ELSE IsHead(tip, chainBlocks)

\* The local variables l of an indexer at step s agree with a cursor t and
\* the canonical blocks C.
Current(s, l, t, C) ==
  /\ s \in {"baseline", "create"} => t = None
  /\ s \in {"tip", "walk", "rollback", "scan", "block", "commit"} => t # None /\ l.cur = t
  /\ s = "reload" => t # None
  /\ s = "walk" => OldestAncestor(Height[l.cur]) <= l.number
  /\ s = "rollback" => l.block \in C /\ OldestAncestor(Height[l.cur]) <= Height[l.block]

\* One indexer alone never works from a stale copy of the cursor: what it
\* took from chain_cursors and chain_blocks before an RPC read still holds
\* after it, and the ancestor it rolls back to is within the retained depth.
LocalCursorCurrent == \A i \in Indexer : Current(pc[i], loc[i], tip, chainBlocks)

\* No market, raw log or canonical trade survives the block it came from:
\* after any rollback every derived row hangs on a canonical block.
DerivedFromCanonical ==
  /\ \A l \in rawLogs : l.block \in chainBlocks
  /\ \A m \in Market : launchedIn[m] # None => launchedIn[m] \in chainBlocks
  /\ \A s \in SwapLogs : trades[s] = "canonical" =>
       /\ s \in rawLogs
       /\ launchedIn[s.market] # None

\* A trade row is a row of a listed market, mined no earlier than its launch.
TradesBelongToMarkets ==
  \A s \in SwapLogs : trades[s] # "absent" =>
    /\ launchedIn[s.market] # None
    /\ LaunchHeight(s.market) <= Height[s.block]

\* markets is exactly what the canonical launch logs say: neither a market
\* left over from a lost fork nor one whose re-mined launch was ignored by
\* ON CONFLICT DO NOTHING.
MarketsMatchLogs ==
  \A m \in Market :
    launchedIn[m] = None <=> ~\E l \in rawLogs \cap LaunchLogs : l.market = m

\* The incremental counter of the insert trigger and the recount of a
\* rollback agree with the canonical trades at every moment.
StatsExact ==
  \A m \in Market : stats[m] = Cardinality(CanonicalTrades(trades, m))

\* The unique indexes on canonical launches and on canonical (tx, log index)
\* never refuse a transaction that passed every other check of the store: no
\* rollback leaves a row of a lost fork that blocks its re-mined successor.
IndexesNeverRefuse ==
  \A i \in Indexer :
    /\ pc[i] = "commit" /\ CursorFits(loc[i].block) =>
         ~LaunchIndexRefuses(LogsOf(i, loc[i].block))
    /\ pc[i] = "poolCommit" /\ (\A s \in loc[i].logs : TradeAccepted(s)) =>
         ~TradeIndexRefuses(loc[i].logs)

\* A reader of the outbox o takes a thing for present iff the last of the
\* events that add or remove it adds it; an event of adds and one of removes
\* never share a transaction.
Present(o, adds, removes) ==
  \E n \in 1..Len(o) :
    /\ o[n] \cap adds # {}
    /\ \A k \in n..Len(o) : o[k] \cap removes = {}

LaunchesOf(m) ==
  { e \in Events : e.topic = "market.launched" /\ e.log.market = m }

RemovalsOf(m) == { e \in Events : e.topic = "market.removed" /\ e.market = m }

\* Reading the outbox from the start and obeying it gives the markets table:
\* launched and removed events alternate correctly across reorgs.
OutboxReplaysMarkets ==
  \A m \in Market :
    launchedIn[m] # None <=> Present(outbox, LaunchesOf(m), RemovalsOf(m))

\* The same for trades: a trade is canonical iff its last outbox event says so.
OutboxReplaysTrades ==
  \A s \in SwapLogs :
    trades[s] = "canonical" <=> Present(outbox, {TradeUpsert(s)}, {TradeReorg(s)})

\* A pool cursor row belongs to a listed market and respects its CHECK: the
\* foreign key and the rollback never leave one behind.
PoolCursorsListed ==
  \A m \in Market : poolThrough[m] # NoPool =>
    launchedIn[m] # None /\ LaunchHeight(m) - 1 <= poolThrough[m]

\* With one indexer no pool cursor runs ahead of the block cursor; the swaps
\* of a block that is yet to be committed would be skipped for ever.
PoolCursorBehindTip ==
  \A m \in Market : poolThrough[m] # NoPool => poolThrough[m] <= Height[tip]

\* Rows only stop being canonical in a step that opens a new generation and
\* announces chain.reorg in the same transaction.
ReorgsAreAnnounced ==
  [][ (chainBlocks \ chainBlocks' # {} \/ rawLogs \ rawLogs' # {}) =>
        /\ generation' = generation + 1
        /\ Len(outbox') = Len(outbox) + 1
        /\ Reorg(tip, tip', generation') \in outbox'[Len(outbox')] ]_vars

\* The tables follow the abstract journal of canonical blocks.
Journal == INSTANCE CanonicalJournal WITH journal <- chainBlocks, journalTip <- tip
ImplementsJournal == Journal!JournalSpec

\* A common ancestor within reach of the ancestor search.
AncestorInReach ==
  \E b \in remote \cap chainBlocks :
    Height[b] >= Max2(BaselineNumber, Height[tip] - MaxReorgDepth)

Synced ==
  /\ chainBlocks \subseteq remote
  /\ Height[tip] + ConfirmationDepth >= HeadNumber(remote)

\* Once the node stops switching chains the tables end up on its chain, or
\* the fork is older than the history the search may cross.
Converges == <>[](tip # None /\ (Synced \/ ~AncestorInReach))

\* backend/README.md:107-111 promises that a rollback replays from the
\* common ancestor and that a re-canonicalized log counts again: a canonical
\* raw Swap log has a canonical trade.
ReplayRestoresTrades ==
  \A s \in SwapLogs : s \in rawLogs => trades[s] = "canonical"

\* backend/README.md:104 calls bounded eth_getLogs the proof path: a
\* canonical block brings its launch logs with it.
CanonicalLogsComplete ==
  \A l \in LaunchLogs : l.block \in chainBlocks => l \in rawLogs
============================================================================
