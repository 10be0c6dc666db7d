# Verification of QUOTE

TLA+ models of the QUOTE launchpad - the backend's indexer, media cache and
real-time feed, the web client's market table, and the contracts of the second
version - with TLC runs on small instances and proofs checked by TLAPS for every
instance. Source paths below are relative to the repository; `backend/` is short
for `src/backend/`, `v2/` for `src/contracts/src/v2/`.

## 1. The system

QUOTE launches tokens on BNB chain. Contracts emit the events of launches and
trades; a backend derives everything the web application shows from them.

| Component | State it keeps | Operations | Talks to |
|---|---|---|---|
| Chain indexer (`backend/src/indexer/indexer.ts`) | local copies of cursor, logs, ancestor during one sync | sync: check the registry, repair the cursor, scan chunks, backfill pools | node by JSON-RPC, store by transactions |
| Indexer store (`postgres-store.ts`, migrations 001, 003, 007) | `chain_cursors`, `chain_blocks`, `raw_logs`, `markets`, `market_trade_events`, `market_live_stats`, pool cursors, `outbox` | initializeCursor, commitBlock, rollback, loadPancakeV3PoolCursors, commitPancakeV3PoolBackfill, and the triggers they fire | one advisory lock per chain |
| Scheduler and wake source (`indexer-main.ts`, `wss-wakeup.ts`) | running/pending flags; socket, generation, reconnect timer | requestSync, poll, connect, reconnect, shutdown | indexer |
| Media queue (migrations 002, 004, 008, `postgres-media.ts`) | `media_resolution_cache`, `media_objects` | request, claim, complete, miss, fail, put, get | markets trigger, workers, HTTP lookup |
| Media worker and lookup (`media-worker.ts`, `domain/media.ts`) | the claim a lane works on | lane loop, provider resolution, public lookup | media queue, providers |
| Real-time hub (`realtime/market-hub.ts`) | last broadcast id, flush in progress; per client last id, alive flag, send buffer | add, subscribe, replay, flush, heartbeat, close | outbox, WebSocket clients |
| Event stream server (`market-server.ts`) | counter of streams; per stream cursor, busy flag, queue | connect, poll, heartbeat, close, cancel | outbox, HTTP clients |
| Web client's market table (`src/app/components/realtime-market-feed.tsx`) | rows, cursor and transport of the stream, requests in flight, refetch timer | first snapshot, stream and its fallback, refresh, next page, merge, removal | market list over HTTP, hub or stream |
| Launchpad and engine registry (`v2/core`) | administrator, guardian, pause, engines and defaults, launches and their index maps, reentrancy guard | register, enable, default, hand over, pause, launch | engines |
| Direct engine (`v2/direct`) | launch records; tokens, pools and positions it creates | launch | launchpad, verifier, Pancake V3, locker |
| Quote price verifier (`v2/oracle`) | owner, signer and their successors, allowed references, consumed digests | rotate, hand over, allow, consume | direct engine |
| Position lockers (`v2/locker`, `PermanentV3Locker.sol`) | position, claimable fees, remainders or totals | receive, finalize, collect, claim | position manager |
| Bonding market (`v2/curve`) | state, two reserves, fees owed | initialize, buy, prepaid buy, sell, claim fees, graduate, withdraw | reward token, quote coin, factory |
| Reward vaults and reward token (`v2/rewards`) | balances; shares, accumulator, carry, checkpoints | transfer, notify, claim | each other, Infinity vault |
| Native purchases and adapters (`v2/native`, `v2/direct/DirectV3NativeBuy.sol`, `v2/adapters`) | routes and pools allowed; approvals and balances during a call | register, buy, refund | router, quote coin, buyer |
| First-version factory, eligibility service, media HTTP server, registry and decoding, valuations, migrations | none or derived | see section 12 | |

### What is hard

* **The node is not a chain.** The indexer reads head, logs and blocks in
  separate calls, and the node may switch forks, fall behind or fail between
  any two of them. The docs call the HTTP reads the proof path, so the checks
  that tie the reads together carry the whole correctness of the tables.
* **A rollback is eight statements over seven tables**, partly by SQL in
  TypeScript, partly by triggers, partly by a foreign key; afterwards
  incremental counters, recounts, cursors and the outbox must agree again.
* **Two processes.** A deployment overlaps two indexers; the advisory lock
  covers transactions and not the reads between them.
* **Leases.** A media lane may outlive its lease, die with it, or share its
  worker id with a restarted process; attempts are counted when they begin.
* **Replay against broadcast.** Hub and stream read the outbox, wait, and send
  what they read to a client that others have sent events meanwhile, that may
  have gone, or that takes nothing any more.
* **Liveness.** Retries, back-offs, attempt limits and restarts must end in an
  indexed head and in an answer per token.
* **Answers that cross events.** The client replaces its table by snapshots that
  were read before the events it has already merged.
* **Calls inside calls.** An engine, a quote coin or a buyer that is paid runs
  code of its own in the middle of a launch, a claim or a purchase.
* **Transactions over five contracts.** A launch that fails in the last of them
  has to give back the digest, the token, the pool and the position.
* **Money.** Rounding carries, fee splits and reserves over long sequences of
  calls, with coins that keep something back of a transfer.

`PROJECT.json` lists every hazard with its line.

### What makes each component correct

* Indexer and store: the canonical blocks are one branch ending in the cursor;
  every market, log and trade hangs on it; counters are exact; the outbox
  replays to the tables; reorgs are announced; the head is reached.
* Media queue: results are fenced by generation, images are stored before they
  are named and never lost by a refresh, attempts are bounded, every token gets
  an answer.
* Hub and stream: a client gets every event behind its starting point or is
  told to start over; places and buffers stay within their limits, however a
  connection ends; dead peers are removed.
* Client: a table older than an event it was told of is fetched again; merging
  never takes a row back.
* Launchpad, engine, verifier: records, index maps, token, pool and position
  tell the same of a launch, a launch that fails leaves nothing, and nothing is
  used by two.
* Lockers, market, vaults: what is promised is there, to the last fraction; a
  split is exact over any history; no step takes what another account has earned.
* Native purchases: nobody else's coins pay for a purchase, no native coin that
  was sent stays behind, no approval outlives the call.

## 2. The modules

| Part | Modules | Abstract specification | Proofs |
|---|---|---|---|
| Indexer and store | `BlockTree`, `Indexer`, `MCIndexer`, `MCIndexerPair` | `CanonicalJournal` | `IndexerProofs` |
| Media cache | `MediaQueue`, `MCMediaQueue` | `LeasedRegister` | `MediaQueueProofs` |
| Hub and stream | `Outbox`, `MarketHub`, `MCMarketHub`, `EventStream` | `OrderedFeed` | `MarketHubProofs`, `FeedProofs` |
| Client | `MarketFeed` | | `FeedProofs` |
| A launch | `Accounts`, `FeePolicy`, `Launchpad`, `PriceVerifier`, `DirectEngine`, `MCLaunch` | | `LaunchProofs` |
| Lockers | `LockerTerms`, `PermanentPancakeV3Locker` | `PermanentV3Locker` | `LockerProofs` |
| Market, token, vaults | `RewardVault`, `BondingMarket`, `MCCurve` | | `CurveProofs` |
| Native purchases | `SwapAdapters`, `NativeBuy` | | `NativeBuyProofs` |

`DirectEngine` composes the launchpad and the verifier with the engine: it
EXTENDS both and a step of it is a call into the one, the other, or through all
of them. `BondingMarket` composes the curve with the reward token and the vault
of `RewardVault`, `NativeBuy` the coordinators with the adapters. No module
that is proved about declares a RECURSIVE operator.

## 3. The indexer

### Modules

* `BlockTree`: block hashes with the height and parent they fix; a *chain* is
  what a node serves at one moment (one block per height, closed under parents).
* `CanonicalJournal`: the abstract promise. A set of blocks grows by a child of
  its tip and is cut back only to a block it holds, by at most `MaxReorgDepth`
  blocks, each cut opening a new generation.
* `Indexer`: the program. `MCIndexer` and `MCIndexerPair` give it block trees.

### State and actions

`tip`, `observed`, `generation`, `status` are the row of `chain_cursors`;
`chainBlocks` and `rawLogs` the canonical rows of their tables; `launchedIn` is
`markets` with its launch block; `trades` and `stats` are `market_trade_events`
and the trade count of `market_live_stats`; `poolThrough` the pool cursors;
`outbox` the rows in commit order, one set per transaction. `pc` and `loc` are
the program counter and the local variables of a running sync.

| Actions | Code |
|---|---|
| Start, Initialize, RefuseRegistry | `requestSync`, `initialize`, `installRegistry`, `setStatus` |
| ReadHead, OpenCursor, ReadBaseline, InitializeCursor | `syncAttempt` up to line 106 |
| CheckTip, Walk, Rollback, ReloadCursor, MissingBlock | `ensureCanonicalCursor` and the transaction `rollback` with its triggers |
| ReadLogs, ReadBlock, CommitBlock, EndScan | the chunk loop and the transaction `commitBlock` |
| LoadPools, ReadPoolLogs, CommitPool | `syncPancakeV3PoolBackfills` and its two transactions |
| Fault, RemovedLog, Crash | the catch clauses of `sync`, a failing call, the end of the process |
| RemoteGrow, RemoteFlip | the node |

Each RPC read is an action of its own, since the node may move between two
reads; each store transaction is one action, since it runs under
`pg_advisory_xact_lock`; what a read returned is held in `loc` until it is
used. A plain store read next to an RPC read or to a transaction is merged with
it: this matters only between two processes.
Of a log the model keeps block, market and, for swaps, transaction; amounts,
candles, fees and facts of the projections are left out. Every market is of
engine kind 1, the only one with pool cursors. Chains satisfy what the
contracts guarantee (`ChainContentAssumption`): launch ids and transactions
are used once per chain, swaps follow the launch.

### Runs

| Run | Question | Instance |
|---|---|---|
| `indexer_reorgs` | Do tables and projections survive chain switches at any point of a sync? | one indexer, nine blocks in three forks of height three, two launches, a swap mined on two forks, two switches |
| `indexer_faults` | Does a crash or failing call in between break the journal or hide a reorg, and is the head reached once node and calls behave? | same tree, one switch, one fault, confirmation depth 1, chunks of one block, retained depth 1 |
| `indexer_pair` | Do the markets match their launch logs with a second process? | two indexers, six blocks, two forks, a launch on either branch, two switches |
| `indexer_replay` | violated: a re-canonicalized trade counts again | as `indexer_reorgs` |

`IndexerTables.cfg` checks all twelve invariants of the module on the instance
of `indexer_reorgs`, with those the proofs rest on (`LocalCursorCurrent`,
`PoolCursorsListed`) or have made superfluous in the runs;
`IndexerLogs.cfg` and `IndexerRefusal.cfg` show counterexamples (section 11).

In `indexer_pair` the constraint `Bounded` cuts at two rollbacks and at the
first restarted attempt of a sync. That is enough for the stored branch to
break, and the question is what survives it.

The forks of the tree lie one, two and three blocks below the heads: with
`MaxReorgDepth` 2 a rollback may keep a market and lose its trade, remove a
market, or be refused. Two switches let a chain be left and re-entered, which
is what re-canonicalization needs; `ChunkSize` 2 lets a switch fall inside a
chunk. `MaxFlips` and `MaxFaults` bound the environment only.

Deadlock is checked in every run: an idle indexer can always start a sync.

**Fairness.** `FairSpec` asks weak fairness of each indexer's `Step` (the poll
timer of `runIndexer` starts a sync whenever none runs, and a running sync
proceeds) and of `RemoteGrow` (the chain of the node grows). Faults and switches
are bounded, never fair. `Converges` is an alternative: the tables reach the
confirmed head, or no common ancestor lies within the search, which the code
reports as `halted`.

### Proofs

`IndexerProofs` proves, for any tree, logs and number of processes, from the
named assumptions of the two modules: `TypeInv` is inductive. `TypeOK` alone is
not: whether a value has its type depends on the step an indexer is at
(`LocalReady`: a head, an ancestor and a cursor held locally are what the step
needs) and, for the clamp of a pool cursor, on its market being there
(`PoolCursorsListed`) and launched above the baseline
(`LaunchesAboveBaseline`). On top of it, action by action, `StatsExact`
(counters equal the trades), `OutboxReplaysMarkets`, `DerivedFromCanonical` and
`MarketsMatchLogs` are preserved. The last needs `LaunchesRecorded`: the log
that a market's launch block has of it is stored. Only then does a rollback take
the two away together, the market by its launch block and the log by its own.
The theorems are `TypesHold`, `PoolCursorsStayListed`, `StatsAlwaysExact`,
`OutboxAlwaysReplaysMarkets`, `DerivedAlwaysCanonical`,
`MarketsAlwaysMatchLogs` and `ReorgsAlwaysAnnounced`.

The second half of the module assumes in addition `OneIndexer` (at most one
process: `backend/README.md:38-39` sizes the deployment for one host).
`BranchInv` strengthens `CanonicalBranch` with `LocalCursorCurrent`: the branch
is only preserved because the ancestor and the cursor of a running sync are
current, and they are current only because nobody else writes. Everything else
follows from the branch:

* `OneIndexerKeepsBranch`, `OneIndexerNeverStale` and, step by step,
  `OneIndexerImplementsJournal`;
* `OneIndexerReplaysTrades`: the outbox replays to the trades, as what a
  rollback announces as removed is what the branch loses above the ancestor;
* `OneIndexerNeverRefused` (`IndexesNeverRefuse`): the unique indexes on launch
  ids and transactions (`migrations/003`, `migrations/010`) never refuse a block, since
  what they compare it with is on the same chain;
* `OneIndexerPoolsBehind`: no pool cursor is ahead of the tip. `PoolInv` adds
  that the target of a backfill in flight is behind the tip too, which no
  rollback can undo while the one process is busy with the backfill.

All four rest on the branch, and two processes can break it: `rollback` compares
the cursor with the old tip it has just read, and does not look the ancestor up
again. One process finds
its ancestor, the other rolls back and replays up to the same height, and the
first then moves the cursor to a block below while a block of the other fork
stays canonical. After one more switch a unique index refuses what the canonical
chain brings (section 11). What is proved for any number of processes holds all
the same, since those tables are kept consistent within each transaction;
`indexer_pair` asks for the one of them with the longest argument.

Model-checked only: `TradesBelongToMarkets`, which the assumption on chains gives
for one process, and the liveness property `Converges`.

## 4. The media cache

### Modules

* `LeasedRegister`: the abstract promise. A register per token, written under a
  ticket; a ticket is granted when none is open and never twice.
* `MediaQueue`: the functions of migrations 002 and 008, the lanes, the lookup.

### State and actions

`status`, `attempts`, `generation`, `owner`, `object` are columns of
`media_resolution_cache`; `leased`, `due`, `fresh` and `recent` say which of
its deadlines lie ahead, and LeaseExpires, RetryDue, CacheExpires and
ThrottleEnds let them pass, so that no clock is counted. `stored` is
`media_objects`, `lane` what each lane works on, `reader` one public lookup.
`writtenBy` is a history variable, the generation that wrote `object`.

| Actions | Code |
|---|---|
| MarketLaunched, MarketRemoved | trigger `enqueue_market_media`, rollback of a market |
| LookUp, LoadObject, RequestKnownTokenMedia | `resolveTokenMedia`, `getCached`, `storage.get`, `request_known_token_media` |
| Claim | `claim_media_resolution` |
| Resolve | `resolveFromProviders`: an image, a miss or an upstream error |
| Store, CompleteReady, CompleteMiss, Fail, LostLease | `resolveClaimedTokenMedia` and the three functions that end a claim |
| Crash | a lane's call throws or the process ends |

Provider requests, image decoding and sanitizing are external; their outcome is
a choice. The claim takes any claimable row: its order by request time is left
out, `SKIP LOCKED` passing over rows anyway.

### Runs

| Run | Question | Instance |
|---|---|---|
| `media_queue` | Are results fenced, images kept, and does every queued token get an answer if lanes do not fail? | one token, two lanes under one worker id, two attempts, six claims, two faults, two expiries |

`MediaPair.cfg` checks the safety properties with `TypeOK`, `ReadyIffObject`,
`ClaimsDistinct` and `AttemptsBounded` for the two tokens of one market, which
one claim must not mix up; `MediaCrash.cfg` and `MediaDownloads.cfg` show
counterexamples (section 11).

Two lanes under one id are the hardest case for the fence: the owner column
tells them apart in no way, so all rests on the generation. Six claims allow a
takeover, the retry after it, and the claims after a negative entry has expired;
two attempts make the last attempt and the restart happen. `Resolves` asks for
an answer in every behaviour in which no lane has failed; `MediaCrash.cfg` shows
why it can ask for no more. The lanes are symmetric in `MediaPair.cfg`; the run
with temporal properties uses no symmetry.

**Fairness.** A lane loops for ever (`runWorkerLane`), leases and back-offs
run out: weak fairness of `Work`, `LeaseExpires` and `RetryDue`. Crashes,
expiring entries and lookups are never forced.

### Proofs

`MediaQueueProofs`, for any tokens, lanes, worker ids and bounds:
`TypeInv` (types; what a lane at each step holds; a row is ready exactly when
it names an image; named images are stored) and `FenceInv` (claims are
distinct; a lane is never ahead of its row's generation; no result is newer
than its row's last claim) are inductive. They give `ReadyAlwaysHasObject`,
`NamedAlwaysStored`, `AttemptsAlwaysBounded`, `ClaimsAlwaysDistinct`,
`NewestAlwaysWins`, and that each step is a step or a stutter of the register,
`QueueImplementsRegister`. Distinctness needs the two comparisons with the
generation: without them a new claim could repeat a number still in use.

Model-checked only: `Resolves` (liveness).

## 5. The real-time feed

### Modules

* `Outbox`: the table as its readers see it, a set of ids that only grows
  upwards, and what `readOutboxAfter` returns.
* `MarketHub`: `MarketRealtimeHub`, with the upgrade of `server.ts`.
* `OrderedFeed`: the abstract promise of a stream. A reader's position moves
  forwards only, and with it the reader has everything up to the position.
* `EventStream`: `/v1/stream` and `sseResponse`.

Ids become visible in ascending order because every transaction that writes
the outbox holds the indexer's advisory lock; ids may have gaps.

### State and actions of the hub

`latest`, `flush` are `latestBroadcastId` and the rows a flush holds;
`status`, `lastId`, `alive`, `buffered` belong to a client of the set, `replay`
holds its replays in flight, at most one per `Slot`. `silent` marks a dead peer.
`claim`, `sent` and `resync` are histories: what the client said to have, what
it was sent, whether it was told to start over.

| Actions | Code |
|---|---|
| Add, Subscribe, Ping, BadMessage | `add`, `handleClientMessage` |
| BeginReplay (in Add and Subscribe), ReadReplay, EndReplay | `replay` before its await, the read, and after it |
| StartFlush, ReadFlush, Broadcast | `flush` in the same way; one batch is broadcast without an await |
| Heartbeat, Pong, Closed, PeerDies | `heartbeatClients`, socket events |
| Drain | the peer takes what is buffered |
| Start, Stop | `start`; `stop`, or a read that fails: nothing catches it, and Node ends the process |
| Publish | a commit of the indexer |

Send buffers are counted in events; control messages add nothing to them but
are refused by a full one. Notifications and the listener's reconnects are an
early StartFlush. Clients resume from 0 or an id of the outbox.

### State and actions of the stream

`active` is `activeSseClients`; `state`, `released`, `cursor`, `queued` and
`poll` the locals of one `sseResponse`. A failed read is caught here and
reported to the client (FailRead). `Take` is the loop of `serveRequest`;
`Cancel` may come after the server's own close (EndStream), which is what the
`released` flag is for.

### Runs

| Run | Question | Instance |
|---|---|---|
| `hub_replay` | Does the hand-over between replay and broadcast lose anything, does every event arrive, and does a dead peer leave? | one socket that may die, two replays in flight, two events, replay limit 1, lag limit 2, a buffer of one event |
| `stream_feed` | Is a stream an ordered feed, is the place given back once, does every event arrive? | two streams, one place, three events, a queue of two chunks |

`HubPair.cfg` has three sockets for two places and a lag limit of 0: a socket
that refuses events costs no other one anything (`NothingMissed`), and the limit
on clients is kept (`ClientsWithinLimit`).

Two replays in flight are the least with which `lastEventId` moves backwards
during a replay; two events with a limit of one make too many rows, and a batch
that is not the last one, happen; a lag limit of 0 makes replays too old. A
queue of two lets a batch stop in the middle. The hub forgets a client that has
gone, and the model its histories with it. Deadlock is not checked in these
runs: ids are bounded by `MaxId`, connections are used once, and a system in
which all have gone may stop.

**Fairness.** The safety poll (1 s), the poll of a stream and the heartbeats
are timers; reads return. In the hub nothing is asked of clients or sockets: a
slow one is closed. In the stream a client that stays takes what it is
sent (`Take`), as its queue is only emptied by the client.

### Proofs

`FeedProofs`, for any streams, limits and ids: `StreamInv` adds to the
properties what a poll in progress knows (`RowsFollow`: its rows follow the
cursor without a hole, also when rows commit meanwhile), and that the
`released` flag tells a stream whose place was given back (`FlagFits`), which
is why a cancel after a close does not count twice. It gives `TypesHold`,
`CounterAlwaysExact`, `NeverAGap`, `QueueStaysBounded` and, since what is sent
is exactly what lies between the old and the new cursor (`SendsNext`),
`StreamIsOrderedFeed`. That a sent part of a batch is a prefix, and not more
than the room, are facts about `First`, which both proof modules begin with.

`MarketHubProofs`, for any clients, limits and ids: the invariant `HubInv` is
about marks. A client's `lastEventId` and the hub's `latestBroadcastId` are ids
of the outbox (`MarksInLog`); rows that a replay or a flush holds stay the first
rows behind its starting point although more are committed meanwhile
(`ReadsArePrefixes`); and everything up to a client's mark was claimed, sent, or
is on its way in a replay that has been started (`ReachedIsKnown`). A broadcast
may move a mark past rows that a replay in flight still owes, and a replay that
ends may move it back: neither breaks `ReachedIsKnown`, which counts what the
client got. It gives `TypesHold`, `HandOverLosesNothing` (`NothingMissed`),
`SkippedIsKnown` (`SkipsOnlyKnown`) and `ConnectionsBounded`
(`ClientsWithinLimit`).

Model-checked only: `EveryEventArrives`, `DeadPeersLeave` and
`EveryEventStreams` (liveness).

## 6. The client's market table

### Module

`MarketFeed`: `RealtimeMarketFeed` with the helpers of
`src/app/lib/realtime-market-events.ts`. The stream is left as loose as the two
servers make it: it may repeat, reorder and skip events behind its cursor. What
the servers guarantee beyond that is checked in section 5 and used by none of
the properties here.

### State and actions

`rows` maps the identity of a row to the event id it shows, `viewAsOf` is the
event id of the snapshot the table was last replaced by; `first`, `refresh` and
`page` are the three requests, each nobody's, asked, or read at an event id;
`timer` is the pending refetch, `transport`, `after`, `resumeAfter` the stream.
`due` and `missed` are histories: the newest event delivered that asks for a
refetch, and whether the last refresh failed.

| Actions | Code |
|---|---|
| FirstRead, FirstAnswers, FirstFails | `startFeed` up to the socket |
| SocketOpens, SocketCloses | the WebSocket and the fall back to `EventSource`, with which the client stays |
| EventArrives | `applyEvent`: merge, removal, `requestSafeRefetch` |
| ChangeView, RefetchTimer, RefreshRead, RefreshAnswers, RefreshFails | `refreshView`, aborted by the next one |
| LoadMore, PageRead, PageAnswers, PageFails | `loadMore`, aborted by nothing |
| ServerLaunches, ServerTrades, ServerReorgs | the outbox (external) |

A request is read at one moment and answers at another, which is where the
hazards are. A snapshot row is named by its market address, what an event
carries by its launch id, as `identityFor` does; a `market.launched` event
carries the arguments of the ABI, which `looksLikeMarket` does not take for a
market, so that a launch is shown by the next refetch only.

### Run

`feed`: one market, four events, one change of the view. Four events allow a
launch, a trade, and a rollback with its removal; one market is enough, since
rows of different markets never meet in the code. Is a table older than an
event that asked for a refetch about to be replaced (`StaleViewIsRefetched`),
do merges never take a row back (`RowsNeverRegress`), and once no more event asks
for a refetch, does the table get as new as those that did, and stay so
(`RefetchIsServed`)? `FeedTypes.cfg` checks the type invariant on the same
instance.

**Fairness.** The refetch timer fires; a refresh reads and is answered or fails if
no timer runs that will abort it (`FairTable`). An abort is neither answer nor
failure (`:671`), and each firing of the timer aborts the refresh in flight
(`:520-526`, `:653-676`): events that keep coming and answers slower than 500 ms
can starve the table for as long as the events last. So nothing is owed while
the timer runs, and `RefetchIsServed` is about the time after the last event;
`FeedStarves.cfg` shows that the table need not be served before
(`ServedUnderEvents`, section 11). The user aborts by a change of the view,
once. Nothing is asked of the server, the stream or the user. After `Unmount` the
model stops, so deadlock is not checked.

### Proofs

`FeedProofs` extends `MarketFeed` as well and holds the client's theorems, for
any markets and bounds that are natural numbers (`FeedAssumption`). What the property says of the timer is not inductive: an
answer may be on its way that is older than the last event, and when it arrives
it clears `missed`. `TableInv` adds that such an answer always has the timer
behind it (`StaleAnswerIsRefetched`), since an event starts the timer whatever
is in flight, and that no event is delivered before the first snapshot
(`LoadingFirst`). It gives `StaleViewsAreRefetched` and, with `MergedRows` about
`mergeMarkets`, `RowsAreKept` (`RowsNeverRegress`).

Model-checked only: `RefetchIsServed` (liveness).

## 7. A launch

### Modules

* `Accounts`, `FeePolicy`: addresses, `QuoteV2FeePolicy`.
* `Launchpad`: `QuoteLaunchpad`. `pad` is its storage, `runtime` what an engine
  answers to the handshake (external).
* `PriceVerifier`: `V2QuoteUsdPriceVerifier`.
* `DirectEngine`: `PancakeV3DirectEngine` with `DirectV3PriceMath`, Pancake V3's
  pool creation and mint, the locker's deployment, and the launch as a
  transaction over all of them. `MCLaunch` is the instance.

### State and actions

`frame` is the stack of launches in progress. A frame keeps the storage before
the launch, which `Revert` puts back; a launch is cut where foreign code runs.

| Actions | Code |
|---|---|
| BeginLaunch | `launch` up to the call of the engine: pause, request, engine, guard |
| Deploy | the direct engine up to its developer buy: attestation, address, token, pool, position |
| Return | the rest of the engine and of `launch`: record, artifacts, index maps |
| ForeignReturn | another engine returns artifacts of its choice |
| Revert | any failing check or call: the innermost launch is undone |
| AdminCall | every administrative call of launchpad and verifier, also inside a launch |
| InitializePool, EngineChanges, NextBlock | anybody at the pool factory; a proxy behind an engine; time |

A digest is the attestation it is the hash of, a signature the key that made
it. A price is the triple it is derived from, since all that matters is whether
the pool has the price attested for this launch; ticks are integers, as rounding
is what can go wrong there. The developer buy moves no storage of these
contracts and is in section 10.

### Run

`launch`: two accounts, two token addresses, one of them token0; a request
naming its version, one that takes the default, one the direct engine refuses;
two attestations; a foreign engine that returns its own contracts, the pool of
a direct launch, or one contract in two roles. Three administrative calls let
an engine be registered, made the default and disabled again, or a signer be
replaced, in the middle of a launch. `IndexFindsLaunch`, `LaunchIsAtomic`,
`RecordsAgree`, `RangesOneSided` and `LaunchesKept` are its questions.
`LaunchTypes.cfg` checks the type invariant. A chain may stop, so deadlock is
not checked.

### Proofs

`LaunchProofs` proves, for any accounts, engines, requests and addresses and for
any tick grid, the five properties of the run and the type invariant. What the
properties say of the storage between launches is not inductive. `LaunchInv`
says that the storage is in order (`Whole`) once what the launch in progress has
deployed is set apart, that the storage it would be put back to is in order and
holds the same launches, and that the guard is set exactly as long as there is a
frame (`FrameOK`): this is why no administrative call, gift of a pool or second
launch in the middle of a launch can disturb it, and why a revert, which puts
back old storage, loses no recorded launch. `Whole` has four parts: `Indexed`
(the maps), `Booked` (digests, tokens and positions belong to records or to the
frame, each to one), `Agreed` (what records, tokens, pools and positions say)
and `OneSided`. One lemma per action follows them through a step;
`FloorIs` and `TicksAreOneSided` are about the rounding of ticks below zero.
It rests on the named assumptions of the modules: a request has the fields of
the code's struct, a foreign engine's artifacts have the types of the ABI.

## 8. The position lockers

`PermanentPancakeV3Locker` is the locker of a direct launch, `PermanentV3Locker`
the first version, both over `LockerTerms`. The old one keeps totals and
credits the creator the exact share of the total; the new one credits the share
of each collection rounded down, with a remainder carried per coin. The run
`locker` checks that the first is what the second promises (`SplitsLikeV1`, by
INSTANCE with the total as a history variable), and that claims are covered
(`ClaimsCovered`), for the share 3/5, collections of up to three coins and
five coins in all: all remainders occur. Actions: ReceivePosition
(`onERC721Received`), SendPosition (a plain transfer), Finalize, Collect, Claim,
Donate.

`LockerProofs` proves both for every share, amount and history, and for one
account in both roles. The inductive invariant adds to `ClaimsCovered` that the
remainder is that of the whole history, `(collected * share) % BPS`; the lemma
`CarriedDivision` says that dividing piece by piece with the remainder carried
is dividing the sum.

Assumed: coins move what a transfer says. A quote token that rebases or keeps
something back is outside of what the locker can keep, which
`docs/ARCHITECTURE.md` says too.

## 9. The bonding market, its token and its vault

### Modules

* `RewardVault`: `QuoteRewardToken`, `RewardVault` and `InfinityRewardVault`;
  `custody` says which of the vaults is deployed.
* `BondingMarket`: `BondingMarket` on top of them: a trade moves the launch
  token, which reports to the vault, and its reward fee becomes a reward.
  `MCCurve` is the instance.

### State and actions

`token` and `quote` are balances; `vault` and `market` the contracts' storage;
`terms` the immutable fees. One action per external call, each a transaction:
Initialize, Buy, PrepaidBuy, Sell, MarkGraduated, TakeGraduationReserves,
ClaimFees; Transfer, NotifyReward, Claim; Fund and Donate are plain transfers of
coins. `Inside` holds what may run in the middle of a claim's payment: nothing, a
transfer of the launch token by whoever got control, or a guarded call if the
guard let it. The callback of the Infinity vault is `Takings`: however often it
calls back, the lock runs once.

### Run

`curve`: supply 6, of which the market opens with 5; a virtual reserve of 1, a
threshold of 4, a scale of 4 and fees in eighths: every division leaves
remainders, buys may overshoot the threshold, and a share may fall below
`MinEligible`. A coin transfer may keep back a unit. Four trades or rewards reach
graduation and its withdrawal with claims in between. Calls are
transactions that anyone may stop making, so deadlock is not checked.

Questions: are reserves and fees always there (`MarketBacked`), does the product
never fall (`ProductNeverFalls`), is a market ready to graduate funded, and shut
(`GraduationFunded`); does the vault hold what it promises to the last fraction
(`RewardsConserved`), do shares follow balances (`SharesFollowBalances`), does
nobody lose what it has earned (`EarnedStaysEarned`)?

### Proofs

`CurveProofs` proves `GraduationFunded`, `ProductNeverFalls` and
`EarnedStaysEarned` for every supply, curve, fee, scale and amount.
`CurveInv` holds the types - of the vault that every checkpoint is at or below
the accumulator and every remainder below the scale - and what the states of
the market say of its reserve. Lemmas follow the calls: `CheckpointPays` (a
checkpoint changes nobody's claim), `NotifyBalancePays`, `TransferPays`,
`DistributeGrows`, `PaymentPays` for what runs inside a payment, `PurchaseKeeps`
and `SaleKeeps`; `CeilCovers` and `ProductCovered` are about the rounding.

`BookInv` adds the books. `BooksKept`: the vault's total of shares is the sum of
the shares, each share is what the balance says, and what has been promised -
earned, accrued and carried, counted in fractions of a unit - adds up to what the
vault was notified of and has not paid, which it holds; `ReservesHeld`: the market holds its
reserves and the fees it owes, in each coin. It gives `MarketIsBacked`,
`RewardsAreConserved` and `SharesAreCurrent`. These are sums over all accounts,
and the recursion of a sum over a set cannot be unfolded by an induction
theorem here. The module goes another way: accounts are finitely many (160-bit
addresses, `VaultAssumption`), partial sums are taken along the CHOOSE of the
sum, and a claim about all subsets holds because a smallest subset that violates
it would have a smaller one. From this follow `SumLinear` and `SumAtPoint`
(changing a function at one point changes its sum by the difference), and with
them one lemma per call: `AccrueKeeps`, `NotifyBalanceBooks`, `TransferBooks`,
`DistributeBooks`, `ClearedBooks`, `PaymentBooks`.

## 10. Native purchases

`SwapAdapters` is the route registry and the swap of
`PancakeV3QuoteSwapAdapter` and `PancakeV3LaunchPoolBuyAdapter`, `NativeBuy` the two
coordinators, `NativeDevBuy` through the adapters and `DirectV3NativeBuy`
through the router; `coordinator` says which. A call is cut where the buyer is
paid in native coins and runs its own code: Buy, RefundUnspent, BuyTokens,
ReturnDust, Settle, with Revert at every point. The router is external: a swap
takes any part of what it is given, pays anything at or above its minimum.

`native`: two purchases of up to two coins, swaps that pay up to two, a gift to
a contract before or during a call, a quote coin that keeps back a unit. One
gift is enough for a contract to hold something that is not of the call; the
second call is the one that could spend it. No contract ends a call with less
than it began (`HoldingsUntouched`); and none of the native coins sent stays with
one of the contracts, wrapped or not: between calls caller, buyer and router
together have what they had, and no approval is left (`NativeAccountedFor`).
The balances that a revert restores and the
approvals it zeroes are those before the call. Deadlock is not checked, as
calls are bounded.

### Proofs

`NativeBuyProofs` proves both for any taxes, amounts, fee tiers and bounds. The
properties speak of the time between calls; `PurchaseInv` says what holds at
every step: the coordinator has at least what it had before the call, of native
coins exactly that, the adapters have exactly what they had, nothing is approved,
and until the purchase the coordinator also has the `quoteOut` coins it still
has to spend (`CallOK`), so that what the purchase takes is never taken from what
was there. `NativeOwed` follows the native coins through a call: until they are
sold or refunded (`HoldsNative`), the wrapped coins the coordinator has beyond
those of before the call are exactly what caller, buyer and router lack. Lemmas follow the coins: `RouterSwapsIs` (the router takes at most
its approval), `AdapterSwapped` (an adapter left with what it had means that the
router took all of the amount), `RefundKeeps` (what is sent back is what the
call has left, also if the buyer sends coins meanwhile).

## 11. Findings

One finding is a run of its own:

* **A re-canonicalized trade stays orphaned** (`indexer_replay`). A rollback
  marks the row orphaned; the later insert of the same log meets
  `ON CONFLICT DO NOTHING` (`postgres-store.ts:657`). The trade is missing from
  the statistics, the candles and the outbox for good, though
  `backend/README.md:107-111` has it replayed.

Five behaviours are shown by configurations kept beside the runs:

* **A block may be committed without its logs** (`IndexerLogs.cfg`,
  `CanonicalLogsComplete`). Logs read from one fork and blocks from another are
  compared only where there are logs (`indexer.ts:137-142`);
  `backend/README.md:104` calls the HTTP reads the proof path.
* **A crash in the last attempt strands a token** (`MediaCrash.cfg`,
  `AnswersAfterCrash`). The row stays `fetching` with all attempts used, which
  neither a claim nor a request changes; `backend/README.md:9-10` promises bounded retries.
* **Two lanes may download one token** (`MediaDownloads.cfg`,
  `OneDownloadPerToken`), against `migrations/002_media_queue.sql:127-128`, once
  a lease runs out under a slow worker. The final update is fenced; the download
  is not.

* **Two overlapping processes can stop the indexer** (`IndexerRefusal.cfg`,
  `IndexesNeverRefuse`). Met while proving the theorem for one process. After
  three switches a block of an abandoned fork is still canonical and its market
  with it (section 3); the same launch, mined on the chain that won, is refused by
  the unique index (`migrations/003`), and every further sync fails at it. The
  documents size the deployment for one host and do not promise otherwise, so
  this is a hazard of a rolling deployment and not a divergence.

* **Steady events can starve the table** (`FeedStarves.cfg`,
  `ServedUnderEvents`). With answers slower than the 500 ms of the refetch timer
  each event after a firing aborts the refresh before it
  (`realtime-market-feed.tsx:520-526`, `:653-676`). No document promises a time,
  so this is no divergence either.

Seen while modelling the client: the message `resync_required` is handled by no
transport, and the fallback stream does not listen to `market.removed`; a client
too far behind, or one that fell back, relies on the refetch the next trade asks
for.

## 12. Not modelled

* The scheduler's coalescing of wake-ups (no await lies between its tests and
  the flag) and the reconnects of the wake source, which only makes a poll earlier.
* The keys that de-duplicate outbox events (`postgres-store.ts:196`); the set and
  the order of the events are modelled.
* The proxy upgrade of the launchpad (`upgradeToAndCall`), which replaces the code
  the model is about.
* The framing and batching of the JSON-RPC client; its failures are faults of
  the indexer.
* Quote eligibility, the media HTTP server, the market list, health check:
  stateless reads of one moment.
* Registry parsing, decoding of swaps, image sanitizing: pure functions of one
  input.
* Valuations (decimal arithmetic in triggers), migrations (run once, in order).
* The first-version factory: one transaction per launch, superseded by the
  launchpad. Its locker is modelled.
* The developer buy inside a direct launch, beyond the cut where its swaps call
  the quote token.
* In the web application all but the market table: pages, wallets, charts.
* Vendored contracts under `src/contracts/lib`, among them Pancake V3 and
  OpenZeppelin; what the code uses of them is marked external.

## 13. Running

    tlc -workers 4 -config IndexerReorgs.cfg MCIndexer
    tlc -workers 4 -config MediaQueue.cfg MCMediaQueue
    tlc -workers 4 -config HubReplay.cfg MCMarketHub
    tlc -workers 4 -config Launch.cfg MCLaunch
    tlc -workers 4 -config Curve.cfg MCCurve
    tlapm CurveProofs.tla

`PROJECT.json` names the module and configuration of each run, the source lines
of each definition, and for each property a mutant of the code that violates
it. Definitions commented "Mutant" serve those mutants and are used nowhere
else. Configurations that `PROJECT.json` does not list:

| Configuration | Module | Shows |
|---|---|---|
| `IndexerTables.cfg` | `MCIndexer` | all invariants of the indexer hold |
| `IndexerLogs.cfg` | `MCIndexer` | `CanonicalLogsComplete` is violated |
| `IndexerRefusal.cfg` | `MCIndexerPair` | `IndexesNeverRefuse` is violated |
| `MediaPair.cfg` | `MCMediaQueue` | safety for two tokens of one market |
| `MediaCrash.cfg`, `MediaDownloads.cfg` | `MCMediaQueue` | `AnswersAfterCrash`, `OneDownloadPerToken` are violated |
| `HubPair.cfg` | `MCMarketHub` | three sockets for two places |
| `FeedStarves.cfg` | `MarketFeed` | `ServedUnderEvents` is violated |
| `LaunchTypes.cfg`, `FeedTypes.cfg` | `MCLaunch`, `MarketFeed` | the type invariants |
