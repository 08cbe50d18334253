# A TLA+ verification of toktik

toktik is a quantitative trading platform in Go: importers and a sync pipeline fill ClickHouse with market
data, an API server answers queries and runs portfolio backtests, and a backtest engine replays bars to
strategies written in Go or in a DSL. This directory holds TLA+ models of the parts of it that keep state over
several steps, the TLC configurations that check them on small instances, and proofs that TLAPS checks for every
value of the constants.

    tlasany M.tla                      parse a module
    tlc -config X.cfg M                model-check module M (the runs are listed below)
    tlapm M_proofs.tla                 check the proofs of a module

`PROJECT.json` relates every definition to the lines of Go it stands for, and every property to a
plausible mistake in that code (a *mutant*: an operator next to the definition it replaces) under which TLC finds
the property violated.

## 1. Inventory

### The system and how its parts talk

    cmd/api-server ── internal/api (gin router, middleware, SSE) ── internal/service
                                                                      │      │
                          pkg/dsl ── internal/backtest (engine, replayer,    └─ internal/chrepo, chquery … ClickHouse
                          pkg/strategies   broker, option spreads)                        ▲
                                           internal/report (artefacts, run.json)          │
    cmd/data-sync-pipeline ── internal/syncpipeline (graph, jobs, sources) ── importers, vendor clients
                                           internal/importledger (import_ledger table) ───┘

A backtest request becomes a *run*: a goroutine that executes it and a goroutine that publishes its state once a
second to the channels of the SSE handlers that subscribed. Runs share a cache of option chains. A run of the
engine, or a batch of them, loads and aligns its data and replays it bar by bar to a strategy, whose orders and
option spreads go to the broker and the spread tracker. Around the handlers, middleware authenticates API keys,
limits rates and measures traffic; rebuilds of universes run in the background of the server. Independently, the
sync pipeline takes a list of jobs with dependencies, each with sources (days, symbols) that workers process; each
source takes a lock in the import ledger, syncs with retries, and records its result. What a source syncs is often
one of the importers, which keep catalogs or ledger rows of their own beside the tables they fill.

### Components

| Component | State | Operations | Hard behaviours | What makes it correct | Modelled by |
|---|---|---|---|---|---|
| Backtest runs (`service/portfolio_backtest.go`, `report/manifest.go`, `api/handler_analytics.go`) | the run under `run.mu`, map of runs, subscriber channels, `run.json` | create, execute, progress, cancel, publish, subscribe, unsubscribe, poll, sweep, persist | lock released between copy and send; three parties race to decide a run; process exit; slow and departing clients | the first decision stands and everybody tells the same one; a stream ends, with one terminal event; no run is lost | `BacktestRun`, `RunOutcome` |
| Option chain cache (same file) | entries with expiry and recency, loads in flight | `GetOrLoad` | single flight, panic of a loader, cancellation, clock read before the lock | one load per key, never a stale or foreign chain, capacity, nobody waits for ever | `ChainCache` |
| Traffic meter, rate limiter (`api/traffic_meter.go`, `middleware.go`) | buckets by minute, buckets by client | count, flush, discard; limit, displace, sweep | requests that finish while a flush writes; displaced and swept buckets | minutes are accounted for in full; nobody is let through more often than rate and burst allow | `TrafficMeter`, `RateLimiter` |
| API keys (`apikeyauth`, `apikeyrepo`, `cmd/api-keys`) | cache of answers, the key's record | authenticate, create, rotate, disable | cached answers against a tool of another process | an answer is at most one TTL old | `KeyAuth` |
| Universe rebuilds (`service/universe.go`, `turnover_intersection_pool.go`) | members with validity, pool of daily tops | start, resume, fill the pool, query, replace | background jobs that overlap, break off, are killed | a replacement takes and adds nothing outside its window, a resumed rebuild skips no day | `UniverseRebuild` |
| Sync: a source (`syncpipeline.go`, `retry.go`, `importledger/ledger.go`) | latest ledger row of a source, locals of each runner | plan, force-unlock, start, sync with retries, mark success or failure | check-then-insert lock, lost replies, crash, TTL | no success is recorded that was not earned; a lock is held by somebody or lapses | `SourceSync` |
| Sync: a job's workers (`syncpipeline.go`) | channels of tasks and results, reports | feed, work, collect, audit | bounded channels, cancellation anywhere, results out of order | each source is reported truly at its place; the job ends | `SyncJob` |
| Sync: the job graph (`syncpipeline.go`) | sorted order, statuses | topological sort, blocking, strict dependencies | cycles, failed and unselected dependencies | order, blocking exactly when due | `SyncRun` |
| Polymarket importer (`polymarket/importer.go`, `processor.go`, `jobs/polymarket.go`) | order books with an undo log, catalog of files, partitions, staged files | plan dirty files, warm, import, roll back, stage ahead | batches in flight at once, lost replies, rewritten files, cancellation | a success has its rows; any sequence of runs comes to the rows one run over all files would; staging ends | `ArchiveBooks`, `ArchiveImport`, `ArchiveStaging` |
| US file importer (`usmarket/importer.go`) | bars and aggregates of a date, ledger | check, replace, load in batches, mark | a ledger without a TTL; several calls that each may fail or be applied unseen | the ledger tells what the table holds | `FileImport` |
| Greeks backfill (`usmarket/greeks_backfill.go`) | bars with and without greeks, aggregates | load, delete, insert, restore, rebuild | fillers in parallel, a restore after partial inserts, two backfills at once | every bar once; aggregates follow; the feeder is heard | `GreeksBackfill` |
| Other US, crypto and forex importers | files, tables | download, convert, insert | – | sequential tools, progress in files | not modelled |
| Batch preparation, replay (`backtest/engine.go`, `preparer.go`, `series.go`, `replayer.go`) | data sets and their cache, align maps, a bar index | load under slots, clone, align, derive, trim, replay | runs that share one cache whose lock is given back while the feed is asked | runs share bars and never columns; the latest closed bar is what is seen; no run waits for ever | `Preparation` |
| Broker (`backtest/broker.go`, `position.go`, `order*.go`) | pending orders, net position, logical entries, cash, trades | submit, process pending, fill, reverse, reduce, TWAP | orders wait while positions change under them | books add up, a close closes its entry once and exactly | `Broker` |
| Option spreads (`backtest/options.go`, `valuation_runtime.go`, `context.go`, `replayer.go`) | tracker's lists, scheduled actions, cash | open, append, close leg or spread, schedule, expire | list changed while ranged over; three ways to close a leg | a spread is in one list, a leg is paid for and closed once, promises are kept | `Spreads` |
| Spread groups (`spread_group*.go`) | groups, rolls, equity samples | open in a group, roll, sample | – | counters and equity match the spreads | not modelled |
| Indicators, statistics | – | compute | – | sequential floating-point formulas | not modelled |
| DSL (`pkg/dsl`), strategies (`pkg/strategies`), optimization | syntax trees, environments | parse, analyse, interpret, search | – | sequential; the order calls are `Broker`'s and `Spreads`' inputs | not modelled |
| Reports (`internal/report`) | files | render | only `run.json` is read back | – | manifest in `BacktestRun` |
| Response cache (`internal/cache`) | map with expiry | get, set | an expired entry's deletion may take a fresh one | a miss computes the response again: nothing is wrong, only slower | not modelled |
| Query services, data feed, ClickHouse access | snapshots | read | priorities | read-only SQL | not modelled |
| Vendor clients, feeds, CLIs, config, schema, front ends | – | – | – | input and output, declarations | not modelled |

`PROJECT.json` lists the same components with their files, and 40 hazards with the line where each bites. Each
names the properties that would catch it going wrong.

## 2. Plan

The order was: (1) `BacktestRun` with its abstract specification `RunOutcome`; (2) `ChainCache`; (3) `SourceSync`; (4)
`SyncJob` and `SyncRun`; (5) `Broker`; (6) `Spreads`; (7) the rest of the server's state, `TrafficMeter`, `KeyAuth`,
`RateLimiter`, `UniverseRebuild`; (8) what a source syncs, `ArchiveBooks`, `ArchiveImport`, `ArchiveStaging`, `FileImport`,
`GreeksBackfill`; (9) the batch a backtest begins with, `Preparation`. Three modules put together the parts that
live in one process or call one another: `ApiServer`, `SyncPipeline`, `BacktestEngine`.

What would come next, most useful first:

- `SyncJob` over `SourceSync`: a job whose sources are runs of the ledger protocol, so that "a source's report is
  what its run returned" becomes "is what the ledger says".
- `BacktestRun` over `ChainCache`: the load of a chain runs under the first caller's context, so cancelling one run
  answers *canceled* to others. `BacktestRun` admits this answer (`SharedLoads`) without saying where it comes from.
- `Spreads`: groups and rolls, mark values and equity.

`RunOutcome` (decide once, record what was decided) is the abstract specification that is refined, by `BacktestRun`.
Worth stating next: a lock with a lease (refined by `SourceSync` where `NoReentry` fails) and a ledger of legs
(refined by `Spreads`).

## 3. Modules

All modules write one action per critical section or per call to the database, so that goroutines, processes and
requests interleave exactly where the code lets them. `MC*` modules only give constants values. Operators named
in a comment as a *mutant* are never used by the specification. A call that may fail comes in two ways where that
makes a difference: it was applied although its caller sees a failure, or it was not.

### BacktestRun and RunOutcome

One asynchronous run. `status`, `finished`, `dirty`, `closed`, `progress` are the fields under `run.mu`; `subs`, `buf`,
`chClosed` the subscriber channels; `pc` and `held` the control and the manifest snapshot of the executor and of each
`DELETE` request; `pub`, `targets`, `event` the control of `publishLoop`, its copy of the subscribers and the event it
sends; `client`, `heard`, `polled` what SSE handlers and polls saw; `inMap`, `aged`, `manifest`, `writeFailed` the service's
map, the passing of `runTTL`, `run.json` and whether a write of it failed.

| Go | TLA+ |
|---|---|
| `markRunning`, `setProgress`, `markCompleted`, `markFailed` | `MarkRunning`, `SetProgress`, `ExecutorMarks` over `Finish` |
| `executeRun` returning, failing, panicking, seeing its context | `EngineReturns` |
| `CancelStrategyBacktest`, `cancelRun` | `CancelRequest`, `CancelMarks` |
| `persistRunManifest`: snapshot under the lock, write outside | `TakeSnapshot`, `WriteManifest` |
| `publishLoop`: `drainEvent`, one non-blocking send per channel, end of a round, `closeSubscribers` | `Drain`, `Send`, `SendOnClosed`, `RoundEnds`, `CloseSubscribers` |
| `subscribe`, `unsubscribe`, the handler's loop | `Subscribe`, `FirstStatus`, `Receive`, `StreamEnds`, `Disconnect`, `Unsubscribe` |
| status endpoint | `Poll` |
| `evictOldRuns` after `runTTL` | `Age`, `EvictOldRuns` |
| the process is killed, or dies of a panic in a goroutine without `recover` | `Crash`, `ProcessDies` |

A snapshot keeps the status and whether progress is absent, partial or closed; requests, results and the tick of one
second are left out (the loop may run at any time). `Age` is possible only when no manifest write is in
flight: a write does not take the two hours of `runTTL`.

`RunOutcome` is what the component promises: an outcome is decided once, and only what was decided is ever
recorded. `BacktestRun!Abstract` maps `decided` to the status of a finished run and `recorded` to the manifest.

### ApiServer: ChainCache, TrafficMeter, KeyAuth, RateLimiter, UniverseRebuild

`ChainCache` is `optionsChainProviderCache.GetOrLoad` with any callers and keys. `entries` and `loads` are the two maps,
`outcome`, `keyOf`, `began`, `ended` the loads ever led, `pc`, `key`, `now`, `load` the locals of each caller (`now` is read
before the lock, as in the code). A caller hits (`Hit`), joins (`Join`, `WaiterAnswered`, `WaiterCanceled`) or leads (`Lead`,
`LoadReturns`, `LoaderPanics`). `Store` prunes what has expired and then evicts the least recently used. Providers are
identified by the load that made them.

`TrafficMeter` has requests that transfer bytes in several minutes and hand them in when they finish (`Transfer`,
`FinishRequest`), and the flusher in its steps: the snapshot of past minutes, the write, which may fail and may then have been
applied, and the discarding (`FlushTick`, `WriteTrafficMinutes`, `DiscardBeforeNow`). Bytes are items of a request and a
minute, so that lost and doubled ones can be told.

`KeyAuth` is `AuthenticateAPIKey` in its three steps, cache (`GetCached`), repository (`FindByDigest`) and cache again
(`SetCached`), while `cmd/api-keys` gives the key another token or disables it (`SetRecord`). `usable` and `unusable` remember at
which instants a token was, and was not, the active key's.

`RateLimiter` is the middleware's map of token buckets: a request takes a token of its bucket, makes one, or makes one in
place of the longest unused (`Request`, `RequestDisplaces`); `Sweep` takes away those unused for `BucketTTL`.

`UniverseRebuild` has requests that each work in the background through the steps of `Rebuild`: the window (`Resume`), the pool's
missing days (`FillFrom`, `DeletePoolRange`, `InsertPoolRows`), the members (`QueryMembers`, `PresetMembers`) and the replacement
under the universe's lock (`FetchOverlapping`, `DeleteExisting`, `InsertMembers`). The query of the rows to clip returns
`MaxIntervals` of them at most, in no fixed order (`FirstRows`), while the deletion takes all. `told` and `covered` remember what
was last computed for a day, `lost` the days left without rows by a replacement that broke off, or one that deleted rows its
query had not returned (`Unseen`).

`ApiServer` puts the five together. They run in one process and share nothing, each has a lock of its own, and so a
behaviour is one of one of them with the others at rest (`part` says which).

### SyncPipeline: SourceSync, SyncJob, SyncRun and the importers

`SourceSync` is one source and one row of `import_ledger`, as several runners work on it: `Begin`, `FindStale`, `StampUnlock`,
`MarkStale` (`ClearStaleLocks`), `ResolveWindow`, `Check`, `StampStart`, `ReadLatest`, `InsertPending` (`Start`), `SyncWrites`,
`SyncReturns`, `Record` (`MarkSuccess`, `MarkFailed`). `ResolveWindow` comes before the ledger is asked: a run without `--force`
that finds the cursor recent reports *skipped* and is over (`report` calls it *recent*, to tell it from a run that
the ledger skips). `written` says whether the tables hold rows of a day that makes the cursor recent; a `Sync` that fails
later, or is killed, may have written them. The table is a `ReplacingMergeTree`: the row with the highest version stays, and
the version is the instant its writer read from the clock before it sent the row. Every
query may fail, every insert may be applied although its caller sees a failure, and both are retried up to
`MaxAttempts` by `Retry`. `Crash` kills a runner at any point.

`SyncJob` is `runJob`: without concurrency a loop (`RunInOrder`, `AllInOrder`), else a feeder (`Hand`, `FeederEnds`),
workers (`SourceReturns`, `SendResult`, `DropResult`, `WorkerLeaves`) and the collecting goroutine (`Collect`, `FillMissing`,
`Audit`), over an unbuffered channel of tasks and a buffered channel of results. `ContextEnds` may happen at any
moment. `SyncRun` is `Run`: the depth-first search of `topoSort` (`VisitName`, `VisitDependency`, `VisitReturns`), whose
recursive calls are the variable `stack`, then one job at a time, `SkipBlocked` or `RunJob`.

`ArchiveBooks` is the processor of the Polymarket archive: what a book shows, which rows an event writes, the undo log of a
file; and, without any of that, `RowsOf`: the rows the whole archive should come to, by which event was seen last
before which. `ArchiveImport` is a run over the files with its catalog: `LoadCheckpoints` and `DirtyFiles`, `WarmFile`, then for each
file `RecordPending`, `ClearOld`, `TakeEvent`, `AppendRow`, two connections with a batch each in flight (`BatchLands`,
`BatchFails`), `Succeed`, or `DropPartial` and `RecordImportFailure`, while files are rewritten and runs are killed. `ArchiveStaging` has the
feeder, the stagers and the importer that takes their results in order. `ArchiveCases` holds the small archives of the runs.

`FileImport` is the import of one date's flat file by the versions it has had: the ledger, existing rows, the replacing of
bars and aggregates, `LedgerStart`, batches and `MarkLoaded`. It has the three modes of its callers: a *replacing* import clears the
date and does not ask the ledger for a success; a *counting* one (`skipExisting`, the default of the tools) refuses a date with
rows; an *appending* one (`--skip-existing=false`) asks the ledger and then adds its file to whatever is there. `under`
remembers what the last import that got to its pending row had not looked for. `GreeksBackfill` has backfills with a feeder and fillers,
each of which loads a task, deletes its chunks, inserts them filled and, when that fails, inserts the originals
(`LoadRows`, `DeleteRows`, `InsertFilled`, `RestoreRows`); the end of a backfill that is to rebuild (`RebuildAggregates`, drawn where
it is read, in `Recheck`) truncates and refills the aggregates (`TruncateDerived`, `ReinsertDerived`). Rows are counted, the table keeps duplicates.

`SyncPipeline` puts them together. A level knows of the next one only what it returns (a status, a report, an error),
and the module of each level leaves that open; so a behaviour is again one of one of them.

### BacktestEngine: Preparation, Broker, Spreads

`Preparation` is `RunBatch` with its parameter sets: `StartRun` within the number of workers, the loads of a run as
goroutines under slots (`TakeSlot`, `LookUp`, `FeedAnswers`, `FeedFails`, `GiveUp`), then `PrimaryLoaded`, `SecuritiesLoaded`,
`Prepared` with alignment, derived columns and the cut of the warmup, and the replay. Data sets are objects on a
`heap`: `own` says which a run holds, `dsCache` which the cache holds, and `derived` which runs put columns on one. Bars
are the times they open at, ascending in every answer of a feed, because the feeds' queries order by timestamp
(`PreparationConstants`).

`Broker`: `pending` is the queue; `ProcessPending` walks it, so `todo` is what it has not looked at and `pending` what remained
so far. `position` is the net position with its cost basis and realized profit, `entries` the logical entries, `cash` the account
relative to its start. `Updated` is `updatePosition` (grow, reduce, close, reverse), `Book` the rest of `executeOrderOnBar` and
`applyTrade`. An order has an entry or none, a side, a kind (market, TWAP, or one that waits for a price), a quantity or a
notional, and may be reduce-only: `Requests` says which of the combinations `OrderBuilder` allows the strategy builds.
`Fill` fills the order that is looked at, whole or by a slice, reduce-only ones with what their entry holds at that moment
(`AsHeld`); `Wait` keeps it. `ExecuteScheduled`, `Submit`, `ClosePosition`, `CloseEntry`, `ExecuteAtClose`, `StopNow`, `CancelOrders` are what
the replayer and the strategy do; scheduled orders and those of the close are any of `Requests` too.

`Spreads`: `spreads` holds every spread's legs by its ID, `array` and `size` the slice of open spreads *with the array behind
it*, because `archiveIfClosed` moves the rest of the list down in place while `forceCloseExpiredOptionLegs` ranges
over it; `archive` the closed ones; `scheduled` and `todo` the scheduled actions and what is left of them on
this bar; `at` and `visiting` the range. `BarBegins`, the scheduled actions (`ActionWaits`, `OpenScheduled`, `CloseScheduled`),
`OnBar` (`OpenSpread`, `AppendSpreadLegs`, `CloseSpreadLeg`, `CloseSpread`, the three `Schedule…`) and the expiry
(`Visit`, `ForceClose`, `AllVisited`) follow one another as in the replayer.

`BacktestEngine` puts the three together: a fill never touches a spread nor a leg the broker, and each draws the prices
that the batch prepares.

## 4. Runs

| Run | Module | Question | Properties |
|---|---|---|---|
| `run_life` | `MCBacktestRun` | Does a run end one way for everybody, while it is streamed, cancelled, evicted, killed, and its manifest fails to be written? Is every decided run recorded, and does every connected client's stream end? | `EvictedRunIsOnDisk`, `ManifestTellsOutcome`, `NothingAfterTerminal`, `OutcomeIsRecorded`, `StreamsEnd`, `PollsAgree`, `ImplementsRunOutcome` |
| `run_final_status` | `MCBacktestRun` | Does a client that reads its stream to the end hear how the run ended? **No.** | `FinalStatusDelivered` |
| `run_disconnect` | `MCBacktestRun` | Can a client that disconnected ask for the status afterwards? **Not always.** | `StatusAfterDisconnect` |
| `server` | `MCApiServer` | Are chains loaded once and served fresh, traffic minutes kept, keys answered recently, rates kept, universes rebuilt within their windows? | `OneLoadPerKey`, `ServedIsGood`, `PromptMinutesAreKept`, `AnswersAreRecent`, `RateIsKept`, `WindowsOnly`, `ResumeSkipsNothing`, `WaitersLeave` |
| `sync_pipeline` | `MCSyncPipeline` | From the graph of jobs to the batches of an importer: is what each level reports true of the level below, under failures, lost replies, kills, cancellations and retries? | `SuccessIsEarned`, `LocksHaveHolders`, `LocksAreReleased`; `ReportsAreTrue`, `VerdictIsRight`; `DependenciesFirst`, `HeldBackWhenBlocked`; `SuccessMeansRows`, `AsIfInOneGo`; `LedgerIsRight`; `EveryBarOnce`, `AggregatesFollow`, `FeederIsHeard`; `GoroutinesEnd` |
| `source_reentry` | `MCSourceSync` | Does the ledger keep two runs from syncing one source? **No.** | `NoReentry` |
| `archive_tail` | `MCArchive` | Are the files after a changed one imported again? **Not after an interruption.** | `TailIsReprocessed` |
| `file_replace` | `MCFileImport` | Does replacing rebuild a date safely? **Not while a pending row is left.** | `ReplaceRebuilds` |
| `greeks_restore` | `MCGreeks` | Are the original rows restored when an insert fails? **Not only they.** | `RestoredAsBefore` |
| `backtest_engine` | `MCBacktestEngine` | Do the books add up, are closes and scheduled promises kept, do the runs of a batch see the right bars and never each other's columns? | `NetIsEntries`, `EquityAddsUp`, `OneClosePerEntry`, `ReduceOnlyCloses`; `CashIsLegs`, `PromisesKept`, `SkippedAtMostArchived`; `SeesLatestConfirmed`, `RunsDoNotShare`, `SameRequestSameData`, `NobodyWaitsForEver` |
| `spread_expiry` | `MCSpreads` | Is every expired leg closed on its bar? **No.** | `ExpiredAreClosed` |
| `lookahead_fill` | `MCPreparation` | Is no order filled at a price from before its decision? **No.** | `NoLookahead` |

### Findings

Eight runs end in a violation, each of something a document, a comment, an error message or a test of the repository
says.

- `run_final_status`: `publishLoop` drops the event of a subscriber whose channel is full, the terminal one too, and then
  closes the channel: a slow but connected client reaches the end of its stream without the final status that
  `handler_analytics.go:265` announces. The same comment goes on to advise clients to get the status once more after the stream:
that helps them, and does not make the announcement true. (The channel holds eight events; the run shows it with fewer.)
- `run_disconnect`: `publishLoop` sends on channels it copied under the lock, and `unsubscribe` closes such a channel
  under the lock. A client that disconnects in between makes the send panic in a goroutine without `recover`:
  the process exits, and the run, which lives in memory, is gone. `docs/dsl.md:64` tells clients to ask the
  status endpoint again after a disconnection.
- `source_reentry`: `Start` reads the latest row and inserts its own in two calls, so two runs both pass the check and sync
  the same source at once. `docs/agent-operations.zh-TW.md:119` says the ledger prevents re-entry.
- `archive_tail`: a file is dirty when its own fingerprint is not the imported one. A run that imports a changed file again
  and stops there leaves the files after it as the old books made them, and no later run notices, though
  `jobs/polymarket_test.go:76` expects the tail after a dirty file to be reprocessed.
- `file_replace`: a replacing import clears the date before it asks the ledger, which, asked without a `PendingTTL`, refuses
  a source whose last import left its pending row. The date stays empty and cannot be imported; the error at
  `importer.go:263` advises to *rerun with replace-dates to rebuild safely*.
- `greeks_restore`: when a later batch of the updated rows fails, all the original rows are inserted beside the batches that
  were applied, in a table that keeps duplicates; the error at `greeks_backfill.go:354` says *original rows restored*.
- `spread_expiry`: `forceCloseExpiredOptionLegs` ranges over the list that closing a spread shortens in place. With
  three spreads that expire on one bar the second is skipped and keeps its expired leg until a later bar,
  or to the end of the run. `fixes_test.go:496` expects of the call, with a single spread, that no expired
  leg is left. `SkippedAtMostArchived`, which holds, says how bad it gets: no more spreads are skipped on
  a bar than were closed on it.
- `lookahead_fill`: the broker takes the prices of a security from the bar its align map gives, the last closed one. An
  order for a security of a longer interval, or one with a gap, fills at the open of a bar the strategy had
  seen when it placed the order; `README.md:98` says orders execute at the next bar's open to prevent that.

Further observations, met while modelling and admitted by the models, which say them in a property's exception:

- The pool of daily intersections is judged by its latest day only, so earlier days of a lookback asked for later are never
  filled (`docs/dsl.md:774`). `WindowsOnly` compares with what the rebuild computed.
- Bytes of a request that outlives its minute either replace the minute's row or are discarded with its bucket: hence the
  *prompt* minutes of `PromptMinutesAreKept`.
- A run that finds a source's cursor recent skips it before it asks the ledger (`syncpipeline.go:488`, expected by
  `syncpipeline_test.go:51`). The rows that make the cursor recent may be those of a `Sync` that failed or was killed after it had
  written its last day: the source is then skipped although the ledger says *failed*, or holds a lock that nobody will
  release. `SuccessIsEarned` asks of such a run only that there are rows.
- With `--skip-existing=false`, which `README.md:1097` recommends *to force re-import*, a version the ledger calls a success is skipped all
  the same, and rows of another version, or of an import that failed halfway, stay beneath those of the new one, under a ledger
  that says success (`LedgerIsRight` says exactly what is there).
- A replacement of a universe that overlaps more than 500,000 rows deletes those its query did not return (`lost`).
- Marking a corrupt archive file as skipped is refused by the catalog's `Enum8` (`polymarket/importer.go:289`): `SkipFile` ends
  the run.
- After a greeks task that failed, its rows count twice in the aggregates until a backfill rebuilds them
  (`AggregatesFollow` speaks of the end of one without an error), and rows a filler had deleted are lost when the
  interrupt cancels the restore too (`spoiled`). If none of its fillers gets a connection the feeder waits for ever
  (`FeederIsHeard` speaks of backfills one of whose fillers was connected).

### Bounds, and why they are enough

- **BacktestRun.** One SSE client (channels do not interact: every property speaks of one), one cancellation (with the executor, the
  sweeper and a crash it makes the parties that race; the theorems hold for any number), `BufferCap` 2 against the
  code's 8 (what matters is a channel that is empty, partly full or full), `MaxProgress` 1, one crash. `WriteMayFail` and
  `SharedLoads` are on: a lost manifest is not retried, so `OutcomeIsRecorded` allows a write that failed.
- **ApiServer.** Two callers and two keys of chains with room for one (one load joined, one competing), `MaxCalls` 3 (a load, a join,
  a reload), `TTL` 1 and `MaxTime` 2 (fresh, expired, and a clock read two instants ago). Two requests over three
  minutes for the meter: one that finishes while a flush of its minute is written. Two calls and two tokens for the keys, with
  a TTL of two instants and a key that expires. Three clients for two rate buckets, a sweep after two seconds. Two rebuilds
  of two symbols over three days, whose members make three intervals (one symbol's score changes, the other's does not), cut
  on both sides by windows, and a query that returns two of them.
- **SyncPipeline.** Two runners, one of which forces and force-unlocks; two attempts per call; time passes by itself up to 4 with
  `TTL` 3, so a pending row can lapse while its run works; `MaxTime` 16 leaves every run the instants it needs. Three sources
  for two workers: more than the channel of results has places, and a worker that comes back. Every selection of three
  jobs and every pair of lists with up to two entries: self-loops, cycles of two and three, diamonds, dependencies not
  selected. Archives of three files, in order (`MCStreamsInOrder`), with books whose windows end in different hours, late arrivals, a broken file,
  a rewrite at any time, two runs and one fault, batches of one and two rows. Three staged files for two stagers. Two versions of
  a flat file in two batches, three imports, two failing calls. Two backfills of two tasks and two chunks, one with two fillers, one
  failing call and kills.
- **BacktestEngine.** The prices and the notional are multiples of every quantity the run reaches, so that the code's floating-point divisions
  by quantities come out even and `EquityAddsUp` is exact; seven requests (entries that grow, reverse and are reduced, at the market,
  in slices, at a price or by notional), each of them placed at any time or scheduled; three trades are enough to open, add and reverse or close; two orders
  queued let one change the position under the other. Three spreads are what it takes to skip one; two legs with different
  expiries let a spread lose one leg and live; three bars are before, at and after an expiry; all legs opened or
  closed by one call have one price. Two runs of a batch with one or two workers, equal or different warmups, and a primary, an hourly
  series whose first bar may be late, a series with a gap and a factor; one load slot against the code's eight, so that
  somebody waits for it; feeds that are not registered, calls that fail, a context that ends.

Symmetry is not used: the runs check liveness, or their constants are compared with one another.

### Fairness

- `BacktestRun!FairSpec`: the service's goroutines run until they block, the ticker keeps ticking, the engine returns (it loops over a
  finite data set), a handler whose client stays connected keeps reading. A run that waits for a chain another
  run loads is taken to return as well; when that loader has panicked it would not, until it is cancelled itself, which `ChainCache`
  (`WaitersLeave`) and the hazard at `portfolio_backtest.go:395` say. Nothing is assumed of clients,
  cancellations, the passing of two hours or crashes.
- `ApiServer!ServerSpec`: a goroutine inside `GetOrLoad` gets the lock, its query returns (ClickHouse bounds it), its select fires.
- `SyncPipeline!PipelineSpec`: a runner that lives goes on; a query returns, and so does a sync, which the source's time-out bounds.
  The goroutines of a job and of the staging are scheduled, and what they call returns. Crashes and failures stay possible at every step.

All of it is weak fairness per goroutine or process; none is on an environment action. `FeederIsHeard` and
`NobodyWaitsForEver` speak about waiting without a temporal formula: the first says that the other end of a blocked send
is there, the second that a run at work, or one of its own loads, satisfies the guard of a step; since each of those steps
brings a run forward, and a run has finitely many (`OnlyForward` in section 5), none waits for ever. `CHECK_DEADLOCK FALSE` is said where the system may stop: runs
end, bounds are reached, processes die.

## 5. Proofs

Every theorem holds for all values of the constants that the module's named assumption admits.

| Module | Theorem | What it says |
|---|---|---|
| `BacktestRun_proofs` | `TypeCorrect` | types |
| | `ManifestIsTruthful`, `PollersAgree`, `EvictionKeepsRecord` | `ManifestTellsOutcome`, `PollsAgree`, `EvictedRunIsOnDisk` |
| | `TerminalIsLast` | `NothingAfterTerminal` |
| | `DecidedOnce`, `NoOrphans` | `OutcomeIsFinal`, `NobodyLeftSubscribed`, which are in no run: `ImplementsRunOutcome` and `StreamsEnd` are stronger there |
| | `RunImplementsOutcome` | `Spec => Abstract!Spec` |
| `ChainCache_proofs` | `TypeCorrect`, `SingleFlight`, `ServedWell` | types, `OneLoadPerKey`, `ServedIsGood` |
| | `CapacityKept`, `NobodyStranded` | the cache stays within `maxSize`; only a loader's panic leaves a load undone |
| `ApiServer_proofs` | `RecentAnswers`, `RateKept`, `PromptMinutesKept` | `AnswersAreRecent`, `RateIsKept`, `PromptMinutesAreKept` |
| | `WindowsKept`, `NoDaySkipped` | `WindowsOnly`, `ResumeSkipsNothing` |
| `Sync_proofs` | `TypeCorrect`, `EarnedSuccess`, `HeldLocks` | of `SourceSync`: types, `SuccessIsEarned`, `LocksHaveHolders` |
| | `JobTypeCorrect`, `TrueReports`, `RightVerdict` | of `SyncJob`: types, `ReportsAreTrue`, `VerdictIsRight` |
| | `NoGoroutineStuck`, `JobComesToEnd` | the two halves of `GoroutinesEnd` that need no fairness: somebody can go on until the job is over, and each step leaves less to do |
| | `OrderedByNeed`, `BlockedOnlyWhenDue` | of `SyncRun`: `DependenciesFirst`, `HeldBackWhenBlocked` |
| `Imports_proofs` | `NoDuplicates`, `TruthfulLedger` | of `FileImport`: `NoBarTwice` (in no run), `LedgerIsRight` |
| | `BarsOnce`, `FeederHeard`, `AggregatesRight` | of `GreeksBackfill`: `EveryBarOnce`, `FeederIsHeard`, `AggregatesFollow` |
| | `SuccessHasRows` | of `ArchiveImport`: `SuccessMeansRows` |
| | `OneGo` | of `ArchiveImport`: `AsIfInOneGo`, for files as `StreamsInOrder` takes them to be |
| | `StagingNotStuck`, `StagingComesToEnd` | of `ArchiveStaging`: the two halves of `StagingEnds` that need no fairness |
| `Backtest_proofs` | `RunsAreApart`, `SameDataForAll`, `LatestConfirmed` | of `Preparation`: `RunsDoNotShare`, `SameRequestSameData`, `SeesLatestConfirmed` |
| | `NobodyIsStuck`, `OnlyForward` | `NobodyWaitsForEver`; and that every step brings its run or load forward and none takes one back |
| | `TypeCorrect`, `CloseOnce`, `ClosesClose` | of `Broker`: types, `OneClosePerEntry`, `ReduceOnlyCloses` |
| | `NetPosition` | `NetIsEntries` |
| | `EquityHolds` | `EquityAddsUp`, as long as average prices are whole (`WholeAverage`) |
| `Spreads_proofs` | `TypeCorrect`, `OneList`, `FirstCloseStands`, `SchedulePromises` | types, `ListedOnce` and `ClosedStays` (in no run), `PromisesKept` |
| | `FewSkipped`, `EveryLegPaidOnce` | `SkippedAtMostArchived`, `CashIsLegs` |

The arguments, each an inductive invariant that strengthens the property:

- **BacktestRun.** A manifest snapshot is only taken by a writer that has seen the run finished, and a finished run keeps its status;
  so whatever snapshot is held, of whatever age, tells the outcome (`ManifestIsTruthful`). A poll's answer is tied to the run in
  memory, and to the manifest once the run has left it, so answers agree across eviction and restart. A finished run has a
  manifest, or a write that failed, or a writer on its way to one; two hours later nobody is on the way, so an evicted run has
  one of the first two (`RecordInv`). For the streams: a terminal event is published in the round that ends the
  loop, a subscriber admitted before the end is in the next copy, one admitted after it is refused its registration; so
  the terminal event is last and nobody stays registered.
- **ChainCache.** Loads are numbered as they are led and a caller inside a load is its only leader; the load registered for a key is
  pending, that key's, and excludes an entry for it; so two callers loading one key would lead the same load. An entry
  holds a provider loaded for its key and expires a TTL after that load began, the leader's and the waiters' clock readings
  are past, and a waiter reads its clock before its load ends: so what anybody is served was loaded late enough.
  Storing a new entry evicts one when there is none to spare, which bounds the set of keys held.
- **ApiServer.** For the keys: each answer on its way, cached or in a call's hands, has a witness, an instant since the call began
  at which the token was, or was not, the key's; a cached answer expires `AuthTTL` after the clock reading it carries. For the rates:
  what a bucket holds and what was granted stay within the burst, the time since the first request and a burst for each
  displacement; sweeping a bucket unused for so long gives nothing away, because it was full. For the traffic: whatever
  a request of a prompt minute has to show is in the minute's bucket until the flush that discards it has written it. For the
  universes: one rebuild at most is between its fetch and its insert, and between its delete and its insert the rows it has
  kept back are, with those in the table, right for every day outside its window (`Ready`); clipping pairs the rows of such a day one
  for one (`PiecesMatch`), and a compressed interval ends where its score does, before the symbol's next one begins.
- **SourceSync.** A verdict becomes a success only when a sync has gone through, and only such a verdict is written as one;
  who is skipped by the ledger has seen such a row, and who is skipped as recent has seen written days, which stay
  (`EarnedInv`). Each clock reading is an instant of its own (`StampsInv`), so a run's result is newer than its pending row:
  when it is applied, the lock is gone, and when a run ends without, a crash or a failed call is to blame (`HolderInv`).
- **FileImport.** Step by step an import knows what the table holds above what it has not looked for (`under`): it is past the check
  only if the table was empty, or it has cleared it, or it appends; and between batches it holds exactly those before the
  next one, or one of a failed call more. So a success is written only over the whole file.
- **GreeksBackfill.** At most one filler has loaded the rows of a task that is not spoiled, and its step with the chunks it has
  left says what the table holds of each (`RowsInv`). A filler that has been connected stays until the tasks are handed
  out, so a feeder is heard (`HeardInv`). A backfill at whose end no other is at work has the tables to itself: an aggregate it
  has refilled equals the table, one it has truncated is empty, and one that was to rebuild has refilled both (`RebuildInv`).
- **ArchiveImport.** From its pending row on until it is settled, the success of the file at work is not on record, or not surely
  (`Recorded`), so nothing a run does to the partition can belie one; other files' partitions it leaves alone. What is imported
  without dropping the partition first has no checkpoint, and what has none has no rows (`Workload`, `Kept`): so the partition is
  empty when the writer is opened. From there on, row by row, what is in the partition, in flight and pending on the two
  connections and still to be appended is what the file has emitted, unless a batch has failed (`Balance`); with all replies
  there, none failed, nothing is on its way. Rows are counted in lists and bags of any elements; the lemmas say how often a row
  is in a list that grows or shrinks by one, and in the sum of two bags.
- **The books of ArchiveImport.** `RowsOf` looks at the whole log of a run, the processor sees one event at a time. The invariant
  (`Books`) joins them at each place of the log: the book the processor has of a stream is the one the stream's events before
  that place make (`BookRight`): there is one if there are such events, it is emitted if one of them called for rows, and
  as long as it is not it shows the last snapshot, the changes since and the last tick. One event takes this to the next place and is
  worth the rows `RowsOf` has of it, imported or only read (`ProcessRight`, `RowsNext`); what a log says of a place depends on
  nothing after it (`AlikeRight`, `SameRows`), so opening, closing and skipping files carries over what was so before. While a
  file is at work, the books its undo log leads back to are those of the place where it began (`Undoable`). A book may be
  wrong where nothing but late events can follow (`LateFrom`): that is where late events and watermarks drop it. And an event in
  the window that finds no book is dropped by an import, a tick too; but with the clocks in order a book that comes between it
  and another event in the window is in the window itself and calls for a row, so the dropped tick is missing from no synthetic
  row (`TickIsShown`). `StreamsInOrder` is a hypothesis of this theorem, and the run checks that its files satisfy it:
  `processor.go` sorts nothing, and relies on receive times that are not before a file's hour and on both clocks of a stream
  running forward. Without it the property fails: a book from before the window may follow the dropped tick. That no two
  events of a file are alike (`ArchiveContents`) is what lets `RowsOf` be a set.
- **ArchiveStaging.** The channel of indices is closed by the feeder on its way out only, after the last index, and a worker leaves
  only then (`Departures`). A file the feeder is past is with exactly one worker, whose send finds the file's channel empty, or has its
  result there, or has been taken (`Whereabouts`): so an importer that waits for a file waits for a result, a worker or the feeder.
  `StepsLeft` counts the steps of the three.
- **SyncJob.** A source that was handed out is with one worker at most, or once in the channel with what its run returned, or reported;
  never two of these (`Places`). While the context lives none of them is lost, and the verdict counts the
  reports that are there (`Truth`). A worker is gone only when the channel of tasks is closed or the context is done, so the feeder
  is never left with a task and no taker, nor the loop with an open channel of results and nobody to send (`SomebodyCan`);
  and `WorkLeft` counts what is left of the loop, of the sources to hand out, of each worker's task and of the results in
  the channel: a step moves work from one of these to the next at a loss.
- **SyncRun.** The jobs on the stack are those marked 1, each once, and the queue holds those marked 2; the call below another is
  looking at the job above it (`SearchInv`). What a job on the stack depends on is still to be looked at, is done, or is the job
  above it, and what a done job depends on comes before it in the queue (`OrderInv`). A dependency that is marked 1 is therefore
  on the stack, where each job needs the one above it and the top one needs the dependency: the stack down to it is the circle a
  refused run must have. While the jobs run, those with a report and those in the queue are the selected ones, and a job's
  dependencies are not behind it in the queue (`ReportInv`), so whether it is blocked is settled before its turn.
- **Preparation.** A group of loads is started once and what is done stays done (`LoadsInv`), so a run's copy of a series is made
  once and never under another's name. A run owns its copies, its factors and its slice (`Owned`); what the cache holds
  is an object nobody owns and nobody loads again (`Cached`). Deriving touches what the run owns only (`Derivations`), and what
  it owns of a cached series has the bars of the cached object, which never change (`Same`). A run that replays has loaded every
  series (`Reached`, `Fetched`), so no load of its own is left and others write elsewhere: what it was aligned with stays. Every
  data set is ascending, because the histories are and a window of an ascending sequence is (`Timed`, `PartFacts`), and in an
  ascending sequence the bars before the first one late enough are those too early (`FirstFacts`): that is what both the
  alignment and the cut of the warmup search for. A run that waits has started all it waits for (`Begun`), a load that waits for a
slot waits for loads of its own group, which need none, and the index of a run that replays is within the bars it replays, which
nobody changes (`InBars`): so somebody's guard holds. Stages, states of loads and the index only rise (`BatchForward`).
- **Broker.** An entry's reduce-only order is looked for in the whole queue before another is appended; while `ProcessPending`
  walks the queue no order is added, and what it keeps moves from one part to the other. Such an order fills only while it is
  against what its entry holds, and its quantity, or the rest its slices are taken of, is what
  its entry holds at the moment of the fill. A fill moves the net position, and either one entry or
  the history of fills without one, by the same quantity, so the sum over the entries follows (`NetPosition`). Its price times
  its quantity moves the cash, and the cost basis or the realized profit: the difference is kept by adding to a position, and by
  closing part of one at an average price that leaves no rest; the model divides whole numbers where the code divides floats,
  and `EquityHolds` assumes there is none.
- **Spreads.** Whatever operation of the tracker runs, legs stay, closed ones as they are and fully closed spreads whole (`Keeps`);
  archiving shifts the rest of the list down, injectively, so only the archived spread leaves it, and a spread is archived
  in the call that closes its last leg. Every scheduled action aims at spreads and legs that exist, because neither ever
  goes. A promised close has been kept, or waits among the actions still to look at, or, for a later bar, in the
  schedule (`PromiseInv`); when the strategy acts nothing is left to look at. While expired legs are closed, the late spreads
  that the range has passed are no more than the spreads archived in it, each of which moved one place (`SkipInv`). Closing
  turns a leg from open to closed once, and adds its exit flow to the cash and to what the leg has moved; the sum over the legs
  of its spread and the sum over the spreads change by just that.
- **Sums.** What the books hold is a sum over entries, legs or spreads, folded as the community modules do. Induction over
  finite sets would show that such a sum changes by what one term changes (`SumChanged`), and that it splits (`SumDisjoint`,
  `SumPlus`); the provers cannot instantiate it, so each fact is shown by contradiction from a smallest set for which it fails
  (`Smallest`), which exists because strict inclusion of finite sets is well-founded. The same lemma gives the least element of a
  set of indices (`Least`).

Type invariants are proved or implied by these and are in no run. Only model-checked are: all liveness
(`OutcomeIsRecorded`, `StreamsEnd`, `WaitersLeave`, `LocksAreReleased`, `GoroutinesEnd`), which the prover does not treat under
fairness (of `GoroutinesEnd` what needs no fairness is proved: until a job or a staging is over somebody can go on, by guards that
TLC has compared with ENABLED, and every step leaves less to do). Every safety invariant and action property of a passing run is
stated by a theorem.

## 6. Not modelled

Section 1 says which components have no module and why. By lines they are most of the repository: indicators, statistics and
options analytics are sequential floating-point formulas, the query services are read-only SQL and its shaping into
responses, the vendor clients and importers of other markets translate one format into another, the DSL is a sequential
language implementation, and the rest are commands, schema and front ends. None of them keeps state that two actors
share, and a model of them would have nothing to interleave; the map therefore covers a small share of the lines.

Inside the modelled parts, left out are: what a backtest computes and the content of its result; the fixed
one-second tick; dry runs and data verification of a source (a window that would end before it starts is one of the ends of
`ResolveWindow`); `LimitTasks` of a greeks backfill, which shortens its list of tasks; a batch of archive rows that lands only after its
connection has reported it failed and the partition has been dropped (`BatchFails` decides at once whether it was applied); the sync jobs whose importers have no module;
base-asset accounting and `ClosePositionTWAP` in the broker; spread groups, rolls, greeks, mark values and the choice of
quotes in the spreads; a price that is missing when a leg is closed (the code books whatever price it is given);
which indicators are computed, progress and multi-asset positions in a batch; the condition metadata, the stage files and the Parquet of the
archive; the classification of ETFs in universes; which key a request is limited by; the token format of API keys. Slippage
is part of the drawn prices and commissions are flat.
