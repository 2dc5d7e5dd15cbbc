# A verification of pumpy in TLA+

pumpy watches pump.fun: `pumpy-ingest` reads the pumpportal WebSocket, stores
trades in Postgres and fans events out over TCP; `pumpy-bot` follows one wallet,
buys what it creates and sells by price tiers through the Lightning API;
`pumpy-crawl` walks the transactions of every wallet seen and writes a transfer
graph to Neo4j; `pumpy` prints statistics of both databases. This directory models the parts that
hold money or data at risk, checks them with TLC and proves the central ones
with TLAPS. Paths below are relative to `src/`.

## Inventory

| component | state | operations | hard part | correct when |
|---|---|---|---|---|
| bot engine (`internal/bot/engine.go`) | map of positions | `HandleEvent`, `openPosition`, `SafetyTick`, `evaluateSell`, `OpenCount` | one goroutine per buy, per trade and per tick and position | one sell of a position at a time, tiers never go back, closed only after all was sold |
| positions (`position.go`) | price, tier, `inFlight`, `closed` | atomics, `EvaluateTier`, `SellPct` | check of `closed` before the lock | as above |
| ledger (`ledger.go`) | counters, ring of transactions | `RecordBuy`, `RecordSell`, `RecordPositionClosed` | recorded after the fact, out of order | lags, never overstates |
| drain (`shutdown.go`, `cmd/pumpy-bot`) | drain flag | `Listen`, `WaitForExit` | polls a changing map, exits the process | every position held at the signal is sold first; it does exit |
| Lightning client (`internal/lightning`) | none | `Trade` | timeouts of calls that were executed | a signature means an execution; at most `maxRetries`+1 executions |
| crawler (`internal/crawler`, `cmd/pumpy-crawl`) | `wallet_crawl_state`, `wallet_tx_seen` | `SyncWalletQueue`, `PickNextWallet`, `CrawlOnce` | runs end anywhere; leases do not exclude | nothing is skipped, a finished backfill is complete, every backfill ends |
| Dune client (`internal/dune`) | rate limiter | `GetTransactions`, `Normalize` | retries, bodies that are no page, malformed transactions | gives a page of the wallet or an error; index resolution stays in range |
| graph writer (`internal/graph/neo4j.go`) | Neo4j | `UpsertEdges` | MERGE | idempotent, loses no transfer |
| portal client (`internal/portal`) | active mints, connection | `SubscribeToken`, `UnsubscribeToken`, `connect` | reconnect against subscriptions of two goroutines | subscriptions follow the active set |
| pruner (`internal/pruner`) | none | hourly `tick` | compares two snapshots taken at different times; each part may stop at any day | unsubscribes only inactive mints, drops no day that is still shown |
| ingest handler (`cmd/pumpy-ingest`) | none | `OnNewToken`, `OnTrade`, `OnMigration` | failed statements | database, subscriptions and fanout agree |
| fanout (`internal/fanout`) | two bounded buffers | `broadcast`, `serve`, `connect` | drops when full, reconnects | order kept, loss only by a full buffer or a broken connection |
| trade store (`internal/store/store.go`) | queue, batch | `EnqueueTrade`, `writer` | blocks when full, drops on error | each trade accepted is stored once, in order, or logged as lost |
| schema (`internal/store/schema.go`) | schema version, partitions | `ApplySchema`, `EnsurePartitions`, `DropOldPartitions` | two daemons start at once, one may die with the lock; days pass, also while nothing runs | the partition of today exists, old ones go, every start ends |
| queries (`internal/store/*queries.go`, `internal/graph/*queries.go`) | none | leaderboard, whois, stats | the same idea written as different SQL; windows that end within a partition | the pages agree with each other and with what was traded |
| `pumpy` command (`cmd/pumpy`) | none | `top`, `stats`, `whois` | windows against the retention; the queries of a page are no snapshot | asks for windows that are still stored |
| configuration, RPC client, dashboards | none of interest | | | |

How they interact: the portal client calls the ingest handler, then the fanout
server, for each event on its reader goroutine; the pruner calls the portal
client from another; the fanout client feeds the bot's event pump; the engine
calls the Lightning client and the ledger; the crawler shares Postgres with the
ingester (`trades` feeds its queue and its exclusion test) and calls the Dune
client and the graph writer; both daemons migrate Postgres when they start; the
`pumpy` command reads what the pruner keeps. `PROJECT.json` lists what can go wrong, line by
line, under `hazards`.

## Modules

| module | models |
|---|---|
| `BotPosition` | tier and amount arithmetic of `position.go` over integers |
| `BotLedger` | the counters of `ledger.go` as operators on a record |
| `BotEngine` | the engine with its goroutines, the ledger, the drain and the exit; EXTENDS the two above |
| `PositionLifecycle` | abstract: what the bot promises of each position |
| `BotEngine_proofs` | theorems about `BotEngine`, the ledger included |
| `LightningTrade` | `Client.Trade` against an unreliable service |
| `TradeCall` | abstract: what a caller of `Trade` may rely on |
| `LightningTrade_proofs` | theorems about `LightningTrade` |
| `WalletCrawl` | the crawler's queue, lease, pages and statements |
| `CrawlFetch` | the requests of `GetTransactions` and what failing ones do to a crawl; EXTENDS `WalletCrawl` and implements it |
| `WalletCrawl_proofs` | theorems about both |
| `ChainTx` | a transaction as Dune returns it, its normalisation, classification and edges, as operators |
| `TransferGraph` | the Neo4j graph that the crawls of several wallets build; EXTENDS `ChainTx` and `GraphQueries` |
| `GraphQueries` | the Cypher of the `pumpy` command, as operators over the graph |
| `TransferGraph_proofs` | theorems about these three |
| `TradeTable` | the partitioned table `trades`: migrations, partitions, pruner, captured trades |
| `TradeQueries` | the SQL of the `pumpy` command, as operators over rows |
| `TradeStats` | composition: what `top`, `stats` and `whois` show of the table; EXTENDS the two above |
| `TradeStats_proofs` | theorems about these three |
| `MintSubscriptions` | portal client, pruner and ingest handler around one active set, one connection and the table `tokens` |
| `MintSubscriptions_proofs` | theorems about `MintSubscriptions` |
| `TradeStore` | queue, batch and COPY of `store.go` |
| `EventFanout` | fanout server and client with their buffers and connections |
| `IngestFeed` | composition: the reader hands each event to the store, then to the fanout; EXTENDS the two above |
| `IngestFeed_proofs` | theorems about `IngestFeed` |
| `LossyChannel` | abstract: what the bot may expect of the feed |
| `InductionLemmas` | folds, sums and sorted sequences, for the proofs about what adds up or merges |
| `MC...` | instances for TLC |

Operators whose comment starts with "Fault:" are not part of a specification:
each is a plausible wrong version of the definition that follows it, used to
show that a property notices.

### The bot

A position is a function entry per mint. `opener[m]` is the goroutine of
`openPosition`: "buying" before the Lightning call returns, "stored" after
`positions.Store`, "recorded" after `ledger.RecordBuy`. An evaluator `eval[e]`
is one running `evaluateSell`; its steps are the points at which another
goroutine could see a difference: the test of `closed` ("check"), the
compare-and-swap of `inFlight` together with tier and amount ("lock"), the
Lightning call ("selling"), `MarkClosed` ("closing"), and the last ledger call
with the deferred unlock ("settle"). Only the holder of the lock writes
`currentTier`, which is why tier and amount need no steps of their own.
`OpenCount` is one step per mint (`Visit`): `sync.Map.Range` is no snapshot. The
drain flag is read when a ticker spawns an evaluator, as in the code. `LogPanic`
is the slice `Signature[:8]` of a shorter answer, which ends the process.

The abstract `PositionLifecycle` keeps only status, tier and the list of sells.
It admits one thing a reader of the code may not expect, and that the code does:
a sell decided before the close may be executed after it, and sells everything
once more.

### The Lightning client

`post[c][k]` is the request of attempt `k` at the service, which executes or
drops it at any time, also after the client gave up on it. "lost" is every error
of `http.Client.Do`. Buys have a deadline, sells have none. `TradeCall` is the
contract the bot is modelled against: success means at least one execution, an
error means nothing.

### The crawler

Transactions of a wallet are numbered from the oldest. Each SQL statement and
the Neo4j transaction is one step; `Abort` ends a run between any two, which
covers every error return, the cancelled context and the death of the process.
`order` replaces the timestamps of `last_completed_at`. The lease excludes
nobody, so two crawlers may work on one wallet. Dune is assumed to serve
transactions newest first and an offset to name a fixed place; new transactions
may arrive at any time. `covered`, `aborted` and `overlapped` are history, used
by properties only; a run that ends before it has a page leaves nothing half
done and does not count as aborted. Which wallets trade is open: `SyncWalletQueue`
adds any of them to `queued`. `SKIP LOCKED` lets a crawler pass over the rows
that others are picking at that moment, as many as there are idle crawlers.

`CrawlFetch` opens up the one step `GetTransactions` of `WalletCrawl`: each
request gets the page, some other JSON, a status to retry, or an error. `Retry`
is the next turn of the loop, `Answered` a body that decodes, `Fail` every
return of an error. All else is `WalletCrawl` itself, so the refinement says that
no failing request changes what the crawler does otherwise.

### The transfer graph

`ChainTx` translates the pure code as operators on a raw transaction: three key
lists, instructions that name programs and accounts by index or by address,
inner instructions. In `TransferGraph` the constant `ChainTxs` pairs each raw
transaction with what happened on chain (`moves`, `pump`, `trade`), and
`MCTransferGraph` derives the raw form from the moves with an encoder of its own
that follows Solana's message format. The properties speak of the moves only, so
so a mistake in resolving, classifying or merging shows as a graph that disagrees
with the chain. How the chain writes a transaction down is external and stated as
`ChainAssumption`: an index counts through the three key lists in turn (`Names`); an
instruction of the system program with the discriminator 2 and two accounts is a
transfer (`Makes`), and the moves of a transaction are all of those; the `pump` mark
says that a pump program is among the keys or is called; what Dune lists comes outer
instructions first, then the inner ones (`IsListed`). A raw form that is not `intact`
names what is not there, and only then may the normalisation give up. TLC evaluates the
assumption on the encoder's transactions. `Extract` is one turn of the loop over a page, `UpsertEdges` the
write transaction at its end, `LosePage` everything that ends a run in between.
`OutboundTotals` compares what `GraphQueries` shows of the graph with the moves,
whichever of the two wallets of a transfer was crawled. Neo4j keeps one relationship
to a signature and a pair of accounts, so of several moves between the same two in one
transaction it is the first that counts (`First`); the totals are compared for
signatures whose raw form is intact.

### The table and the command

Time runs in ticks, two to the day, so that a window of whole days ends within a
partition as it does in the code. A trade is made at its time whether or not the
ingester is up, and queued only if it is; `Copy` stores all rows that wait or
none of them, and a row without a partition fails it. `PrunerTick` may stop at
any day, of either loop; a sweep looks back a fixed number of days and so does
nothing about what is older. A starting daemon is at "lock" (waits for
`pg_advisory_lock`), "v1", "v2" or "partitions", holding the lock in all but the
first; `Die` at any of them gives it back, as the session is gone. `ensured`,
`swept` and `lapsed` are history: the day of the last complete `EnsurePartitions`,
the cutoff of the last complete sweep, and whether a sweep ever began above that.

`trades` is one of a few histories, chosen in `Init`. Each query is the operator
of the function's name, with the joins and groups of its SQL: set comprehensions
for WHERE and GROUP BY, a sequence where ORDER BY and LIMIT make one. ORDER BY leaves
the order of rows with equal keys open, and so does `Ranked`. What the
three subcommands show is then compared in three ways: with each other
(`PagesAgree`; a wallet's page lists only its `TokenLimit` largest tokens, 5 in
the code, so the volumes of the pages add up to the tile when none is cut and stay
below it otherwise), with the trades that were really made (`PnLIsGain`), and before
and after a sweep (`AnswersSurvivePruning`).

### The ingester

`MintSubscriptions` has two goroutines. The reader dials, copies the active set
in the critical section that publishes the connection, sends what it copied in
chunks, and then calls the handler for one message after the other. The
goroutine that `OnTrade` starts is a step of its own, `UpdateLastTrade`, at any
later time; until then the mint is in `late`. The pruner
asks the database, then the client, then unsubscribes. Each critical section,
statement and message is a step. `subs` is what the feed believes; it is lost
with the connection. `IngestFeed` follows one event from the reader through
`EnqueueTrade`, which blocks, and `Broadcast`, which never does. A COPY that
commits although its answer is lost counts as a success: but for a log line the
code does the same in both cases. A connection of
the bot is a number; the server learns of a closed one by a failing write.
`Crash` empties what the process held and the container starts again.
`dropped` (mints the pruner took out), `told` (mints whose migration the process
heard of), `accepted` (rows `EnqueueTrade` took) and `unstored` (rows given up)
are history, the last two what `StoredOnce` compares the table and the buffers
with. `LossyChannel` is the contract of the feed: order kept, nothing twice, anything
may be lost.

## Runs

| run | question | bounds, and why they are enough |
|---|---|---|
| `bot_races` | can goroutines break the position, what does an exit leave behind? | one mint (positions share no state but the ledger, and `DrainCorrect` is proved for any number), three evaluators: one holding the lock, one waiting, one late; caps 0 and 10 at creation, 3, 11 and 12 later reach every tier and the truncation; two partial sells |
| `bot_liveness` | does a drain end, is a stop-loss carried out? | one mint, two evaluators, every tier, tier S sells nothing |
| `lightning_retry` | what does a result mean? | one call (calls share nothing), the bot's own `maxRetries` of 3 |
| `crawl` | is anything skipped? | one wallet of up to five transactions, one malformed and one without edges, pages of two and two pages per run, so that a run may end within a page, between pages and at its limit, early stop after two, two crawlers |
| `crawl_fetch` | does a backfill end, whatever the requests do? | two wallets competing for one crawler, pages of one and one page per run, so that a backfill takes two runs; one retry, so that both a retried and a final failure happen |
| `transfer_graph` | does the graph say what happened on chain? | two crawled wallets and a stranger, two signatures, each any of 27 transactions: one or two moves, in three encodings, and each reason for which a transaction yields no edge |
| `trade_table` | do rows find their partition and stay while they are shown, do the pages agree, do both daemons start? | three histories of four or five trades: two wallets that leave one mint over two days, a wallet that leaves one mint and keeps part of another, a creation and a position held over the edge of the window; one day ahead, one swept, one retained and three days after the first, so that each loop has a day before, within and after its range; one fault anywhere (two, tried once, change nothing); pages of one token, so that the page of the wallet with two mints is cut and the others are not |
| `subscriptions` | do subscriptions, active set and database agree? | two mints, messages of one mint, so that a reconnect needs two of them; updates of `last_trade_at` may fail or come at any later time |
| `ingest_feed` | what does the way to the store and to the bot lose? | four events, every buffer of one place, batches of two, two connections: each buffer is full and a batch partly filled at some time |
| `exit_with_buy_in_flight`, `sell_after_close`, `crawl_lost_edges` | does the code do what its comments say? | as above; each ends in a counterexample |

The runs of the bot switch deadlock checking off because the bot stops for good
after an exit or a crash, those of the Lightning client because a call returns, `transfer_graph` because
every transaction gets crawled, `trade_table` because time ends.
The evaluators of the safety runs are symmetric, as are mints where no value
distinguishes them; no liveness property is checked under symmetry.

Bounds: `Evals` (goroutines alive at once), `MaxSells` (counted partial sells
of a position; a further one is treated as refused), `MaxTx`, `MaxEvents`,
`MaxConns`, `MaxTime`, `MaxFaults`. The ranges of 7 and 30 days in
`schema.go` are the constants `AheadDays` and `SweepDays`. Nothing else is
cut: market caps are from small sets because only comparisons with two ratios
matter.

### Fairness

Bot: a scheduled goroutine runs (weak fairness of each evaluator and opener), a
Lightning call returns (shown by `CallReturns`), the poll loop polls, the ticker
ticks. The ticker is strongly fair only because the model may lack a free
evaluator where the code just starts a goroutine. Two premises stand in the
properties and not in the fairness: `LightningRecovers`, since a service that
refuses every sell keeps the bot alive forever, and `TradesCease`, since
`SafetyTick` does not wait for the lock and a stream of trades may hold it at
each tick. Lightning client: a call whose wait always has a timeout goes on.
Subscriptions: the reader goes on and dialing succeeds in the end; `Resubscribes`
is stated for behaviours in which the connection and the process hold from some
time on. Feed: the reader and the writer go on and a COPY returns; nothing is
assumed of the bot or of the network, so `NothingWaitsForever` shows that they hold up
nobody. Table: docker restarts a daemon and a start goes on, the wait for the lock
only while it is free; `StartsUp` assumes that deaths cease. Crawler: the loop
goes on, and requests for one wallet that are made again and again are answered
again and again (strong fairness per wallet, since a refused request ends the run
and so disables it). No weaker assumption does: a wallet whose requests always fail
is picked first forever, for a failed run does not move `last_completed_at`, and
no other backfill would end. `BackfillSurvivesFailures` assumes further that runs
stop being cut short within a page.

### What the checks found

1. The bot can exit holding a position (`exit_with_buy_in_flight`): a buy in
   flight when the drain begins is invisible until it is stored.
2. A closed position can be sold again (`sell_after_close`), since `IsClosed`
   is not tested under the lock. `OnlyLateSellersAfterClose` bounds the damage.
3. An incremental crawl loses edges (`crawl_lost_edges`): the early stop returns
   before the page's edges are written, although its new transactions are marked
   seen. With the default of 20 and pages of 1000 this is the common case of an
   incremental run. `BackfillStoresEdges` shows that backfills are not affected.

Three disagreements were seen while modelling that no run shows. `Trade` retries
429 although `internal/lightning/client.go:32` excludes every 4xx;
the service is assumed not to execute what it answers so. The pruner
asks the database before the client (`internal/pruner/pruner.go:55`), so a mint
created in between is unsubscribed although fresh; `FreshWatched` excepts exactly
the mints the pruner dropped and shows that nothing else loses one. When
`MarkMigrated` fails the mint is unwatched all the same (`MigratedUnwatched`),
but a restart watches it again until its row lapses. A node's source says nothing of who it is: the
sender of the edge that creates it becomes `pump_seed`, crawled or not, and a
trader first met as a receiver stays `discovered`; the dashboards count seeds by
it (`internal/graph/neo4j.go:99`).

`PnLIsGain` needs four premises that the queries do not state: the position lies
within the window, every trade of it was captured, it was not opened by a
creation, which the ingester stores with side `create` and no query counts as a
buy, and each row carries the balance that the wallet's own trades leave it. The last
was found by the proof: the queries take `new_token_balance` = 0 for a closed
position, and tokens moved by a plain transfer make one look closed, or open, that is
not. `PartitionsFollowTime` excepts days that a sweep began above: an outage longer
than 30 days, or a longer retention made shorter, leaves partitions that are
never dropped.

`NoGaps` holds only without aborted or overlapping incremental runs: it fails
when either assumption is dropped, which is why both are written into it.

## Proofs

`BotEngine_proofs` proves for every value of the constants (any number of mints
and evaluators, any percentages and ratios) what `bot_races`
checks on an instance, from `ConfigAssumption` and `EngineAssumption` alone:
`TypeCorrect`, `LockCorrect`, `TiersCorrect`, `ClosedCorrect`, `DrainCorrect`,
`LateSellersCorrect` and the refinement `EngineImplementsLifecycle`.

The inductive invariant is built in four parts, each using those before it:

- `TypeInv`: `TypeOK`, and an evaluator that is not idle has a real mint;
- `LockInv`: the flag is set exactly while one evaluator is past its
  compare-and-swap. `OneSellInFlight` says it with sets; this form needs no
  set extensionality in each step;
- `TierInv`: whoever holds the lock holds it at the tier the position has, the
  executed sells ascend and stay below that tier, an evaluator about to close
  has sold everything, and a closed position is tracked and has sold everything.
  Without the first part neither the order of sells nor the close is inductive:
  it is the lock that keeps `currentTier` still between decision and sell;
- `DrainInv`: every mint a loop has passed and that was held when the drain
  began is closed. Closing is final, which makes the walk over a changing map
  sound for exactly those mints, and for no others.

`LedgerCorrect` is proved for any finite number of mints and evaluators:
`LedgerNeverOverstatesOpen` counts both, and finiteness is assumed in the theorem
because nothing else needs it. `LedgerInv` counts on its left side also the positions
that are stored and not yet recorded: without them `RecordBuy` would add one to the
counter and nothing to the other side.

`IngestFeed_proofs` proves for all capacities, batch sizes and numbers of events
and connections, from `StoreAssumption`, `FanoutAssumption` and `FeedAssumption`:
`FeedTypeCorrect` (with it, that no buffer exceeds its capacity),
`StoredOnceCorrect`, `BotBehindStoreCorrect` and the refinement
`FeedImplementsChannel`. It starts with four lemmas on
sequences of numbers (`OfEmpty`, `OfAppend`, `OfTail`, `OfConcat`), which say what
an operation does to the members and to the order. The inductive invariant:

- `ReadsOne`: a client that reads has a connection. Without it `wire[conns]` has
  no type;
- `StoreInv`: table, batch and queue each ascend and each is below the next,
  what was given up is in none of them, and all of this together (`Handed`) is
  what `EnqueueTrade` accepted and nothing that is still to come. That a
  row is in one place only is not inductive; that the places are ordered is,
  and the first follows from the second;
- `FeedInv`: everything between the server and the bot, in every buffer of every
  connection, is in `Handed`, and so is the event the fanout
  is about to get. `Handed` never shrinks: a failed COPY and a crash move rows
  within it.

The refinement joins what the client holds, what the live connection carries, what the
server buffers for it and the event in the reader's hands to one channel. Every way to lose something (a full buffer, a
hangup, a closed connection, a crash) removes a stretch of that sequence, and so is
`Lose`; that the recursive function `Thinned` of `LossyChannel` yields what is left
of a sequence with a stretch cut out is `CutOut`. `ChannelInv` adds `Unused` (nothing
knows of a connection that was not made yet), without which a reconnect could bring
events back.

`WalletCrawl_proofs` proves for any wallets, crawlers, page size, page and early-stop
limits, from `CrawlAssumption`: `TypeCorrect`, `BackfillCoversCorrect`,
`BackfillStoresEdgesCorrect` and `NoGapsCorrect`. After a few lemmas on pages (a page is
a contiguous stretch that ends above the next offset) the inductive invariant is

- `TypeInv`: `TypeOK`, a run has a wallet exactly while it is not idle, and pages
  left to read;
- `WalkInv`: what is left of a run's page is contiguous, ends above the next offset
  and lies below the head of the wallet, its first transaction is marked seen once
  the run is past that step, and only a backfill touches a wallet that has none;
- `CoverInv`: down to the row's offset everything readable was seen, and down to where
  each run of a backfill is. It speaks of every run, since two may share a wallet and
  either may write its offset last;
- `EdgeInv`: the edges of a seen transaction are in the graph or in the memory of
  a run that has yet to store them;
- `GapInv`: below a seen transaction nothing is unseen but what some walk down has
  not reached. That is `NoGaps` while a walk is on its way, and the part in which
  `aborted` and `overlapped` are needed.

The module also proves that `CrawlFetch` implements `WalletCrawl` for any
number of retries (`FetchImplementsCrawl`): of all bodies only the page of the
wallet passes the decoder. `FetchCovers` carries the three properties over: they hold
of a crawl whose requests fail.

`LightningTrade_proofs` proves for any number of calls and attempts, from
`TradeAssumption`: `TypeCorrect`, `RepeatedOnlyInDoubtCorrect` and the refinement
`TradeImplementsCall`. The invariant adds to the types that what the client saw of
each attempt agrees with what the service did of it, all but the last being
something to retry (`SeenInv`), and that attempts to come were not posted and an
answer on its way tells the truth (`PostInv`). The refinement counts executions as a cardinality, hence a few lemmas on
finite sets.

`MintSubscriptions_proofs` proves for any mints and chunk size: `TypeCorrect`,
`ActiveSubscribedCorrect`, `MigratedUnwatchedCorrect` and `FreshWatchedCorrect`.
They are proved together, each being part of the invariant of the others:
`ReaderInv` says what the handler knows of the mint it is at, `SubsInv` counts
what `connect` and the handler still have to subscribe, and `KnownInv` that each
subscribed mint is active or was taken out by the pruner or a migration. It covers
the mints with a late `UpdateLastTrade` too, since such an update may make a row
fresh long after the mint was unsubscribed.
`UnbornInv` rules out that a mint was pruned, or its migration told, before it was
created.

`TradeStats_proofs` proves for any windows, histories and daemons, from
`TableAssumption`, `HistoryAssumption` and `StatsAssumption`: `TypeCorrect` (with it,
that the advisory lock is held exactly by the daemon that is migrating),
`PartitionsCorrect`, `PruningIsInvisible`, `ProfitIsGain` and `PagesAlwaysAgree`. Days are a
division by a constant; five lemmas give what is needed of it. The invariant:

- `VersionInv`: who is past the first migration, or read a version, left a version
  in the table; without it partitions could be made in no schema;
- `BatchInv`: a row waits for less than two ticks, so its day is today or yesterday;
- `AheadInv`: all days from yesterday to the end of what the last complete
  `EnsurePartitions` made are there. Yesterday is needed for the rows that wait over
  midnight, and is safe from the pruner because at least one day is retained;
- `SweptInv`: the last cutoff is in the past, and unless a sweep lapsed nothing is
  older than it.

The other three theorems are about the pages that are computed of the table:

- `PruningIsInvisible` (`AnswersSurvivePruning`): a window reaches back at most
  `RetainDays` days (`StatsAssumption`, from the flags of the command), so each of its
  rows lies in a partition that a sweep spares (`WindowSurvives`); each page is shown
  to be a function of the rows of its window alone;
- `ProfitIsGain` (`PnLIsGain`): what `whois` counts as profit is sells less buys of
  the closed positions, what the wallet gained is the same over all its trades. By
  `ClosedIsLeft` the last row of a mint has balance 0 exactly if the tokens sold are
  those bought, which is where the premise on balances is needed;
- `PagesAlwaysAgree` (`PagesAgree`): the SQL of `top` groups by trader, that of
  `whois` filters by one; one tile adds up trades by mint and another by wallet. Each
  such pair is two ways to split one finite sum, hence the assumption that traders and
  mints are finitely many. A page with room for fewer tokens than the wallet traded
  counts some of its rows (`ListedRows`), and a part of a sum is no more than the
  whole (`TotalOfSome`). What is shown first is the largest whichever way ties fall.

`TransferGraph_proofs` proves for any finite sets of signatures and addresses, any
crawled wallets and any transactions within `ChainAssumption`: `TypeCorrect`,
`EdgesCorrect`, `WrittenCorrect` and `OutboundCorrect`. The argument has four parts:

- the loops of the crawler are folds; each is shown to be a sequence of states, one
  to an element, and then what it leaves is shown step by step (`MergedEdges`,
  `MergedNodes`, `Extracted`, `Flattened`);
- a transaction that normalises has to do with what happened on chain: the joined key
  list is what an index counts through (`KeysAreNames`), so programs and accounts
  resolve to those that were named (`ResolvesRight`), and a decoded transfer is a move
  and the other way round (`DecodesRight`, `MoveIsMade`, `DecodedIsMove`);
  `EdgesOfTx` puts this together, `IntactNormalizes` says when nothing is given up;
- the invariant `GraphInv` says of each page in memory what it says of the graph,
  because a page is what the graph will be: all its edges are transfers, none of a
  readable transaction is missing, and of two with one key the first one is the first
  move (`PagesAreFirst`). MERGE keeps the amount of whatever comes first, so without
  that last part an edge might hold the amount of a later move. `KeysUnique` says
  that MERGE makes no second relationship, `NodesAreEnds` that no node is without one;
- the rows of a page are totals over the parts of `edges`, one to a counterparty, and
  a relationship is known by its signature within such a part, so that a sum over
  relationships is one over signatures.

`InductionLemmas` has what the last two modules and the refinement of the feed need
of recursion. The library states induction with a parameter that is an operator,
which the provers cannot instantiate; here it is stated with sets. A nonempty set of
naturals has a least element (`LeastNat`), so a set that has 0 and with each number
the next has all (`UpTo`). From it follow the recursion equations of the folds over
finite sets and intervals (`SubsetRecursion`, `FoldRecursion`, `IntervalRecursion`),
that a sum depends neither on an order nor on names and splits over disjoint parts
(`SumIsUnique`, `TotalOfParts`, `TotalRenamed`), and that a finite set can be
arranged by a key, in descending order (`DescentExists`): the CHOOSE in `Ranked` has
something to choose.

Every safety invariant, action property and refinement that a passing run checks is a
theorem. What TLC checks and no proof covers is liveness, since fairness and ENABLED
are out of the prover's reach: `DrainCompletes`, `StopLossCloses`, `CallReturns`,
`BackfillSurvivesFailures`, `StartsUp`, `Resubscribes` and `NothingWaitsForever`. The
constants of the proofs are bound by the named assumptions only. Two of them say what
is outside of `src/`: `ChainAssumption` how transactions are written down, and
`HistoryAssumption` what the feed may report.

## Not modelled

Rendering, configuration loading and the RPC client keep no state that
another part depends on. The ledger's history ring and wallet balance are only
displayed. A second create event for a mint is excluded: pump.fun creates a mint
once and the fanout does not replay. Partial sells are a fraction of the
original buy, since `SetRemainingTokens` has no caller; token balances are
therefore not part of the model.

Of the ingester: the length of backoffs. Of the crawler: `transaction_min`,
`api_request_log` and the counters of `wallet_crawl_state`, which are written for
diagnosis and read by nothing. Of the queries: `TradesPerMinute`, which is
`Volume24h` with another window, and those that count rows of other tables
(`NewTokens24h`, `MigratedTokens`, `CrawlerQueueStatus`,
`LastSuccessfulDuneCallAt`). Of the command: the queries of a page run
concurrently without a snapshot; the model takes them at one moment, so that what
is compared is their meaning and not their timing. The feed's event
contents are numbers: which event the bot misses matters to the bot, and
`BotEngine` assumes any price path, hence any loss of trades.

## Plan

What is left is one composition: `BotFeed`, the bot's engine fed by `LossyChannel`,
to say what a lost create or migration means for a position.
