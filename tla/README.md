# A TLA+ verification of DevilRay (devilray-sui)

DevilRay is one tokio daemon that keeps a catalog of the concentrated-liquidity
pools of four Sui DEXes, keeps their state fresh, and answers quotes. Around it
are PostgreSQL (the catalog), Redis (a cache and two lists), ClickHouse (swap
events), Sui's RPC, GraphQL and WebSocket endpoints, and `replay_dlq`, a program
an operator runs by hand. Paths below are relative to `src/`, the repository.

## 1. Inventory

| Part | State | Operations | Code |
|---|---|---|---|
| Message queue | write list, dead-letter list, one connection | publish, consume, push_dlq, pop_dlq | `src/queue.rs` |
| Database writer | message in hand, attempts | loop: consume, persist with 3 tries, park | `src/workers/db_writer.rs` |
| DLQ replay | entry in hand, iterations left | pop, publish, at most `limit` times | `src/queue.rs`, `src/bin/replay_dlq.rs` |
| Dynamic pool manager | bounded channel, producers, workers | listener, polling loop, `process_task`, shutdown joins | `src/workers/dynamic_worker.rs` |
| Static pool manager | progress rows, failures, catalog, `topology_ready` | discovery cycle: bootstrap, events, retry, reconcile, snapshot | `src/workers/static_worker.rs` |
| Discovery scanners | cursor, page, commit in hand | object bootstrap; event scan | `src/discovery/scanner.rs` |
| Storage | tables; keys with a TTL | upserts, one transaction per page, cached lists | `src/storage/*.rs` |
| Daemon | task handles, flags | connect with retry, spawn, wait, join | `src/daemon.rs`, `src/main.rs` |
| Quote API | the request's locals; two cached lists | load and overlay, route, split, build | `src/api/quote.rs`, `src/api/info.rs` |
| WebSocket API | subscriptions, a place in the broadcast ring | subscribe, unsubscribe, forward, lag | `src/api/websocket.rs` |
| Router | none (pure) | three searches, split with pruning, tick walk | `src/router.rs` |
| Transactions | command list, results | commands per DEX, coin and gas checks, resolution | `src/dex_swap.rs`, `src/transaction_builder.rs` |
| Slippage, integers | none (pure) | minima, signed encodings | `src/slippage.rs`, `src/sui_int.rs` |
| Sui client | endpoint lists | failover, paged coins | `src/sui_client.rs` |
| Collectors, ticks | page, cursor, list | decode pools, page ticks | `src/collectors/*.rs` |

How they interact. The static manager writes the catalog directly to PostgreSQL,
one transaction per page, and copies each page to Redis and to the write queue
from a detached task. The dynamic manager refreshes pools: each task fetches one
pool from the chain, sets it in Redis, publishes it to the write queue and
broadcasts it to WebSocket clients. The database writer is the only consumer of
the write queue. A quote reads the list of pools from Redis, or from PostgreSQL
and then writes it back, lays the live keys over it, searches routes, splits the
amount and, for `/build-tx`, turns the splits into one transaction. Everything
shares one watch channel for the shutdown flag, and all queue calls of the daemon
share one Redis connection that is never reopened.

What is hard in it:

- *Custody.* A popped message lives only in memory; replies get lost; the process
  is killed; a replay runs beside the writer.
- *Order.* Rows and keys are overwritten unconditionally, so two workers of one
  pool, a replay, a detached task or a slow request can bring old state back; a
  WebSocket frame may name any pool, also one the catalog does not have.
- *Resumption.* A cursor and the objects before it are saved together, while
  commits fail, go unacknowledged, and cursors expire.
- *Paging over several endpoints.* Consecutive pages come from endpoints that are
  not in step, an error is known only by the last endpoint's text, and a page that
  lacks its cursor or its data is taken for the last or for empty.
- *Termination.* Producers block on a full channel while the manager joins them
  before it drops the sender the workers wait for; the daemon joins four tasks in
  a fixed order.
- *Indices and rounding.* A transaction's commands name each other's results by
  number, amounts are rounded at every split and hop and go through f64, negative
  ticks come in two encodings, price bounds in two scales.

`PROJECT.json` lists each hazard with its line and the properties that meet it.

What makes each part correct: a message is in one place, is not written again
once acknowledged, and is lost only to a fault; first deliveries keep their
order; a pool's newest state wins in the end; an accepted task is not abandoned;
no object or event is skipped; discovery refreshes Redis only with what it has
committed, and a stale list goes away; what clients were told is what quotes are
computed from, until an older state is put over it; a
search finds the route it promises, a split spends the whole input, a transaction
uses each of its results once; a shutdown ends.

## 2. Modules

| Module | Models | Notes |
|---|---|---|
| `MessageQueue` | the Redis lists and their commands | state shared by the next two |
| `DatabaseWriter` | the writer's loop and sinks | extends `MessageQueue` |
| `ReplayDlq` | the replay program | extends `MessageQueue` |
| `ColdPath` | publishers, writer and replayer together, kills and restarts | composes the three |
| `Ledger` | what the write path promises per message | abstract; `ColdPath` implements it |
| `DynamicWorkers` | listener, polling loop, channel, workers, manager | |
| `Discovery` | the discovery cycle over object bootstrap | |
| `Daemon` | `run_daemon` from the first connection to the last join | |
| `Quotes` | a request's data, the cached lists, live keys and their writers | extends `Daemon` |
| `Sockets` | one WebSocket client and its place in the broadcast ring | |
| `Service` | the running process | composes `Daemon`, `Quotes`, `Sockets` |
| `Router` | Dijkstra, DFS, Bellman-Ford, the split and its pruning | |
| `TickSwap` | the walk over initialised ticks | |
| `Routing` | one routing job or one walk | composes the two |
| `BuildTx` | `handle_build_tx` and the transaction builder | |
| `SuiClient` | endpoints, failover, paged coins | |
| `TickFetch` | `fetch_tick_data` of four DEXes | extends `SuiClient` |
| `EventScan` | the scan of one event type | extends `SuiClient` |
| `ChainReads` | one kind of read per behaviour over changing endpoints | composes the three |
| `MCRouting`, `MCBuildTx`, `MCChainReads` | instances for TLC | |
| `ColdPathProofs`, `DynamicWorkersProofs`, `DiscoveryProofs`, `ChainReadsProofs`, `ServiceProofs`, `RoutingProofs`, `BuildTxProofs` | theorems | |
| `Loops` | loops over a list, as recursive functions of the number of turns: `Fold`, `Total`, `Filter` | used by `Router`, `TickSwap`, `BuildTx` |
| `NumberSets` | lemmas on sets of numbers, on lists, and on what loops compute | used by the proofs |

**Write path.** `wpc` is the place in `DatabaseWriter::run` and
`persist_with_retry`: `top` (flag test), `consume`, `persist`, `backoff`, `push`,
`sleep`. `cur` and `attempts` are the locals. A Redis command is done, refused, or
done with its reply lost; a database write is done, refused, or done although it
reports an error (counted in `doubts`). A message is its id, kind and pool: ids
are given in the order of publication, so that "older" is `<`. `rows` keeps the
id a pool's row was last written from, `applied` how often a message was written.
`rpc`, `rcur`, `rleft` are the replay program. `Crash` empties the writer's hand
and leaves Redis and the databases alone; `Restart` opens a new connection.
`consume` returning an undecodable message is the same event as a lost reply:
popped, and reported as an error.

**Dynamic manager.** A pool's state is its version on chain. `wsPc`, `pollPc`,
`mgr` and `wpc[w]` are the places in the four kinds of task; `channel` is the mpsc
channel, and a send is enabled when there is room. A frame names any of `Pools`;
polling names the rows of PostgreSQL, which hold at least `Registered`. `recv`
returns `None` when the channel is empty and all three senders are gone
(`SendersDropped`). A publish fails once, or with the connection (`queueUp`), which
nothing reopens: then every later one fails (`PublishDown`). `reach[p][v]` records
how far version `v` of pool `p` has got; it is there for `HotPathOrder`.

**Discovery.** A pool object is `<<dex, pos>>`, and a cursor is the position of a
page's last object. `spc` is the place in `discover_and_register` and the scan it
calls. `found` and `missed` are the page commit in hand; `hot` is what detached
`after_commit` tasks have still to write, `refreshed` what discovery has written to
Redis. `base`, which the code does not have, is the set of objects on chain when
the pass began. `older` orders failure rows by `updated_at`, which decides whom the
retry's LIMIT (`RetryLimit`) leaves out. The other writer of Redis, the dynamic
worker, sets the key of any pool a frame names without a look at PostgreSQL; here
it appears by the row that the database writer makes of it (`WriterRow`).

**Service.** `dpc`, `step` and `attempt` are the place in `run_daemon`, `tasks` the
handles. `quote` is the request in flight: each Redis or PostgreSQL call is a step
of its own, so that the refresh of the lists (`topo`), the tasks of the dynamic
workers (`refresh[w]`), the detached copies of what discovery committed (`copies`),
the writer and the expiry of keys come in between. Nobody joins the copies: they
outlive the cycle, the request and the joins. `told`, `quote.floor` and a task's
`kept`, which the code does not have, remember what was broadcast and is still in
its key: whoever puts an older version there voids them (`KeyBecomes`). `ring` is
what the client's receiver has not taken; `due` is what it is owed. What comes from
outside or recurs is bounded by a `scenario`, a set of kinds of events: `Scenarios`
is a constant, the runs have six sets that each combine the events that act on each
other, the proofs hold for any, the one with all events included.

**Routing.** A pool is its reserves, fee and tokens; amounts are small integers
and a swap is constant-product with the fee rounded as a ratio. The bisection on
marginal prices is a choice of weights: the split's properties hold for every
allocation, not only the best. The code scales the allocations as f64 and truncates
each. `Errors` is how far that may move a part: down by up to `MaxError`, and above
`Exact` up as well, so that the parts may add up to more than the amount, which
`GiveRemainder` leaves as it is. `Exact` stands for the amounts whose parts f64 keeps
apart from the next integer, a little below 2^53. Gas is a cost per hop. In
`TickSwap` prices are points of a grid with two points per tick, and a cell takes as
much input as its liquidity; that keeps order, crossing and exhaustion and drops the
square roots. A pool without a tick ahead goes to a price bound. The bounds of a
Turbos pool are the X64 constants divided by 2^96 (`TurbosMin`, `TurbosMax`): the
upper one lies just below price 1, inside the range of prices.

**Transactions.** A command is what it takes, what it gives, the objects it names
and the minimum it carries; arguments are results by command index, computed as
the code computes them. Simulated outputs are any of `Estimates`, since a later
hop is built from whatever the simulation said. The root in
`compound_retain_bps` is any of the values its floor may give. The coins are checked
against the amount of the request (`AmountIn`), while the commands take what the
router's splits say (`Spent`); `Splits` is what `Router` shows of the two.

**Chain reads.** `at` is the endpoint being asked, `world[e]` what endpoint `e`
holds, `up` the endpoints that answer soundly; any other may fail, garble its answer
or leave out the fields that tell whether a page is the last. `steady` is what all of
them held throughout a read, `unread` what a page or an entry that came without its
data or its cursor hid. A tick's index and `liquidity_net` are bits, per DEX and
field, and the decoders say what they mean: the contracts are not in the repository,
and `src/sui_int.rs:3` names Cetus and Magma for the form of `liquidity_net` that all
four collectors decode. What is checked of the encodings is that index, lookup and
window agree. `SignBit` is the weight of the top bit. In `EventScan` an event has a
checkpoint, `gone` is the retention horizon below which cursors are refused,
`broken` collects the checkpoints in the middle of which a scan ended, and `missed`
the events of a page that came without its nodes.

## 3. Runs

| Run | Bounds | Shows |
|---|---|---|
| `ColdPath` | 2 messages of 3 kinds, 3 tries, 2 faults, 1 doubt per message, replay limit 2, fair | `TypeOK`, `SingleCustody`, `AtMostOncePlusDoubt`, `LossBound`, `KeepsPromise`, `RowsRegressOnlyByReplay`, `QueueDrains`, `ShutdownStopsWriter`, `ReplayEnds` |
| `DynamicWorkers` | 1 registered pool, 2 workers (channel of 4), 2 versions, 1 fault, 1 retry, fair | `TypeOK`, `NoTaskAbandoned`, `HotPathOrder`, `Converges` |
| `DynamicShutdown` | 1 pool that is not registered, 2 workers (channel of 4), 1 version, 2 faults, 1 retry, fair | `ShutdownCompletes` |
| `Discovery` | 2 DEXes of 2 objects, position 1 unparsable and named by frames, pages of 1, 2 pages per scan, 1 retry per cycle, 1 fault, fair | `TypeOK`, `NothingSkipped`, `RefreshFollowsCommit`, `EveryPoolServed` |
| `Routing` | 4 catalogs of up to 6 pools and 5 tokens, amounts 0 to 7, exact up to 5, weights 0 to 2, errors of 1; ticks -2 to 2, the bounds of Turbos at -6 and -1 of the grid, nets -2 to 2 | `DijkstraOptimal`, `DfsComplete`, `BellmanFordAgrees`, `SplitSpendsInput`, `SplitPaysForGas`, `TickWalkIsV3`, `StuckOnlyWhenStale`, `RoutingEnds` |
| `BuildTx` | routes of 1 and 2 hops over all DEXes and directions, 1 or 2 splits, 9 requests of 4 amounts (2 of them exact), 14 wallets | `ResultsConsumedOnce`, `InputCovered`, `MinimumEnforced` |
| `Service` | 1 pool of 2 versions, paused in the second, 2 dynamic workers with 2 tasks, 1 detached copy at a time, 1 fault, 2 connection attempts, 1 turn of the wait, ring of 1, 6 scenarios, fair | `ToldThenServed`, `NoUpdateLost`, `ShutdownEnds`, `StaleListsHeal` |
| `ChainReads` | 2 endpoints, 5 items in pages of 2, 1 change; 3 events in pages of 1, 2 pages per scan, 1 fault, fair | `OneEndpointIsEnough`, `CoinsComplete`, `TicksExact`, `NothingPassedOver`, `EventsRead` |

Why these bounds are enough to be interesting. Custody needs two messages to be
confused and a fault while another is being handled. Rows go back in time after
a parking, a newer write and a replay. One pool makes the workers contend, and a
channel of four is filled by two polls and a listener; one fault loses a write or
the queue's connection while the workers overwrite each other, two exhaust a task's
retries during a shutdown; `NoTaskAbandoned` and `HotPathOrder` are proved for any
number of them. Two pages per scan let a cursor expire both on the last iteration
and before it; a retry limit of one starves the second of two failures of a DEX. The catalogs have parallel
pools, a shared first pool, a cycle, a paused shortcut, a pool without liquidity,
a pool of one coin, a target out of reach and a chain longer than the hop limit;
three routes are enough for two rounds of pruning. The tick lists are all those
over five ticks with three nets, so that liquidity may vanish and return, and the
tick data may disagree with the price, a Turbos bound lies in the middle of the
range and ticks lie on both sides of it. Amounts on both sides of `Exact` meet every
error of every part. Two-hop routes cover each kind of hop as
first and as last; two splits with two coins cover the index after a merge. One
pool and two versions are what the cache properties compare; a second pool only
multiplies. Two tasks let one worker fetch first and write last, and a request meets
a signal in one of the scenarios, a refresh in another. Two endpoints give a first, a last and a page that changes hands;
five ticks fill more pages than may be read.

Runs that end in a violation, each a finding in `PROJECT.json`:

| Run | Statement of the repository | What the code does |
|---|---|---|
| `ColdPathDlq` | "Terminal write failures go to a Redis DLQ after retries" (`docs/ARCHITECTURE.md:178`) | a failed `push_dlq` is logged and the message dropped |
| `DiscoveryReady` | "Readiness when topology bootstrap finished and the pool catalog is non-empty." (`docs/API.md:21`) | ready as soon as any pool is in PostgreSQL, or after one page |
| `DiscoveryRetry` | "Removes resolved discovery failures after a successful retry." (`src/storage/mod.rs:55`) | the delete is keyed by the DEX "unknown" of a default progress and deletes nothing |
| `RoutingServed` | "400: Invalid amount, slippage, or JSON body" (`docs/API.md:147`) | a valid request is refused with 400 when the cheapest route has more than three hops, although a shorter one exists |

What the runs say about boundaries of the code, beside the findings: with two
workers, and with the detached copies of discovery, an older state may replace a
newer one in Redis after clients were told of the newer one, until a later poll
(`ToldThenServed` excepts it, `Converges` bounds it); objects that the listing's
parser rejects are never served once their DEX has more failure rows than a cycle
retries, since the rows stay (`EveryPoolServed` excepts them); above about 2^53 a
split may take more than the amount of the request, against which the coins are
checked (`SplitSpendsInput`, `InputCovered`); a Turbos pool above price 1 takes
nothing beyond its last tick on a swap up, and nothing at all with no tick ahead
(`End`, `Blocked`); `get_coins` and the tick listings return a truncated list as
complete when a page lacks its cursor (`unread`); a swap down
from a price inside an initialised tick does not cross that tick (excepted in
`TickWalkIsV3`); only Turbos takes a minimum, so `MinimumEnforced` is about paths
that end there; a coin listed twice, or of another token, passes the checks of
`/build-tx` (`InputCovered` excludes it); an invalid event cursor is cleared only
if the last endpoint says so and a page of the scan is left (`EventsRead`).

### Fairness

- `WriterStep`, `ReplayRun`, `WsRun`, `PollRun`, `WorkerRun(w)`, `MgrRun` and
  `CycleStep` are at least weakly fair: tokio and the operating system run a task that is
  ready, and every call awaited returns with `Ok` or `Err` (clients have
  timeouts, sleeps are finite).
- In `Service` the daemon, the handlers, the discovery cycle, each dynamic worker and
  the stop of a task that is between two pieces of work are weakly fair for
  the same reason; the stop of the writer and of the dynamic manager is what
  `ShutdownStopsWriter` and `ShutdownCompletes` show in detail. The expiry of each
  list is weakly fair because Redis drops a key after its `EX`.
- In `ChainReads` the scan is weakly fair: the static worker repeats its cycle.
  In `Routing` the whole step is: the code is sequential.
- `WsLeave /\ shutdown` is strongly fair: `select!` polls its branches in random
  order, so a listener told to stop leaves even if frames never cease.
- `PollRun` is strongly fair: the mpsc channel serves waiting senders in turn, so
  that frames cannot keep the poll out of a channel that is full again and again.
- Restarting a crashed daemon is weakly fair: `docker-compose.yml` says
  `restart: unless-stopped`.
- Nothing is assumed of publishers, operators, requests, clients, the chain and
  frames. Faults come at any time but are finitely many (`MaxFaults`), so liveness
  is about a daemon whose calls succeed again in the end; only the writer's
  database errors are unbounded. `HotPath` is not fair: `EveryPoolServed` does not
  need the detached tasks, because the snapshot is taken from PostgreSQL. Nor are the
  copies of `Service`: no property needs them to end.

`QueueDrains` and `Converges` are conditional: on the daemon staying up, and, where
they speak of the queue, on its connection as well, since nothing reopens it.

## 4. Proofs

Each theorem holds for every value of the constants allowed by the named
assumptions in the modules that declare them.

- `FaultAssumption`, `WriterAssumption`, `ReplayAssumption`, `TrafficAssumption`,
  `DynamicAssumption`, `DiscoveryAssumption`, `ClientAssumption`,
  `EventAssumption`, `SocketAssumption`, `WalkAssumption`, `TickAssumption`:
  bounds are naturals, those the code divides or iterates by are positive, null
  values are not messages, pools or ticks, the sets of workers and of items on
  chain are finite, amounts and indices are numbers.
- `ScenarioAssumption`: scenarios are sets of the events that `Service` names.
- `RouterAssumption`: a catalog is a list of pools with distinct ids, reserves are
  naturals and a fee is at most the whole; the penalty per hop is positive.
- `RequestAssumption`: amounts are naturals, coin ids come as a list, balances are
  naturals, and a slippage that parses is below the whole.
- `PoolAssumption`, what the contracts see to: one tick object per index as it is
  decoded, an index of Turbos is a multiple of the spacing, and the window around the
  current tick is inside i32 (real indices stay within 2^20).
- `PlanAssumption`, what the router hands to the builder: at least one split, and
  each route a path of known amounts whose hops enter a pool with one of its coins and leave with
  the coin of the next hop.

| Theorem | Statement | Invariant |
|---|---|---|
| `ColdPathProofs!TypeCorrect` | `Spec => []TypeOK` | `TypeInv` |
| `ColdPathProofs!CustodyIsSingle` | `Spec => []SingleCustody` | `Custody` |
| `ColdPathProofs!WritesAreBounded` | `Spec => []AtMostOncePlusDoubt` | `Custody /\ Writes` |
| `ColdPathProofs!LossesAreBounded` | `Spec => []LossBound` | `Custody /\ LossCharged` |
| `ColdPathProofs!ImplementsLedger` | `Spec => KeepsPromise` | `Custody /\ LossBound` |
| `ColdPathProofs!OnlyReplayRegresses` | `Spec => RowsRegressOnlyByReplay` | `Custody /\ Order` |
| `DynamicWorkersProofs!TypeCorrect` | `Spec => []TypeOK` | `TypeInv` |
| `DynamicWorkersProofs!NoTaskIsAbandoned` | `Spec => []NoTaskAbandoned` | `TypeInv /\ Drained` |
| `DynamicWorkersProofs!HotPathIsOrdered` | `Spec => HotPathOrder` | `TypeInv /\ Carried` |
| `DiscoveryProofs!TypeCorrect` | `Spec => []TypeOK` | `TypeOK` |
| `DiscoveryProofs!NothingIsSkipped` | `Spec => []NothingSkipped` | `TypeOK /\ PassInv` |
| `DiscoveryProofs!RefreshIsCommitted` | `Spec => []RefreshFollowsCommit` | `CacheInv` |
| `ServiceProofs!BroadcastIsServed` | `Spec => []ToldThenServed` | `ServedInv` |
| `ServiceProofs!UpdatesAreSent` | `Spec => []NoUpdateLost` | `ServedInv /\ LossInv` |
| `ChainReadsProofs!FailoverIsComplete` | `Spec => []OneEndpointIsEnough` | `ClientInv` |
| `ChainReadsProofs!ScanHasNoHole` | `Spec => []NothingPassedOver` | `EventInv` |
| `ChainReadsProofs!CoinsAreComplete` | `Spec => []CoinsComplete` | `CoinsInv` |
| `ChainReadsProofs!TickListIsExact` | `Spec => []TicksExact` | `TicksInv` |
| `RoutingProofs!EverySplitPays` | `Spec => []SplitPaysForGas` | `PaysInv` |
| `RoutingProofs!EarlyStopMeansStale` | `Spec => []StuckOnlyWhenStale` | `WalkInv` |
| `RoutingProofs!DfsFindsAll` | `Spec => []DfsComplete` | `DfsInv` |
| `RoutingProofs!DijkstraFindsCheapest` | `Spec => []DijkstraOptimal` | `DijInv` |
| `RoutingProofs!BellmanFordFindsCheapest` | `Spec => []BellmanFordAgrees` | `BellInv` |
| `RoutingProofs!EverySplitSpends` | `Spec => []SplitSpendsInput` | `DfsInv /\ DijInv /\ SplitInv` |
| `RoutingProofs!WalkFollowsV3` | `Spec => []TickWalkIsV3` | `V3Inv` |
| `BuildTxProofs!EveryResultIsConsumed` | `Spec => []ResultsConsumedOnce` | `BuildInv` |
| `BuildTxProofs!InputIsCovered` | `Spec => []InputCovered` | `FundsInv` |
| `BuildTxProofs!MinimumIsEnforced` | `Spec => []MinimumEnforced` | `BuildInv /\ MinInv` |

*Write path*

- `TypeOK` is not inductive: that `attempts` stays in range needs a try to be left
  while the loop runs, and that a message exists where one is used needs the
  program counters to tell who holds one (`Hands`).
- `SingleCustody` is kept by every pop and push because a hand is emptied or
  filled in the same step; that a new message differs from all others needs
  `KnownIds`: no id beyond `published` is anywhere.
- `AtMostOncePlusDoubt` needs `HeldUnwritten`: a message that is still somewhere
  has only unacknowledged writes. No step brings back one that is nowhere.
- `LossBound` counts losses against faults, but the step that drops a message is
  often not the fault: with the connection gone, the writer still tries the
  databases and fails at `push_dlq` later. So `AtRisk` holds the lost messages and
  the one in the writer's hand while the link is down, and `LossCharged` bounds it
  by `faults`. `Moved` says that a step changes one message at most, and puts it
  at risk only by a fault.
- `KeepsPromise` is the refinement. The cases of `Status` exclude each other under
  `Custody` (`StatusTable`), every action moves one message along one of the
  ledger's moves (`Moved`), and a step that loses one leaves `LossBound` true.
- `RowsRegressOnlyByReplay` needs `Order`: a message that waits for its first
  delivery is younger than everything that left the queue before it, than what was
  replayed and than every row (`Younger`), and the one in the writer's hand is no
  older than any row (`Newest`). Only replayed messages come back out of order.

*Dynamic manager*

- `NoTaskAbandoned` needs that the senders are gone for good once a worker has
  returned (`Drained`).
- `HotPathOrder` needs `Carried`: a worker about to publish holds a version that
  has reached Redis, one about to broadcast a version that has reached the queue.
  Stages never go back, so what other workers do to the same version is harmless.

*Discovery*

- `NothingSkipped` needs an account of what is in memory: the scan's copy of
  the progress (`ScanOK`), and the page, whose objects are left, found or missed
  (`PageOK`). The argument that a page leaves out only objects behind its end is
  `PageIsPrefix`.
- `RefreshFollowsCommit` needs that what detached tasks and retries are about to
  write is already in PostgreSQL (`CacheInv`).

*Service*

- `ToldThenServed` needs that the live key holds at least what was broadcast and what
  a request was promised (`KeyHolds`). For a broadcast to keep this, what a worker
  wrote must still be in the key, or something newer, unless the task was overtaken
  (`WrittenStays`): every writer of the key, the other workers, the copies and the
  expiry, tells the tasks that it overtakes (`ServedKey`).
- `NoUpdateLost` is kept by every step once the types of the ring are known
  (`LossInv`): a broadcast becomes the last of its pool in the ring and is what is
  owed, a message taken from the front is owed only if no later one of its pool is in
  the ring, and an overtaken client finds the newest of what is left.

*Chain reads*

- `OneEndpointIsEnough` needs `PassedOver`: the endpoints before the one that is
  tried are not up. It is said of coins and ticks only, since a scan also moves on
  from an endpoint that is up and refuses its cursor.
- `NothingPassedOver` needs `NoHole`: each event is handled, excused, or ahead of
  the progress; the rest of the checkpoint in which the last page ended is ahead
  of the running scan only, which is why a scan that ends there breaks it. A torn page
  moves the progress no further than its cursor (`SavedFacts`).
- `CoinsComplete` needs `CoinsRead`: no coin twice, none beyond the cursor, and
  every steady one up to the cursor, whichever endpoint gave the page; a page that is
  taken for the last puts the rest of the listing into `unread`.
- `TicksExact` needs `FetchInv`: a steady tick that is wanted is listed, given up,
  still on the page, or behind the cursor. It rests on lemmas about the operators:
  the bits of an object are the encoding of a Turbos index exactly if they decode to
  it (`RawRoundTrip`), the window and the Turbos words are found by floor division, and `Ascending` lists a finite set
  of numbers in order (`NumberSets`).

*Routing*

- `SplitPaysForGas` needs the same of the best split so far (`PaysInv`): pruning
  stops only when no unprofitable route is left, or one route is.
- `StuckOnlyWhenStale` needs `WalkInv`: before the first turn the walk stands where
  its job says, and after it something is spent, so a walk that ends with nothing
  spent ends at its first turn. The case analysis is on the nearest tick and, where
  there is none, on the bound (`TargetAhead`).
- `DfsComplete`: a route is recorded exactly once it is behind the search. `Shape`
  ties the frames to the tokens of the current path, `Pend` says of a path that
  the edges still to be tried lead to it, and `Recorded` that the list has the
  wanted paths that are not pending, each once. An edge that is skipped leads to
  no wanted path; taking one, or returning, leaves what is pending as it was but
  for the path that is recorded.
- `DijkstraOptimal`: `Tree` says that the parents account for the distances, `Heap`
  that a token in the heap costs no less than its distance, and every token is in
  the heap at its distance or its edges cannot improve anything. So the least
  entry is a lower bound on every path not yet settled. Stale entries and ties
  are harmless. Distances fall along the parents because the penalty per hop is
  positive, so retracing them ends, at the source.
- `BellmanFordAgrees`: without the penalty a hop may be free, and falling distances
  no longer exclude a cycle of parents; `Grounded` gives each token a rank that a
  parent is below, and a shortcut re-ranks what hangs on it. `Reach(d, k)` says
  that after `k` rounds the distances account for all paths of at most `k` hops,
  `Stable` that nothing improves any more; either way the last rounds leave no
  negative cycle to report. The order of the tokens is any, as in the code's hash
  set.
- `SplitSpendsInput` needs that the routes found are paths over pools in service,
  from the two searches, and `SplitInv`: those kept are short and not none, and
  the best split so far spends the input. What the parts lack goes to one of the
  largest, so they add up to the amount at least, for any weights and errors, and none
  is empty. Where no error goes up they do not exceed it: rounding down loses.
- `TickWalkIsV3`: `Stands` says that after `m` cells of the grid the walk has the
  price, the liquidity and the nearest tick that the rule has there, and `Tracks`
  that it has taken what those cells take. A turn passes as many cells as there
  are to the next tick, all of one liquidity (`Leap`), and at least one tick is
  left behind, so that the bound on turns, which exceeds the number of ticks, is
  never met. The cells end where the ticks ahead and the price bound end (`End`).

*Transactions*

- `ResultsConsumedOnce` says that arguments computed by counting commands hit the
  right results. `BuildInv` follows what is in hand while commands are listed: the
  coin of the running path, the pieces for the paths to come, the outputs of the
  complete ones. These are exactly the unused results, they are distinct and have
  the types their takers expect (`InHand`). Each hop builder takes the held coin
  and leaves its output in its place (`Grows`), and the final transfer takes the rest.

- `InputCovered` needs `FundsInv`: what each check of `finalize_canonical_build`
  found still holds when the transaction is built, and the plan still spends the
  amount of the request. The code adds up the balances
  in the order of the list, the property those of the set of coins: that the two
  agree when no coin is listed twice is a lemma on sums in another order.
- `MinimumEnforced` needs, beside `BuildInv`, that the output of every complete
  path is that of a command which carries the path's minimum (`MinInv`); commands
  that are listed do not change. That the minima of the parts fall short of the
  minimum of the whole by less than one unit each is a lemma on sums of quotients.

*What loops compute.* The library's induction theorems take the property as an
operator, which the provers cannot instantiate. `Induct` in `NumberSets` takes it
as a set of numbers: a set that has 0, and with each turn of a loop the next, has
all of them. Folds, sums and filters of the models are written in `Loops` as
recursive functions of the number of turns, which is what makes their values
reachable by `Induct`.

Only model-checked: the liveness properties (`QueueDrains`, `ShutdownStopsWriter`,
`ReplayEnds`, `ShutdownCompletes`, `Converges`, `EveryPoolServed`, `ShutdownEnds`,
`StaleListsHeal`, `EventsRead`, `RoutingEnds`), since fairness and ENABLED are beyond
the prover. Every other property of a passing run is stated by a theorem.

## 5. Not modelled

- Floating point, except for the rounding of allocations: the bisection's convergence
  and the square-root price limit of a hop (`dynamic_sqrt_price_limit_raw`). Amounts
  are small integers and allocations any.
- Gas price and tick data in the discovery cycle and in Redis: no property here
  depends on when they are refreshed except the disagreement of ticks and price,
  which `TickSwap` has as an input.
- The storage of `liquidity_net` (i128) as i64 in PostgreSQL.
- Time: backoff, `Retry-After`, poll intervals and TTLs are steps that happen
  sooner or later.
- The event scan's commit is a step of `EventScan`; its effect on the catalog is
  that of `Discovery`'s, and the two scans never run at once.
- What the external transaction builder does with nested results, and BCS.
- JSON decoding, SQL text, metrics, logging and the developer programs. `fetch_pool`
  is an atomic read.
- Removal of pool objects from the chain.
- The order of a pool's row between the writer's messages and the page commits of
  discovery, which upsert the same rows: `RowsRegressOnlyByReplay` is about messages.
- Which encoding the contract of each DEX uses: the decoders are taken at their word.
- That the coins listed by `get_coins` ever were the owner's at one time: a coin spent
  after its page and the change it left on a later page are both listed.
- Keys of pools that are not in PostgreSQL: `DynamicWorkers` sets them, `Discovery` and
  `Quotes` meet such a pool once the writer has stored it.

## 6. Plan

1. Done: the write path and its ledger, the dynamic manager, object bootstrap, the
   running service, routing, transaction building, reads over failing endpoints.
2. Done: proofs of every safety property of the runs, the refinement of the ledger
   among them.
3. Left with TLC: liveness.
4. Left to model: `Discovery` and `EventScan` over one catalog; tick and gas keys in
   `Quotes`.
