# chain-data-service: a verification project

This directory holds TLA+ specifications of the Solana indexing service in this
repository (Rust, tokio, SQLite through sqlx, moka), TLC configurations that
check them on small instances, and theorems that TLAPS proves for every value
of the constants. Paths such as `batch_manager.rs:144` are relative to
`src/` of the crate unless a directory is named.

The service does three things at once:

```
 RPC node          polling.rs                    batch_manager.rs
 get_slot      +-> live poller ----+  outer   +-> buffer -> batch ---+
 signatures  --+                   +- mutex --+                      | bounded
 transactions  +-> history poller -+          +-> start(): timer ----+ channel
                                                                     v
 HTTP clients                                worker_pool.rs / processor.rs
 POST /track ------> tracked_addresses <---- register counterparties |
 GET /transactions -> cache mutex -> COUNT, SELECT <- transactions <-+
```

## 1. Inventory

### Components, state, operations

| Component | State | Operations |
|---|---|---|
| **Batch manager** `blockchain/batch_manager.rs` | `TransactionBuffer` behind a tokio mutex: `pending` (address -> transactions), `total_size`, `last_flush`; the sender of the worker channel; the cancellation token | `add_transaction`, `force_flush`, `perform_flush_check`, `collect_transactions_for_flush`, `send_transactions_to_worker`, `start` |
| **Polling tasks** `blockchain/polling.rs` | `current_slot` of the live task; pagination cursor and seen set of the historical walk; one `Arc<Mutex<BatchManager>>` shared by the two pollers and the background task | `start_polling`, the two select loops, `poll_new_transactions`, `poll_historical_transactions`, `process_historical_address`, `process_transaction_signatures` |
| **Worker pool, processor** `blockchain/worker_pool.rs`, `processor.rs` | `Arc<Mutex<Receiver>>`; per worker the batch, the snapshot of tracked addresses, the fetched transactions | `Worker::run`, `process_batch`, `process_transaction_batch`, `is_transaction_relevant` |
| **Tables** `db/*.rs` | `tracked_addresses`, `transactions` with foreign keys on both addresses | `add_address`, `remove_address`, `is_address_tracked`, `get_all_tracked_addresses`, `add_transactions`, `get_transactions` (COUNT, then SELECT) |
| **HTTP API** `api/route.rs`, `validation.rs` | none of its own | `track_address`, `get_transactions`, the parameter checks |
| **Query cache** `cache/transaction.rs`, `keys.rs` | moka cache behind one tokio mutex (`AppState.cache`) | `get`, `insert`, expiry, eviction; `invalidate_for_address` (never called by the service) |
| **RPC client** `blockchain/client.rs` | a token-bucket rate limiter per client object | `rate_limited`, `retry_policy`, the five requests |
| **Extraction** `blockchain/models.rs` | none: a pure function | `extract_transaction`, `extract_transfer_details` with its balance heuristic |
| **Life cycle** `main.rs` | the shutdown token, the join handles | start-up, signal handling, shutdown with timeouts |
| Migration, configuration, records, empty service layer, test programs | - | start-up only, or not part of the service |

### How they interact

* The pollers and the background task of `start_polling` share the
  `BatchManager` behind an **outer mutex**; the manager itself has an **inner
  mutex** around its buffer and sends outside that one.
* Batches go through a **bounded mpsc channel** to a pool of workers that share
  the receiver behind a mutex and **await `recv()` while holding it**.
* Workers and the `/track` handler write `tracked_addresses`; workers write
  `transactions`; both are read by the pollers, the workers (a snapshot) and
  the `/transactions` handler. SQLite statements are atomic; only
  `add_transactions` groups several in one database transaction.
* The `/transactions` handler holds the cache's mutex over both queries.
* One `CancellationToken` stops the pollers, the manager and the server.

### What is hard here, and what makes each component correct

* *Batch manager.* Concurrent callers and a timer may all find the buffer due.
  A batch leaves the buffer under the lock and is sent after it. Correct means:
  nothing is lost or duplicated between buffer, hand and channel; `total_size`
  is exact, because it alone decides whether there is anything to flush;
  batches stay within the size; what is buffered is handed over in the end; and
  shutdown completes against a full channel.
* *Polling tasks.* Two locks, a bounded channel that is sent to under the outer
  one, and a token that may fire at any moment. Correct means: no deadlock,
  nothing fetched is dropped, shutdown completes. What they find: the slot
  cursor, slot ranges and pages must leave no gap and no overlap while the
  chain grows.
* *Workers.* Decisions are made against a snapshot that others change; steps of
  a batch fail one by one; the process may die between them. Correct means: the
  tables stay consistent, a batch is not stranded by an exiting worker,
  workers do not starve, a queued transaction gets stored once failures end.
* *Queries.* Two statements with commits between them, entries that expire or
  are evicted or go stale, clients that hang up while they hold the mutex.
  Correct means: an answer is about the question asked and recent; a repeated
  question never sees its total fall; untracked addresses are not served; the
  mutex is always released.
* *RPC client.* Waiters at the rate limit run without a cell, every error is
  retried, each worker batch builds a limiter of its own. Correct means: the
  requests of a client in any window of time are bounded, however many wait, those
  of the process by the configured rate, and every call returns.
* *Extraction.* A single pass with running extremes, a count truncated to eight
  bits. Correct means: what is stored is what a look at all balances would give,
  and no index is out of range.
* *Life cycle.* Four waits one after the other, tasks that spawn tasks nobody
  waits for, a channel that closes when the last of three tasks lets go of it.
  Correct means: a signal ends the process whatever hangs, a shutdown in which no
  wait runs out leaves no task behind that is waited for, and no task outlives the
  workers it sends to.

`PROJECT.json` lists every component with its status and every hazard at its
line with the properties that cover it.

## 2. Modules

| Module | Role | Extends |
|---|---|---|
| `HandOver` | what the batching layer promises, without buffers, batches or tasks | - |
| `Ledger` | what the two tables promise to their readers, without workers, statements or crashes | - |
| `QueryService` | what `/transactions` promises its clients, without cache, mutex or statements | - |
| `Coverage` | what the two pollers promise about the chain, without polls, ranges, pages or walks | - |
| `BatchManager` | `batch_manager.rs`; implements `HandOver` | - |
| `Pipeline` | composes `BatchManager` with the tasks and the outer mutex of `start_polling`; implements `BatchManager` and with it `HandOver` | `BatchManager` |
| `Discovery` | what the two pollers find on the chain: slot cursor, ranges, pages; implements `Coverage` | - |
| `Ingest` | worker pool, processor, tables, `/track`, crash and restart; implements `Ledger` | - |
| `QueryCache` | `/transactions`: validation, lookup, cache mutex, COUNT, SELECT, TTL, eviction; implements `QueryService`, relies on `Ledger` | SequencesExt |
| `RpcClient` | `client.rs`: rate limiter, sleeps, retries, delays; the clients of pollers and workers | - |
| `Extract` | `models.rs`: what is stored of a transaction, with the balance heuristic | - |
| `Shutdown` | `main.rs` and the tasks of `start_polling`, from start to the return of `main` | - |
| `MCBatchManager`, `MCPipeline`, `MCDiscovery`, `MCIngest`, `MCQueryCache`, `MCRpcClient`, `MCExtract`, `MCShutdown` | small instances for TLC | the module |
| `BatchManagerProofs`, `IngestProofs`, `QueryCacheProofs`, `RpcClientProofs`, `ExtractProofs`, `ShutdownProofs`, `DiscoveryProofs` | the proofs about these modules | the module, TLAPS |
| `PipelineProofs` | the proofs about `Pipeline`, from those about `BatchManager` | `Pipeline`, `BatchManagerProofs` |

A definition that carries a mutant of the code (`CollectCopies`, `StopAnywhere`,
`ReceiveNoneEarly`, ...) stands next to the definition it would replace. It is
not part of any specification: it documents the bug that a property exists to
catch, and substituting it makes the run fail on that property.

### BatchManager

`pending`, `totalSize` are the fields of `TransactionBuffer`. `due` stands for
`last_flush.elapsed() >= flush_interval`: `Elapse` raises it at any moment, a
collection resets it. Since no critical section of the inner mutex awaits,
lock - change - unlock is one action: `AddTransaction` (push, count, collect if
full or due), `ForceFlush`, and `FlushCheck` as run on start-up (`Startup`), on
a timer tick (`Tick`) and on cancellation (`Final`). The send that follows is a
second action, `Send`, that waits for room, or `SendFails` once the receiver is
gone; `hand` is the batch between the two. The order inside a batch comes from
`HashMap::drain` and is arbitrary, so a batch is a set. A delivery is one call
of `add_transaction`, so that the same transaction found twice is two of them.
`Recv` and `CloseReceiver` are the workers' end.

### Pipeline

Adds to `BatchManager` the outer mutex (`holder`, the FIFO queue `waiting`), the
place of each task (`at`) and the fetched chunk of each poller (`todo`). A
poller ticks, fetches chunks, and for each transaction takes the lock, calls
`AddTransaction` and keeps the lock until the send has returned (`Release`
needs `pc = "idle"`). The background task takes the lock once and
keeps it for all of `start()`: its actions are `Locked(Startup)`,
`Locked(Tick)`, `Locked(Final)`, then `ManagerReturns`. A poller looks at the
token only in its select (`Stop`), never inside a poll. `StopsEmptyHanded` says
what a shutdown may leave behind: a poller stops with nothing in hand, and once
all three tasks have ended, what was ever accepted was taken by a worker, is in
the channel, or is among less than one batch in the buffer. The last part is the
transactions that finding 1 is about, so this is also the bound on that loss.

### Discovery

`Slot` is the chain: the slots of the signatures in the order they land;
`landed` and `head` are how much of it is there. The live task: `LivePoll`
takes the latest slot and the tracked addresses, `LiveFetch` asks for the
newest signatures of one address and keeps those in the current range,
`LiveProcess` hands them over and goes to the next range or advances the
cursor. The historical task: `HistPoll`, `HistBegin`, `HistFetch`,
`HistFetchLast` (empty page, too old, or nothing new), `HistFetchUntimed`,
`HistProcess` (with the stop on a short page). Every failure path skips and goes on, as in the code;
the history variable `excused` records what such a skip took, so that the
properties can tell a skip the code decides on from a gap nobody decided on.
`Track` and `Untrack` are the table under the two tasks, which read it once per
poll or round: an address may be gone while a poll that began with it goes on.
The latest slot and the addresses of a poll are two awaits in the code and one
step here: the chain and the table do not depend on each other, so a step between
the two could come before or after both.
A slot is also the unit of time for the age limit. A page may end in a signature
without block time (`HistFetchUntimed`): the code takes it as time 0 and ends
the walk. `handed` means passed to `add_transaction`.

### Ingest

`TrackAdd` and `TrackRemove` are `/track`. A worker goes through `LockReceiver`,
`Receive` or `ReceiveNone`, `Snapshot`, `Fetch` (requests that fail are
skipped; relevance against the snapshot), `Register` once per address, and
`Insert`, each of them one database statement or one stretch without
shared state, so that everything else interleaves between them. Foreign keys
are part of `Insert` (one offending row rolls back all) and of `TrackRemove`
(refused once a stored transaction names the address). `Restart` loses
everything except the tables. `requested` and `refused` are history: what clients
asked to track, and which removals failed.

### QueryCache

A request goes through `Ask` (only valid parameters: an invalid one is answered
400 before anything is read), `Check` (is the address tracked), `Lock`,
`Hit` or `Miss`, `Count`, `Select`, `Insert`. `StatementFails`, `CheckFails` and
`Hangup` (the server drops the handler's future, and the guard with it) are the
other ways out. `Pages` is the SELECT: filter, order by block time with ties in
any order, OFFSET and LIMIT. An entry lives for `DefaultTtl`, as the moka
builder was told; the TTL computed in `insert` is kept in the entry only to
state what the documentation promises. `Commit`, `Track`, `Untrack`, `Evict`
and `Tick` are the world around.

### RpcClient

`cells` and `next` are a limiter: at most `Burst` cells, one more per `Interval`
(`Refill`, part of `Tick`). A caller is one future that calls the client. It is
in `wait` until it may ask the limiter; `Check` takes a cell and runs,
`CheckFails` sleeps until the next cell is due, and `Wake` runs **without
taking it**: that is what `rate_limited` does. `Succeeds` and `Fails` end a
request; `Fails` is the retry policy, for every error alike: a delay that doubles
up to `MaxDelay`, with jitter, `MaxRetries` times at most. The blocking RPC calls
block the task they run in, so of the futures a chunk joins one at a time is
in a request (`CanRun`), while any number can sleep. `Begin` starts one or more
callers of a task that waits for nothing, `Build` is the new client of a worker's
batch. `charged`, `free` and `span` observe an arbitrary window of time: `Tick`
may begin a new one.

### Extract

The variables of `extract_transfer_details`. `Reject` and `Begin` are the early
returns of `extract_transaction`; `Parsed` and `Compiled` read the first
instruction (`Truncated` is `account_keys.len() as u8`, `KeyGuard` the comparison
in front of the key); `Compare` is one round of the loop over the balances,
`Conclude` what follows it, `Finish` the case in which it is skipped. JSON values
are modelled by what the code finds in them. Balances are lamports, far below 2^63, so the
cast to `i64` in `Change` is the identity.

### Shutdown

`main` is where the main function is: starting, binding, serving, waiting for
one of its four handles, returned. `Signal` cancels the token and starts the
first ten seconds; `Joined` and `TimesOut` are the two branches of each
`select!`, and `GoOn` sets the timer anew. `task` is the state of each spawned
task; `PollingStarts` spawns the history and manager tasks and the workers of the
second pool, and `PollingEnds` joins the history task only. A worker leaves when the
channel is drained and `Closed`: no task that has a `Sender`, directly or through
the shared `BatchManager`, is left. Any task except `main` may hang for ever.
Transactions are only counted here, and a `Flush` collects and sends in one step, to
a channel without a limit; `BatchManager` and `Pipeline` say which transaction is
where, and have the wait for room.

## 3. Runs

Eight runs pass and four show a disagreement between the code and what its own
comments or README say.

| Run | Instance | What it shows |
|---|---|---|
| `batch_manager` | 2 callers and the timer task, 4 deliveries from 2 addresses, batch size 2, channel of 2 | `SizeIsExact`, `BatchesBounded`, `NothingVanishes`, `NoDuplicates`; the module implements `HandOver` (`ImplementsHandOver`); with fairness everything buffered is handed over (`EventuallyHandedOver`) and the manager stops (`ManagerStops`) |
| `pipeline` | both pollers, 3 deliveries, batch size 2, channel of 1, chunks of 2; deadlock checked | at most one batch on its way (`OneBatchInFlight`), pollers stop with nothing in hand and the tasks leave less than a batch behind (`StopsEmptyHanded`), fetched transactions leave a poller only by being accepted (`FetchedIsKept`), what a poller has added reaches the channel unless the token comes first (`AcceptedIsHandedOver`), shutdown completes (`PollersStop`) |
| `discovery` | 3 signatures, two in one slot, for 2 addresses; ranges, pages and requests of 2; age limit of 1 slot; slots up to 3; one failure, restart or removal | no slot slips between polls or ranges (`NothingSlips`), ranges of one poll do not overlap (`EachOncePerPoll`), a walk without failure is complete but for what shares a page with a signature past the age limit (`WalkIsComplete`) |
| `ingest` | 2 workers, 2 transactions, one between two addresses and one from a third, 2 batches, one failure, removal or crash | `StoredIsTracked`, `NoBatchLeftBehind`; no address is tracked but the requested ones and those linked to them (`TrackedIsLinked`); the tables change as `Ledger` allows and in no other way (`ImplementsLedger`); workers all exit (`WorkersExit`), queued transactions are stored once failures are over (`QueuedIsStored`) |
| `query_cache` | 2 clients, 2 rows, 2 valid questions and an invalid one, TTL 2, clock up to 3 | `ServedIsRecent`, `OnlyTrackedIsShown`, `TotalsNeverGoBack`, `EveryRequestEnds` |
| `rpc_client` | 2 callers of a chunk on the pollers' client, a worker on its own, burst 1, a cell every 2 ticks, one retry, windows of 2 ticks | requests that took a cell stay within burst and rate, and each caller adds at most one per interval and two more (`WithinRate`); every call returns (`CallsReturn`) |
| `extract` | every transaction with up to 3 keys and balances up to 2, a byte that holds lengths below 2 | the single pass stores what a definition over all balances gives (`StoresTheTransfer`); no index is out of range (`IndexIsSafe`) |
| `shutdown` | 2 workers, 2 transactions, timeouts of 2 ticks | no send is left without a receiver (`SendsSucceed`); a return no wait ran out before leaves only the manager and the workers (`CleanReturn`); a signal ends the process (`SignalEnds`) |
| `final_flush` | as `batch_manager`, smaller; violates `FinalFlushDrains` | finding 1 |
| `lock_stall` | as `pipeline`; violates `FetchedIsAccepted` | finding 2 |
| `batch_rollback` | as `ingest`, with two transactions that share an address; violates `OthersAreStored` | finding 3 |
| `adaptive_ttl` | as `query_cache`; violates `AdaptiveTtl` | finding 4 |

### Bounds, and why they are enough

* *BatchManager*: batches of 2 make "full", "one below full" and "due but not
  full" all different; four deliveries fill two batches, so two callers and
  the timer can each hold one while the channel holds others; a channel of 2
  gets full. Nothing in the module counts beyond these.
* *Pipeline*: three tasks is the real number. A channel of 1 makes every
  send but the first wait under the outer lock. With three deliveries one
  poller can fill a batch while the other is left waiting.
* *Discovery*: three signatures are one more than a page or request holds, so
  paging and truncation both happen; two in one slot and slots that fill up
  during a poll exercise the inclusive ends; slots up to 3 give two ranges of
  2 and a clipped one. An age limit of one slot makes the first signature old
  once the last slot has begun: the two signatures of the second address are then
  one page that straddles the limit, while the first address has the old signature
  on a page of its own. `MaxTrouble` is one failure, restart or removed address at
  any point.
* *Ingest*: two workers exhibit every pairwise interleaving. The addresses of the
  first transaction are linked, so that a request for one of them and the
  registrations of one worker make it relevant to the other's batch; the third
  address, with a transaction of its own in the same batches, must stay untracked
  unless it is requested. Longer chains are the business of the proofs, as are more
  troubles: `MaxTrouble` counts failed fetches and statements, successful removals
  and crashes together, and with one of them everything else still interleaves
  around it. The instance is not reduced by symmetry, which would not be sound for
  its liveness properties.
* *QueryCache*: the two questions differ in range and offset and the second
  skips a row; TTL 2 and clock 3 let an entry be fresh, at its last moment and
  expired; a query may take one tick (`MaxQueryTime`), so that the count is
  older than the entry made from it.
* *RpcClient*: a burst of 1 is exhausted by the first of two callers; an interval
  of 2 lets a sleep begin in the middle of one; with one retry a call sleeps, runs,
  fails and goes through the limiter again. A window of 2 ticks begins at any
  tick, so it can hold a cell, a refill and a late sleeper.
* *Extract*: three balances give a tie before and after a larger change, a loss
  after a gain, and one balance more than keys; three keys count as one when a
  byte holds lengths below two.
* *Shutdown*: two ticks per wait let a task end during any of them, and let one
  wait begin when another has run out.

For everything listed in section 5 the proofs remove these bounds.

### Fairness, and why the code justifies it

* Tasks of the tokio runtime that can run do run: `WF` on every step of a
  worker, a handler, a poller, the manager.
* `select!` picks at random among the ready branches, so a branch that is ready
  again and again is taken: `SF(Final)`, `SF(Stop)`.
* tokio's `Mutex` and the permits of its mpsc channel are granted first come
  first served: `SF(Send)`, `SF(Lock)`; `Pipeline` has the queue explicitly.
* A poll has finitely many chunks: `SF(PollEnds)`.
* Each await inside a batch ends: RPC requests have a bounded number of
  attempts, SQLite a busy timeout: `WF(WorkerStep)`. Failures are bounded by
  `MaxTrouble`; `QueuedIsStored` starts only after the last one, and no
  fairness forces anything to fail, to arrive, to be requested, to be
  cancelled or to crash.
* `RpcClient`: every caller that can move does, and time passes. A request ends
  at the latest when it times out, and `MaxRetries` bounds the attempts; a limiter
  that others empty again and again cannot hold a caller back, because it wakes
  after one interval in any case.
* `Shutdown` assumes only that `main` is scheduled and time passes: any other
  task may hang, and `SignalEnds` holds nevertheless.
* `ServedIsRecent` needs that no more than `MaxQueryTime` passes between COUNT
  and insert. That is an assumption about the database, and named as one.

`Discovery` has no liveness property: `add_transaction` may block until
shutdown (finding 2), so its progress would be fairness the code does not have.

## 4. Findings

1. **The final flush does not drain** (`final_flush`, `batch_manager.rs:144`).
   On cancellation the manager announces "performing final flush" and calls
   `perform_flush_check`, which flushes only what is full or due. What came in
   since the last flush stays in memory and is lost with the process.
   `StopsEmptyHanded` bounds the loss: less than one batch.
2. **The pollers stall on the outer lock** (`lock_stall`, `polling.rs:52`). The
   background task holds the mutex while it awaits `start()`, which returns at
   shutdown. From then on `add_transaction` blocks: nothing found is accepted,
   although the comments say the lock is held "only briefly".
   `AcceptedIsHandedOver` is what is left: what got in before does go out.
3. **One failed registration loses the whole batch** (`batch_rollback`,
   `processor.rs:84`): the loop goes on after a failure, "rather than failing
   completely", but the insert that follows is one database transaction and
   the foreign keys roll it back. The theorem `CalmAlwaysStores` is the other
   side: without a failure, a removal or a crash every batch is stored whole,
   however many workers and requests interleave.
4. **The adaptive TTL is not applied** (`adaptive_ttl`,
   `cache/transaction.rs:53`): it is computed and logged; entries live for the
   default TTL.

Statements that the code does not keep either, without a run of their own. Each is
a definition of its module, and TLC refutes it when it is added to the `INVARIANTS`
of the configuration named:

* **"Forcing exit" does not exit** (`main.rs:167`, 176, 185, 194): when a wait runs out
  `main` logs that it forces the exit and goes on to the next wait, with the full ten
  seconds for that one, so that a shutdown may take forty. `ForcedExit` in
  `Shutdown.cfg`: `main` gives up on the batch manager and waits for polling.
  `SignalEnds` and `MainGoesOn` are what holds: the waits are four, and `main`
  returns after them.
* **"All components shut down"** (`main.rs:201`) is logged although the manager task
  and the workers of `start_polling` are awaited by nobody: even when no wait runs
  out `main` may return before they have ended, and the batches in the channel are
  lost with the runtime. `AllComponentsShutDown` in `Shutdown.cfg`; `CleanReturn` is
  what can be said of the other tasks.
* **A page that straddles the age limit is dropped whole** (`polling.rs:238`): the age
  looked at is that of the last signature of a page, before the page is processed, so
  transactions younger than the "maximum age of transactions to process"
  (`polling.rs:208`) are left out. `YoungAreHanded` in `Discovery.cfg`;
  `WalkIsComplete` states exactly which are: those that share a page with one past
  the limit.
* **The process exceeds the configured rate** (`worker_pool.rs:123`): each batch of a
  worker builds a client, and so a limiter, of its own, beside the one of the pollers,
  and a caller that finds its limiter exhausted sleeps and goes on without taking a
  cell (`client.rs:111`). The `README.md:193` of the repository calls the setting the
  "Maximum RPC requests per second". `ConfiguredRate` in `RpcClient.cfg`.
  `WithinRate` bounds each client and each caller, and not their sum: every batch
  brings another client.

Observations without a run of their own:

* The slot cursor advances also when `get_all_tracked_addresses` or every request
  failed (`polling.rs:139`); only a historical walk brings those transactions
  back. `NothingSlips` excuses such skips and says that they are the only gaps;
  that the walk does bring them back is `WalkIsComplete`.
* `process_batch` registers counterparties, so tracking spreads along
  transactions; and an address removed after a worker's snapshot is tracked
  again by that worker (`worker_pool.rs:120`). `TrackedIsLinked` is what
  holds of it.
* COUNT and SELECT are two statements, so a page may hold more rows than
  `X-Total-Count` of the same answer. `ServedIsRecent` is stated with two sets
  of rows, one contained in the other, for that reason.
* `invalidate_for_address` cannot work on a cache built without
  invalidation support, and is not called (`cache/transaction.rs:63`).
* A removal fails once the address has transactions (`db/address.rs:41`): the
  foreign keys refuse the DELETE and the client gets a 500 for a legal request,
  of which `README.md:220` of the repository knows only the answer 200.
  `Ledger` has that guard on `Remove`, and the theorem `RefusedStaysTracked`
  says that a refused address stays tracked for good.
* Every error is retried, those a comment says "shouldn't be retried" too
  (`client.rs:142`).
* A rate limit of 0 makes `SolanaClient::new` panic; the polling task dies and
  nobody notices before its handle is awaited at shutdown (`PollingPanics`).
* When `bind` fails (`main.rs:138`), `main` returns the error while the tasks
  it has started still run; the runtime drops them.
* The account the balance heuristic finds to lose most is not used as the source:
  the source is always the first key (`models.rs:163`). The amounts of lost and
  gained balance are not compared either.
* A signature without block time at the end of a page counts as time 0 and
  ends the historical walk there, with the page unprocessed (`polling.rs:236`).
* `worker_pool.rs:58` expects the workers to exit because a sender is dropped,
  but `main.rs` keeps one of its own (`worker_sender`) until it returns.

## 5. Theorems

All are proved for every value of the constants that satisfies the modules'
named assumptions: any number of tasks, workers, clients, deliveries
and addresses (`QueryCache` assumes that the rows that may be stored are finitely
many, nothing else has to be finite).

**HandOver.** `AtMostOnce` (in `BatchManagerProofs`): the abstract promise
implies that a delivery is in one place only. Direct induction over the five
actions.

**BatchManager.** The checked invariants together are inductive once two facts
are added: a closed channel is empty (`ClosedIsEmpty`; otherwise `Recv` after
`CloseReceiver` could take what was counted as lost) and the buffered set is
finite (so that its cardinality is a number that grows by one with a new
element). `Invariance` proves this `IInv`, one step per action; `SizeAlwaysExact`,
`BatchesAlwaysBounded`, `NothingEverVanishes`, `ExactlyOnce` and `TypeCorrect`
follow. `SizeIsExact`
cannot be proved alone: that a push adds one to the cardinality needs that the
delivery is new to the buffer, which needs `NothingVanishes`; and that a
collection takes a bounded batch needs `SizeIsExact`. `Refinement` proves that
every step of `SafeSpec` is a step of `HandOver` or a stutter: an addition is
`Accept` (also if it collects: buffer and hand together are `held`), a
send is `Queue`, a failed one `Lose`, a receipt `Take`.

**Ingest.** `IInv` adds `WorkIsLinked` to the checked invariants: for every set
of addresses that contains the requested ones and is closed under links, each
worker's snapshot and the addresses it will register lie in it. Without it
`Register` could add anything. `StoredAlwaysTracked`, `TrackedAlwaysLinked`,
`ExitLeavesNothing`, `RefusedStaysTracked` and `TypeCorrect` follow from
`Invariance`. The step that matters for
`StoredIsTracked` is the pair `Insert`, `TrackRemove`: the foreign keys are
needed on both sides. `IngestImplementsLedger` is the refinement: `Insert` is one
`Store`, also of no transaction; a registration or a request is an `Add` or
a `Remove`; whatever fails, and a restart, is a stutter, because the tables
are all that survives. What the workers know plays no part in it: the guards of
the statements are enough. `CalmAlwaysStores` is the safety half of `QueuedIsStored`:
from any moment at which a worker is not registering, and as long as `trouble` stays
what it is, each batch it ends leaves all its transactions that touch the snapshot
in the table. Its invariant, `CalmSince`, says where the addresses of the worker's
transactions are on the way: tracked, or still to be registered, which no other
worker can undo.

**QueryCache.** `IInv` adds what an entry and a request between its statements
promise: `EntriesAreSound` (an entry reflects the tables at most
`MaxQueryTime` before it was made, and its total is at most the last one told
for its key), `RequestsAreSound` (the same for the count and page of the
request that holds the mutex), `RowsAreTracked`, `RowsArePast`, `ToldIsStored`.
They are about all entries, while the properties are about the answer given
last; the mutex (part of `TypeOK`) is what makes the pending count at least
every total told. `AnswersAreRecent`, `AnswersAreTracked`, `TypeCorrect` follow,
and `TotalsOnlyGrow` proves the action property from the same invariant.
`CacheImplementsService` puts these together as a refinement: `Hit` and `Insert`
are `Serve`, the step at which an answer is seen to be recent, consistent with the
totals told and about a tracked address; everything a request does before is
invisible. The refinement mapping keeps the tables, the clock and the totals,
and maps the entry answered to its page and total.

**The tables between them.** `Ingest` and `QueryCache` share the database and are
not composed: `Ledger` is the interface. The writers guarantee it
(`IngestImplementsLedger`), and two theorems say that the readers' model assumes
exactly that: `ReadersKeepLedger`, the tables around the handler change by
steps of `Ledger`; and `AnyLedgerWillDo`, every step of `Ledger` that may come
between two statements of a request is `Commit`, `Track`, `Untrack` or a
stutter of `QueryCache`. So what is proved of answers holds whatever the workers,
their failures and restarts do to the tables, and not for some writers only.

**Pipeline.** What a task does under the outer lock is a step of `BatchManager`,
so its `IInv` is kept; `PInv` adds who may take such a step. The heart of it is
`SendsInside`: a poller in the middle of a send has added under the lock and not
yet released it, and the manager from its start to its last send holds the
lock. With `HolderIsInside` (one holder) that gives `OneBatchInFlight`; `EmptyBetweenChunks` and `QueueIsOfWaiters` give
the first half of `StopsEmptyHanded`. The second, what all tasks leave behind,
needs `EndInv`: the channel stays open and nothing is lost on the way to it, and
the background task drops the lock for good only when `start()` has returned. With
it every hand is empty at the end, and `SizeIsExact` bounds what is buffered.
`FetchedIsKept` is read off the steps
under `PInv`. `PipelineIsBatchManager` says that the composition is a
`BatchManager` at all (each step is one of `SafeSpec` or a stutter), and
`PipelineImplementsHandOver` that the promise made for any callers is kept by
these three tasks under their lock.

**Discovery.** The live half: `NothingSlips` speaks of slots behind the cursor,
but a poll settles its slots range by range and address by address while the
chain grows. The invariant therefore says what the finished ranges have
settled (`RangesDone`), what the addresses already asked have in the
current one (`AskedDone`), that an untracked address is excused (`NobodysExcused`), and
that ranges are clipped at the slot the poll began with (`Ranges`, `PollPlace`), so
that a slot still filling up is not yet behind the cursor (`CursorPlace`). The
historical half: everything of the address from its cursor up to the newest
signature there was when the walk began is handed over or in the page in hand
(`BehindCursor`, `PageInHand`); only where a walk ends can something be left,
the rest of the page with an old signature. The facts about pages (`NewestFacts`, `LastOfPage`,
`OldPage`) are lemmas about the newest k of a finite set; `Greatest` takes the
place of an induction. `NothingEverSlips`, `AlwaysOncePerPoll`,
`WalkAlwaysComplete` and `TypeCorrect` follow for every chain, range size and limit.

`DiscoveryImplementsCoverage` is the refinement. `Coverage` knows a cursor that
advances (`Advance`), addresses whose history is covered (`Cover`), signatures that
are handed over or excused (`Deal`), and a restart; polls, ranges, pages and walks are
hidden. The guard of `Advance` is what `NothingSlips` says after the step, the guard
of `Cover` what `WalkIsComplete` says after it, and an excuse needs a reason in the
step that makes it: nobody watches the signature's addresses, a request no longer
reaches it (`NotAmongNewest`), or something failed. `Grounded` adds what the mapping needs:
that what a poll or a walk holds is on the chain, and that a walk knows no less of it than the
last clean one. `WatchedAlwaysHanded` follows from the refinement and
`NothingEverSlips`: while nothing fails and no address is removed, what is tracked
from the start is handed over before the cursor passes, unless it is out of reach
(`ExcusedWithReason`).

**RpcClient.** `WithinRate` is not inductive: a limiter that is nearly full again,
or a sleeper about to wake, has the next request in store. `CellsArePaid` charges
the window for the cells a client took and those it could still take, with
the part of the next cell that has been paid for; `SleepsArePaid` charges each
caller for the requests without a cell and for the rest of its sleep. Time pays
for both. `AlwaysWithinRate` and `TypeCorrect` hold for any burst, interval and
number of clients, and for windows of any length.

**Extract.** The loop invariant `Extremes`: after some balances `decrease` and
`increase` are the extremes of the changes seen, and `dst` is the first place of
the increase. `AsTold` keeps what the instruction gave. From these
`AlwaysStoresTheTransfer` follows for sequences of any length, and
`IndexAlwaysSafe` for any width of the truncation: a remainder is never more than
the length itself.

**Shutdown.** `MainPlace` says which tasks may have begun and which waits are over
at each place of `main`, `PollingPlace` what `start_polling` has started, `ExitedLast`
that a worker leaves only with the channel closed. `SendsAlwaysSucceed`,
`AlwaysCleanReturn` and `TypeCorrect` follow.

**Progress, as far as steps can say it.** Liveness cannot be proved here, but the
half of it that is about steps can: that whatever the loop, the request or the task
does, it does not turn back. Each of these action properties names a measure and is
proved for every value of the constants; with the fairness of section 3 the measure is
what makes the liveness properties of the runs hold on instances of any size.

| Theorem | Every step ... |
|---|---|
| `BatchesAlwaysAdvance` (Ingest) | of a worker leaves one address less to register, begins the next stage or ends the batch; a batch fewer in the channel begins another |
| `RequestsAlwaysGoOn` (QueryCache) | of a request leads to its next place or ends it; the mutex is taken from nobody and is free in the step in which its holder ends |
| `CallsAlwaysAdvance` (RpcClient) | of a call shortens its wait, goes on to the request or uses up a retry; `WaitsAreBounded`: no wait is longer than the longest delay with its jitter |
| `LivePollAlwaysAdvances` (Discovery) | of a live poll ends it, asks one address less or begins a later range that starts in the poll's own slots, however the chain grows |
| `WalksAlwaysAdvance` (Discovery) | of a historical round ends it, begins one of the addresses left, ends a walk or leaves the cursor at an older signature, whatever the node returns |
| `ExtractionAlwaysAdvances` (Extract) | lowers the number of steps left; with `OneResult`, the definition the result is compared with admits only one |
| `TurnsAlwaysComeNearer` (Pipeline) | leaves a task that waits for the outer lock in its queue, with no more tasks before it than there were; what it waits for is the fairness of the tasks that hold the lock |
| `MainAlwaysGoesOn` (Shutdown) | of `main` after the signal shortens its wait or is over with it and begins the next, in order |

## 6. What is model-checked only, and what is left out

Model-checked only:

* Liveness (`EventuallyHandedOver`, `ManagerStops`,
  `AcceptedIsHandedOver`, `PollersStop`,
  `WorkersExit`, `QueuedIsStored`, `EveryRequestEnds`, `CallsReturn`,
  `SignalEnds`): properties under fairness, and with them ENABLED, are outside
  what the proof system supports.
* The properties the code violates, those of the four runs and the four statements of
  section 4: TLC finds a counterexample.

Every invariant, every action property and every refinement of a passing run is
proved. The progress properties of section 5, `ImplementsQueryService` and
`ImplementsCoverage` are proved and not listed in a configuration; TLC checks them too
when they are added to the `PROPERTIES` (`NobodyIsForgotten`: the `INVARIANTS`) of
their module's configuration. Two theorems are stated in a form that TLC does not take:
`CalmAlwaysStores` has a box inside a box, and `WatchedAlwaysHanded` speaks, for every set
of addresses, of the behaviours that begin with that set tracked, which no run fixes.
Induction over data is out of the provers' reach as well. Where it would be
needed, the code's loop is a state machine and its invariant does the work
(`Extract`), or a fact about finite sets does (`Greatest` in `DiscoveryProofs`).
The measures above are given as relations between neighbouring states for the
same reason: that a decreasing measure reaches its end is such an induction.

Not modelled, and why:

* The **address cache** is constructed and never used. `invalidate_for_address`
  cannot work on a cache built without that support and is called from a test
  only.
* The **service layer** is empty; **migration** only creates tables that may
  exist; **configuration** is read once; the **test programs** were read as
  documentation.
* The base58 check of an address: a pure syntactic filter in front of
  everything. Message contents, response formats, logging, headers other than
  the total: no property is about them.
* `force_flush` has no caller inside the service, `batch_transactions` and
  `count_transactions` neither; the first is an action of `BatchManager`
  all the same, because it is a public operation on the buffer.
* `Discovery` says nothing of the walks that end at a signature without block
  time: nothing in the repository says what should happen, and `walk.clean`
  excludes them.
* SQLite and sqlx, moka, governor and backon, tokio's primitives and the RPC
  node are modelled from how this code uses them: atomic statements and
  transactions, expiry and eviction, cells and delays, FIFO locks and channels,
  failures at any request.

## 7. Where this could go

All modules planned for the service's own logic exist, and each has its run and its
proofs. They meet at their edges without being composed into one specification:
`Discovery` hands over to `Pipeline`'s pollers, whose batches `Ingest` receives,
and `Shutdown` counts what these tell apart. Composing them would multiply their
states without a property that needs more than two of them; the two that do
share a lock, the batch manager and the tasks around it, are composed
(`Pipeline`), and the two that share the tables meet at `Ledger`. Each of the four
in the path of a transaction has an abstract module it is proved to implement
(`Coverage`, `HandOver`, `Ledger`, `QueryService`). What is left is to join these
into one promise about a transaction from the chain to an answer; it would speak of
`Coverage`'s `handed`, `HandOver`'s `taken` and `Ledger`'s table, and no model has to grow
for it.

When the code changes, start at the definition whose lines changed (`map` in
`PROJECT.json`); a fix of one of the findings turns its run into a passing one
and its property into one to prove.

## 8. Running

```
tlc -workers 2 -config BatchManager.cfg  MCBatchManager.tla    # also FinalFlush.cfg
tlc -workers 2 -config Pipeline.cfg      MCPipeline.tla        # also LockStall.cfg
tlc -workers 2 -config Discovery.cfg     MCDiscovery.tla
tlc -workers 2 -config Ingest.cfg        MCIngest.tla          # also BatchRollback.cfg
tlc -workers 2 -config QueryCache.cfg    MCQueryCache.tla      # also AdaptiveTtl.cfg
tlc -workers 2 -config RpcClient.cfg     MCRpcClient.tla
tlc -workers 2 -config Extract.cfg       MCExtract.tla
tlc -workers 2 -config Shutdown.cfg      MCShutdown.tla
tlapm BatchManagerProofs.tla     # and IngestProofs, QueryCacheProofs, RpcClientProofs,
                                 # ExtractProofs, PipelineProofs, DiscoveryProofs,
                                 # ShutdownProofs
```

Each run takes between a few seconds and three minutes; each proof module a few
minutes.
