# Verification of pancake-arb-bot

TLA+ models, TLC runs and TLAPS proofs for the trading bot of this repository:
the Python bot (`main.py`, `modules/`), which buys BNB on PancakeSwap when its
price there and on Binance differ, and the Go bot (`go/`), which fires orders
at prediction markets near their close. Vendored JavaScript (`node_modules`)
is no part of the program.

## 1. The system

| Part | State it keeps | Operations | Talks to |
|---|---|---|---|
| Arbitrage engine (`modules/arbitrage_engine.py`) | last DEX price, time of the last shot, `_running` | arbitrage loop, `_try_fire`, DEX price poller, `on_execution_result`, `stop` | reads `asset_prices`; puts requests on `execution_queue`; writes `sniper_state`, `inflight_assets`, `cumulative_pnl_usd`, `kill_switch` |
| Web3 executor (`modules/web3_executor.py`) | web3 pool, DEX router, workers | `start`, eight workers, dry-run order, live order, harvester, `stop` | takes requests, puts results on `result_queue`, clears `inflight_assets`; BSC nodes |
| Supervisor (`main.py`) | the task list | `run`, `result_loop`, Ctrl-C, the `finally` block | starts and cancels everything, polls `kill_switch`, sets STOPPED |
| DEX reader (`modules/dex_monitor.py`) | – | build the router, read `getAmountsOut` | RPC nodes |
| Crypto feed (`modules/crypto_feed.py`) | prices, connection, `_running` | WebSocket loop, REST seeds, publish, `stop` | Binance; `asset_prices` |
| PancakeSwap monitor (`modules/pancakeswap_monitor.py`) | HTTP and WebSocket node in use, contract, subscription | `start` with calibration, head loop, contract reads, rotation, `stop` | BSC nodes; epoch and rounds in the shared state |
| Weather feed (`modules/fast_weather_feed.py`) | session, poll and heartbeat tasks, last observation, audit buffer | `start`, `stop`, poll loop, retries, parsing, validation, heartbeat | a weather API; the callbacks registered with it |
| Risk manager (`modules/risk_manager.py`) | circuit breaker, counters | check, record trade/transaction/latency, reset | its callers; the repository has none |
| Panel, config, logging | texts | display, parsing | `SharedMarketState` |
| Go engine (`go/internal/engine/arbitrage.go`) | `firedWindow` | scan loop, `evaluateAsset`, `drainResults`/`onResult` | sends to `execCh`, receives from `resCh`; atomics of `SharedState` |
| Go executor (`go/internal/executor/executor.go`) | nonce, pre-signed orders | workers, `handleRequest`, `profitSweep` | receives `execCh`, sends `resCh`, wallet balance |
| Go circuit breaker (`go/internal/risk/circuit_breaker.go`) | state, trip time, counters: atomics, no lock | `Trip`, `TryReset`, `Record*` | its callers; the repository has none |
| Daily tracker (`go/internal/models/hub.go`) | profit, peak, stake, safety mode: atomics | `RecordWin`, `RecordLoss`, `ResetDaily` | nothing records a trade yet |
| Ring logger, price ring, General, SIMD ranking, fixed point, pre-sign cache (Go) | ring buffers, committed asset | log/drain, push/get, commit/rotate, rank | see the plan |

The parts that decide whether money is spent twice, lost track of, or spent
after the bot should have stopped are the two order pipelines and the two
circuit breakers; they are modelled first. The feeds decide what the pipelines
see, and the live executor is what stands behind `dry_run`.

What is hard in them:

* **Interleaving.** The Python tasks share one event loop and interleave at
  awaits; the Go goroutines share atomics and interleave at every access.
* **Partial failure.** A worker's exception, an RPC outage at startup or later,
  a full Go channel, a callback that raises: each leaves some of the shared
  state behind.
* **Networks.** Sockets close or fall silent, nodes answer late or not at all,
  a transaction is taken although its answer is lost, a receipt comes after the
  time-out, two senders share a nonce.
* **Order of writes.** State before time (`Trip`), profit before peak
  (`RecordWin`), in-flight bit before kill switch (`onResult`), balance read
  before balance written (`profitSweep`).
* **Stopping.** The kill switch and the shutdown have to find, drain or forget
  the orders on the way; nothing may happen after STOPPED.

## 2. Modules

| Module | Models | Role |
|---|---|---|
| `ArbMath` | spread, stake, bet, gas test of the Python bot | pure operators |
| `OrderDesk` | the promise: one order slot, losses booked one by one, a kill switch over an empty slot | abstract specification |
| `ArbBot` | the Python pipeline, from price to STOPPED | detailed; refines `OrderDesk` |
| `Breaker` | the promise of a circuit breaker | abstract specification |
| `RiskManager` | the Python circuit breaker and its callers | detailed; refines `Breaker` |
| `GoBreaker` | the Go circuit breaker, access by access | detailed; refines `Breaker` for one goroutine |
| `AssetDesk` | the promise: one order slot per asset, paid when it is filled and when it is booked | abstract specification |
| `GoPipeline` | Go scan loop, result drain, workers, channels, wallet | detailed; composes engine and executor; refines `AssetDesk` |
| `DailyTracker` | the Go daily tracker, access by access | detailed |
| `CryptoFeed` | the Binance feed: sockets, REST seeds, publishing | component of `Feeds` |
| `PancakeMonitor` | the PancakeSwap monitor: nodes, subscription, contract reads | component of `Feeds` |
| `Feeds` | both feeds, the market they observe, and the shutdown of `run()` | composition |
| `WeatherFeed` | the weather feed: polling, retries, heartbeat, `start`/`stop` | detailed |
| `LiveExecutor` | the live branch of the executor, the harvester, a chain | detailed, with an external chain |
| `MC*` | sets and negative numbers for TLC | small instances |
| `ArbBotProofs`, `RiskManagerProofs`, `GoBreakerProofs`, `GoPipelineProofs`, `DailyTrackerProofs`, `WeatherFeedProofs`, `LiveExecutorProofs`, `FeedsProofs` | theorems | proofs |

### ArbBot: the Python pipeline

A step is the code between two awaits that can suspend. `put` on a queue that
has room and `get` on one that has an element do not suspend, so `_try_fire`
is one step with the `put` (`Fire`), and a worker takes a request, simulates
the order and puts the result in one step (`WorkerFills`). That a queue is
never full is not assumed but follows: at most one order exists
(`SingleFlight`) and the queues hold 2000. `dry_run` is forced to `True` by
`Web3Executor.__init__`, so the live path and the harvester cannot run here;
they have the module `LiveExecutor`.

* *Startup.* `executor` follows `Web3Executor.start` (`setup`, `reader`,
  `ready`, or `crashed` when no node answers). The DEX poller waits for the
  router for a bounded number of looks and then returns for good.
* *Environment.* `rpc_up` flips at any time; a price of 0 stands for one that
  is missing; `wallet_ok` is chosen once: `main.py` logs a missing
  `WALLET_ADDRESS` and goes on, and every order then fails (`WorkerFails`).
* *Failure path.* `_worker`'s `except` removes the asset from
  `inflight_assets` and puts no result; `sniper_state` stays FIRING.
* *Stopping.* `LeaveLoop` (kill switch) or `Interrupt` (Ctrl-C), then
  `StopTasks` (the feeds' `stop` may suspend; engine, executor and
  cancellations follow without suspending), then `MarkStopped`. The DEX poller
  is in no task list, so it survives the cancellations: it still finishes a
  read. One Ctrl-C during the loop is modelled, a second one during the
  `finally` block is not.

Amounts are integers in units of 1/10000, prices are whole dollars. The bet in
BNB is added to a profit in dollars, as the code does.

### RiskManager and GoBreaker: the circuit breakers

No method of `RiskManager` awaits, so each call is one action. Since the
repository never calls it, the callers follow its docstring: ask
`check_circuit_breaker`, trade, report the transaction, report the result of a
trade whose transaction succeeded. Up to `MaxTrades` trades are open at once,
so results arrive after the breaker has opened. Time since the last trip is
`age`, counted up to the cooldown: older ages are indistinguishable.

`GoBreaker` splits the same methods at every atomic access, because the Go
struct has no lock.

### GoPipeline: engine, executor, channels

One step is one access that another goroutine can notice. `evaluateAsset` reads
several atomics before `SetInflight`; of these, only the wallet balance, the
in-flight bits and the kill switch are written elsewhere. Bits are cleared by
others and set only here, so joining the reads to `SetInflight` hides nothing:
a bit read as clear stays clear. `Skip` may happen at any time, because prices
and the time to the close, which are not kept, can make the function return
false. Both sends are non-blocking `select`s with a `default`: `Send`/
`DropSignal`, `Reply`/`DropResult`. `lost` records the results that were logged
as "result channel full" and dropped. `NewBook` stands for a feed that lists a
market; in the repository nothing calls `SetBook`.

`AssetDesk` is the same pipeline without channels, goroutines or bits: sets of
assets whose orders are placed, queued, filled, booked or lost, and two totals.
The refinement mapping reads them off the places of the pipeline. An order is
queued in `execCh` and with a worker that has not credited it, filled from the
credit until the drain receives its result; `earned` is the wallet together
with what was swept from it, so a sweep is no step of the desk. `Fire`, `Send`,
`DropSignal`, `Credit`, `DropResult`, `Receive`, `ClearInflight` and `ScanStop`
are the desk's `Place`, `Enqueue`, `Withdraw`, `Fill`, `Lose`, `Book`, `Release`
and `StopPlacing`; every other step leaves the desk as it was.

### DailyTracker

One step per load, store or successful compare-and-swap. `call` holds each
goroutine's place and local variable. The callers are goroutines that record
trades at will; `ResetAlone` says whether the midnight reset runs while no
trade is being recorded.

### CryptoFeed, PancakeMonitor and Feeds

`Feeds` holds what both feeds share: `calm`, which once true means that the
services in `Reliable` answer, and answer usefully, for good; and `phase`, the
supervisor, which starts the feeds, later stops them one after the other and
then cancels their tasks. `market` and `chain` are the truth at Binance and on
the chain.

* `CryptoFeed`: `start` creates the background seed, connects, receives ticks
  and publishes each of them; after a failure it seeds again and reconnects. A
  REST answer travels: what it says is chosen when it is sent (`SeedServed`) and
  stored when it arrives (`SeedPublished`), so that it may overwrite a newer
  tick. A seed ignores a price that is not positive; a tick does not: one
  without `c` and `p` publishes 0.0 (`TickWithoutPrice`). Such ticks count as
  failures of Binance: a reliable Binance sends none once the network is calm.
* `PancakeMonitor`: the calibration of the clock never fails; `start` fails for
  good when no HTTP node answers the setup of the contract, which is otherwise
  bound to the first node that does. The head loop reads the contract in a
  thread, which a cancellation does not stop: the read goes on and its result is
  thrown away (`ThreadReturns`). A node that may fail may also lag: it answers
  with any epoch up to the chain's (`EpochRead`), and the code publishes it as
  it is. Failures rotate the WebSocket node. Only the epoch is kept of what is
  published.
* The shutdown follows `main.py`'s `finally` block: `crypto.stop()` may
  suspend, and everything else is cancelled at its next await. One await can
  miss it: up to Python 3.11 (`docs/README.md` recommends 3.11 or later)
  `asyncio.wait_for` returns a `recv` that has finished and drops the
  cancellation. If the message is a block header it is still read and published
  before the loop, whose `_running` is off, ends (`HeaderBeforeCancel`, place
  `late`).

### WeatherFeed

One step from await to await of the poll task, the heartbeat task and the
callers of `start()` and `stop()`, which run one call at a time. A response is
one of a few bodies, one for each way parsing or validation can end; the
HTTP outcomes are data, 429, another error and an exception. `attempt` counts
the retries of one fetch, `heartbeat` the seconds since the last success.
Callbacks may raise, in the data path, in the rate-limit path and in the error
path; what is then skipped differs and is the interesting part. The module
imports a name that `models.py` no longer has, so it cannot be loaded at this
commit; it is modelled as written.

### LiveExecutor

Workers and the harvester sign with one account. `pc` says what each does next:
read the nonce and gas price, send, wait for the receipt. The chain is external
and modelled by what the code relies on: a pool with at most one transaction
for a nonce (a better gas price replaces), mining in the order of nonces, a
receipt for what was mined, a contract that takes one bet for each round while
the round is open. The epoch of an order is whatever the monitor published
last, so `TakeOrder` takes any round up to the current one. Every call to a node may fail before or after the node acted
(`Fail`, `SendLost`). The composed bot of `ArbBot` places one order at a time;
this module allows as many as there are workers, the limit of the executor.

## 3. Runs

| Run | Checks | Instance | Result |
|---|---|---|---|
| `arb_pipeline` | the whole Python pipeline: five invariants, `StoppedIsFinal`, refinement of `OrderDesk`, three liveness properties | 53,616 states | holds |
| `arb_wedge` | `FiresWhenViable` | same | violated: a failed order stops trading silently |
| `risk_manager` | breaker limits, overshoot, refinement of `Breaker`, recovery from latency | 1,028 states | holds |
| `risk_stuck_open` | `OpenRecovers` | same | violated: OPEN for ever after losses or failures |
| `go_breaker` | refinement of `Breaker`, limits | one goroutine, 360 states | holds |
| `go_breaker_race` | `RecoverySafe` | two goroutines | violated: HALF_OPEN without a cooldown |
| `go_pipeline` | one order per asset, in-flight bits, wallet accounting, stakes, refinement of `AssetDesk`, orders resolve, kill switch drains | 508,274 states | holds |
| `go_kill_on_profit` | `KillOnlyOnLoss` | the same with $46 | violated: a positive threshold stops after a gain |
| `daily_tracker` | peak covers profit | two goroutines, 638,766 states | holds |
| `weather_feed` | lifecycle, rest after a 429, plausible readings, outage noticed, polling goes on | 15,622 states | holds |
| `feeds` | both feeds and the shutdown: current in the end, nothing published after cancellation, shutdown ends | 316,868 states | holds |
| `live_executor` | booked orders are bets | two workers and the harvester, 2,035,778 states | holds |

What the main properties say:

* `SingleFlight`, `OrderStateAgrees`, `StakeAgrees`: nothing but `sniper_state`
  and a cooldown keeps a second order out, and the executor recomputes the
  stake from whatever the capital is when it runs. Both work because a result
  is booked before `sniper_state` is ARMED again.
* `LossBounded`: the kill switch looks at booked losses only; it still cannot
  be late by more than one bet. `KillOverEmptyPipeline`, which is proved and
  which `DeskImplemented` contains, says why: it is thrown over empty queues.
* `DeskImplemented` of `ArbBot`: all of this at once, as a refinement. A failed order is
  the desk's `stuck` slot, which is also why `FiresWhenViable` fails and
  `FiresWithWallet`, the same with a configured wallet, holds.
* `OvershootBounded`: trades open when the breaker trips may still add to the
  counters; no others.
* `InflightAgrees`: the 64-bit mask is exact at every step, with the dropped
  results as the only bits that stay for good. `WalletBalances` accounts for
  every cent through credits, sweeps, drops and the second credit in `onResult`
  (each order's profit is added twice).
* `DeskImplemented` of `GoPipeline`: an order is placed on a free slot only,
  while the scan loop runs; it is paid when it is filled and once more when it
  is booked, never before, and its slot is free again only after that, or never
  when its result was dropped.
* `StakeCovered`: sweeps go on while requests wait in `execCh`, and several
  stakes may be computed from one balance; each is still covered by itself.
* `KillDrains`: scanning stops, and orders already sent complete.
* `Lifecycle`: after `stop()` the feed is whole or wholly stopped, also when
  `stop()` suspends while its tasks end, and when `start()` never came.
* `RestAfterLimit`: between a 429 and the next request lies a sleep, also when
  the rate-limit callback raises. `OutageDetected`: a provider that stays down
  is reported by the heartbeat or an error, whichever task gets there first.
* `SettlesOnMarket`, `FollowsChain`: once a reliable service of each kind stays
  up, prices and epoch end up current, through any earlier sequence of lost
  sockets, ticks without a price, stale seeds, dead nodes and lagging answers.
  Hypotheses: a reliable Binance sends ticks with a price, a reliable node is up
  to date, and for the second the contract is bound to a reliable node.
* `FrozenAfterCancel`: a contract read that outlives its task changes nothing.
  After the cancellation only the seed that nobody cancels and at most one
  header that had already arrived are still published, and nothing after the
  exit.
* `BookedIsMined`: with shared nonces, replacements, lost answers and late
  receipts, an order reported as executed is one bet of its own, and no two
  reports share a bet.

### Bounds, and why they are enough

* `arb_pipeline`: one cooldown of 2 ticks lets a second order overlap if the
  guards allow it; the kill limit is reached by the third order, so the switch
  is thrown after profits were booked at two different bets (the price moves
  between 600 and 660); the DEX prices give viable spreads in both
  directions, a spread whose profit does not cover the gas, and no spread. The
  poller's patience of 30 looks is 2: giving up before and after the router exists both occur.
  One coin, as in the code.
* `risk_manager`: limits of 3 and 2, cooldown of 3 ticks, two trades open:
  one can trip the breaker and the other overshoot. The instance is finite
  because only open trades add to the counters of an open breaker. The
  latencies are under, at and over the limit.
* `go_breaker`: counters are cut at `CountBound` = 4, two over their limits.
  The bound stops new reports only; a call in progress always completes.
* `go_pipeline`: two assets, two workers, channels of one place, two markets
  in all. With two assets and channels of one place both channels are full in
  some states; in the shipped configuration they are larger than the number
  of assets and never are. With a capital of $48 and a sweep
  threshold of $50 the first credit already makes a sweep, while the second
  order is placed. The thresholds -300 and 300 stand for a limit that is never reached and for one
  that lies above the first gain, as the shipped value does.
* `weather_feed`: three retries, a heartbeat time-out of five seconds, an audit
  buffer of two; one body for each outcome of parsing and validation. Longer
  waits and buffers repeat states.
* `feeds`: the price and the chain, which start at 1, move once each
  (`MaxMoves` = `MaxEpoch` = 2); there are two HTTP and three WebSocket nodes,
  of which the second and the third are the reliable ones: the monitor has to
  rotate past two dead nodes, a stale seed may overwrite a newer price, and a
  lagging answer may move the published epoch from 2 back to 1.
* `live_executor`: two workers and the harvester, three orders in four rounds,
  two gas prices, a look-back of 2 rounds in place of 11. Two senders suffice to
  share a nonce, a third replaces again. Workers are symmetric.
* `daily_tracker`: profits and losses of 1 and 5 with a daily profit up to
  `PnlBound` = 10; a fifth of the peak can be lost at once or in parts.

`CHECK_DEADLOCK FALSE` is set where the program ends: after STOPPED in
`ArbBot`, after `done` is closed in `GoPipeline`, when the process exits in
`Feeds`, and where the bounds on orders and rounds end the run in
`LiveExecutor`.

### Fairness

* `ArbBot`: weak fairness of every task's step and of the tick: the asyncio
  loop runs every ready task and every sleep ends. None for prices, nodes,
  Ctrl-C. `KillStops` therefore also rests on the feeds' `stop` returning.
* `RiskManager`: weak fairness of `Tick` and `Check`: time passes and callers
  keep asking. None for trades, latencies, `reset_metrics`.
* `GoPipeline`: weak fairness of each goroutine as a whole, since the Go
  scheduler runs every runnable goroutine. None for markets, which is why no
  property promises an order, and none for `CloseDone`.

* `WeatherFeed`: weak fairness of the poll task, the heartbeat task and a
  `stop()` that is going on: every request ends by its time-out, the event loop
  runs every ready task, sleeps end. None for the callers or the provider.
* `Feeds`: weak fairness of each task's step: requests and callbacks end, at
  the latest by time-out, and a service that is up sends ticks and blocks. None
  for the market, the chain, services going down, or the start of the shutdown;
  that the network calms down is a hypothesis of the two properties.

## 4. Proofs

For all values of the constants that satisfy the named assumptions:

* `ArbBotProofs`: the five invariants of the run, `KillOverEmptyPipeline`, `StoppedIsFinal` and the
  refinement of `OrderDesk`. The invariants are not inductive one by one: that
  a second order is not placed needs FIRING to cover both queues, which needs
  to know when FIRING ends. The proof therefore carries one inductive
  invariant, `IInv`, whose own conjuncts are: at most one order, with a stake
  computed from the present capital or a result within one bet (`OneOrder`);
  an order in the pipeline was placed above the limit (`OpenAboveLimit`);
  FIRING covers the life of an order, and STOPPED is the end of `run`
  (`FiringCovers`); profits are never positive; and the kill switch is thrown
  only at or below the limit. Assumption: `MaxBet` bounds
  the bet of the initial capital at every price. Later capitals are smaller,
  because every dry-run result is a loss; the lemmas on `StakeOf` and `BetOf`
  give that both are monotone.
* `RiskManagerProofs`: type correctness, `NotOpenWithinLimits`,
  `OvershootBounded` and the refinement of `Breaker`. `TypeOK`,
  `NotOpenWithinLimits` and `OvershootBounded` are inductive together: an open
  breaker admits no trade, so the counts may only consume what was admitted
  below the limits.
* `DailyTrackerProofs`: type correctness and `StakeAboveBase` (the compounding
  stake is never below its base) for any number of goroutines, and `PeakCoversPnl` if the daily reset runs alone. The extra
  conjunct, `ResetSeesZero`, says that the profit is still zero when the reset
  clears the peak; without `ResetAlone` it is false, and so is
  `PeakCoversPnl`.

* `GoBreakerProofs`: for a single caller, `NotOpenWithinLimits` and the
  refinement of `Breaker`, for every limit and cooldown. The inductive
  invariant says what each local step of a call already knows: a call that is
  past a check still has the checked fact, because nobody else writes, and a
  counter at its limit with a breaker that is not open means that the trip is
  the next step.
* `GoPipelineProofs`: type correctness, `OneOrderPerAsset`, `InflightAgrees`,
  `WalletBalances`, `CapitalKept`, `StakeCovered` and the refinement of
  `AssetDesk`, for any number of assets and workers and channels of any
  capacity. `MayFire` looks only at the bit, so that a second order is not
  placed rests on the bits being exact; and clearing a bit is right only if no
  other order of the asset is left. The inductive invariant therefore says both
  at once: the orders of an asset are apart across the engine, `execCh`, the
  workers, `resCh` and the drain (`Apart`), and a bit is set for an order or
  for a lost result, never for both (`Bits`). `WalletBalances` is an induction
  over the amounts, on top of `Bits`: the asset of a dropped result was not
  lost before, so that `lost` counts every drop. Assumptions: finitely many
  workers, and the ranges of the constants.
  The two facts about sweeps need one more quantity, `Reserve`: the balance
  less one bonus for each worker that may still sweep (`Owing`). A credit adds
  a bonus and at most one debt, and a sweep takes at most the bonus of its own
  order (`AmountsSmall`), so the reserve never falls. It starts at the initial
  capital: that is `CapitalKept`, for any threshold and any number of workers.
  For `StakeCovered`, the stakes in `execCh` are at most the reserve
  (`StakesSpared`): an eighth or four fifths of the balance leaves room for a
  bonus per asset, and by `Apart` no more workers owe than there are assets.
  This theorem has two hypotheses: at most seven assets (`AssetCount` is 6) and
  a capital of at least the smallest bet, 150 cents.
  The refinement maps each step by `StationsApart`: the stations of the desk
  share no asset, so that what leaves one place is gone from it; and `Place`
  finds the slot free because `Bits` is an equivalence.
* `WeatherFeedProofs`: type correctness (which bounds the attempts of a fetch
  and the buffer), `Lifecycle`, `RestAfterLimit` and `OnlyPlausible`, for every
  set of bodies. `StopOrder` says in which order a `stop()` that is going on
  has put things away, and `LimitRemembered` that the poll task still knows of
  the 429 it is handling; without them neither property is inductive.
  Assumptions: the ranges of the bounds and of the bodies' readings, and that
  `NoObservation` is none of the observations.
* `LiveExecutorProofs`: type correctness and `BookedIsMined` for any number of
  workers, orders and rounds. What was sent is mined, pending or replaced
  (`Sent`); pending nonces are at or above the account's (`PoolOrder`);
  two actors never wait for the same transaction (`Distinct`); a successful
  receipt is a bet in the ledger (`Mined`), and as long as its sender waits it
  is not booked (`NotYetBooked`). Each of them is needed when a receipt is read
  or a transaction is mined. Assumptions: positive bounds, workers that are
  different from the harvester, gas prices that are numbers.

* `FeedsProofs`: type correctness of both feeds and of the supervisor and
  `FrozenAfterCancel`, for pools of any size. That nothing is published after a
  cancellation follows from what an ended task leaves behind: a fallback seed
  and a read in its thread exist only while the feed or the monitor awaits them
  (`FallbackAwaited`, `ThreadAwaited`), save that a read may outlive a monitor
  that is dead. A late header is the last one because `_running` is off when
  the tasks are cancelled (`LoopEnds`), and after the exit nothing is published
  because nothing is left that could (`NothingLeft`, a conjunct of the
  invariant). Assumptions: positive bounds, and a pool of WebSocket nodes that
  is not empty.

Only model-checked: every liveness property, since fairness and ENABLED are out
of the prover's reach, and `RecoverySafe` of a Go breaker with several
goroutines, which is false (`NotOpenWithinLimits` is false there, too, for the
same race). The lemmas and theorems above leave no safety property of a passing
run unproved.

## 5. Disagreements between the code and its documents

The violated runs are findings, quoted in `PROJECT.json`. Seen while reading,
and not given a run:

* `main.py` and the docstring of `arbitrage_engine.py` speak of a threshold of
  0.2 %; the constant is 0.12 %.
* `RuntimeConfig.kill_switch_pnl_usd` (-30) is never read: the engine uses its
  own constant.
* `dex_monitor.py:66` announces "Reintentando en próximo ciclo..."; the router
  is built once and never retried.
* Two Go workers can sweep the same excess, and the balance falls below the
  threshold that `profitSweep` protects.
* `RecordLoss` concurrent with another call can miss a drawdown that should
  start the safety mode.
* Weather feed: `last_heartbeat_ns` is 0 at first, so the monitor raises an
  alarm one second after the start; HEARTBEAT_TIMEOUT stays in the status: data
  do not lead back to RUNNING. Invalid data skip the sleep of the interval although the module
  promises to respect rate limits. A `start()` while a `stop()` is suspended
  loses the new session and heartbeat task. `precip_mm` is not validated.
* Crypto feed: a tick without a usable price publishes 0.0; an older REST seed
  may overwrite a newer tick until the next one.
* PancakeSwap monitor: a node that lags moves the published epoch back; the code
  compares it with nothing. Up to Python 3.11 `wait_for` may drop the
  cancellation, and one more block is published during the shutdown.
* Live executor (latent while `dry_run` is forced): a receipt after 30 seconds
  is reported as a failure while the transaction may still be mined; the live
  result books `bet_amount_bnb` where the order sent `bet_bnb`.
* A dry-run result adds a bet in BNB to a profit in dollars.
* The Go breaker truncates a latency to whole milliseconds before it compares.
* `SMA` loads the cursor anew for each price, so that a push in between makes
  it count one price twice.
* `ResetDaily` concurrent with trades can leave a profit above the peak.
* In Go each profit is added to the wallet twice, by the worker and by
  `onResult`.
* `go/cmd/sniper/main.go` does not fit the signatures of the packages it wires.

## 6. Not modelled

* `execute_auto_claim` of `web3_executor.py`: nothing calls it, and it signs
  nothing that the harvester does not.
* Panels, logging texts, formatting, environment parsing, constants
  (`config.py`, `logging_config.py`, `pancake_abi.py`), network transport.
* Statistics that decide nothing (win rates, history, alerts, latencies,
  metrics of the feeds, `Correlation`).
* `models.py` beyond the fields that the pipeline decides on.
* `montecarlo.go`: floating-point statistics.
* Pre-sign cache: a lock around a map that nothing fills.
* `go/cmd/sniper/main.go`, the Go feeds and panel: wiring and input.

## 7. Plan

1. `RingLogger` (`go/internal/fastlog/ringlog.go`): claim, write, drain and
   drop, access by access. No message overwrites a line that is still to be
   printed; lines are in their places unless the drain overtook a writer, or
   their messages were dropped. With it the price ring of `hub.go`, which also
   publishes its cursor before the entry.
2. `General` (`go/internal/engine/general.go`): commit, release and rotate,
   access by access, with the ranking of `simd.go` as a pure module checked
   against exact arithmetic on a small word.
3. `FixedPoint` (`go/internal/models/fixedpoint.go`): conversions and
   multiplication modulo a small word width, against a reference.
4. The composition of `Feeds` with `ArbBot`: the age of the price that an order
   is fired at.

Runs stay one per question; where several instances of one module ask the same
kind of question they share a configuration.
