# Lead-lag arbitrage: TLA+ models and proofs

This directory holds TLA+ specifications of the programs in this repository,
the TLC configurations that check them on small instances, and TLAPS proofs for
every value of the constants. `PROJECT.json` maps each definition to the lines
it was translated from, lists the runs, the mutants that show each property can
fail, the hazards of the code and the theorems.

Check a run with `tlc -workers 2 -config MCMarketData.cfg MCMarketData`, the proofs
with `tlapm MarketDataProofs.tla` (and `SignalPathProofs`, `OandaExecutorProofs`,
`CTraderExecutorProofs`, `FixExecutorProofs`, `TelemetryProofs`, `BacktestProofs`,
`LeadLagProofs`).

## 1. The system

There are two programs and a few stand-alone parts.

**The engine** (`latency_arb/src/main.cpp`) is one process. Threads and data:

```
 BinanceWs|BybitWs --fast ring----+
 DeribitWs ---------deribit ring--+--> strategy_loop --> ExecutionDispatcher --> ZmqPub --> zmq
 BrokerSub ---------broker ring---+    (Aggregator,       queue_, 1 thread  \--> FixClient --> TCP
 (one reader thread each)               Strategy)                                orders_, 1 thread
                     Telemetry: a singleton every thread logs to
```

`Mt5Bridge` is a separate process that subscribes to the signals.
`OandaExecutor`, `CTraderExecutor` and `FixExecutor` are executors used by the
command-line probes in `src/bin`; each has a queue and a thread. The replay
engine in `src/backtest` drives Aggregator and Strategy over recorded ticks.

**`lead_lag.cpp`** is the older single-file program: a reactor with one Binance
client, a signal generator, a pool of FXCM workers, and an asynchronous logger.
`lead_lag_trader.py` is its Python twin.

| Component | State | Operations | What makes it correct | Module |
|---|---|---|---|---|
| `SpscRing` (ring.h) | slots, head, tail, dropped | push, pop (word copies) | whole frames, in order, loss only by overrun and reported | `SpscRing` |
| Aggregator | a window per venue | update | lead inside the market, stale ticks unused (they are not, see section 5) | `Aggregator` |
| Strategy | lots, P/L, counters, last signal | maybe_emit, on_order_* | cooldown, risk gates, edge of the right sign | `Strategy` |
| strategy_loop | loop position | one iteration | decisions on a consistent view | `StrategyLoop` |
| WS readers | session, delay, io_context, timers | start, stop, handlers | never dead, never doubled, stop returns | `WsFeed` |
| ExecutionDispatcher | queue, flags | submit, worker, stop | no signal lost or repeated | `SignalPath` |
| ZmqPub | queue, batch | publish_signal, drain, stop | sends all, in order | `SignalPath` |
| FixClient | mailbox, socket, session | send_order, session loop, stop | each order tried once | `FixClient` |
| Start-up, shutdown | g_shutdown, order of joins | main | nothing fed after its end, all joins return | `SignalPath` |
| BrokerSub | running flags | run, stop | quotes reach the ring | in `StrategyLoop`, `SignalPath` |
| OandaExecutor | queue, wake, stream | execute, worker, stop | order, one retry, truthful report | `OandaExecutor` |
| CTraderExecutor | queue, wake, stream, stage | execute, worker, stop | order, an event per ok | `CTraderExecutor` |
| FixExecutor | orders, write queue, seq numbers, pending | execute, io handlers, stop | one write at a time, report once | `FixExecutor` |
| lead_lag.cpp | pool queue, position counter, log queue, back-off | see module | positions accounted, nothing lost at exit | `LeadLag` |
| Telemetry | queue, mmap region, bench ring | push, writer, grow_mmap, bench_mark, stop | lines in order or dropped, drain and join, ring not ahead of its samples | `Telemetry` |
| Mt5Bridge | running flags, sockets, DLL handle | start, run, try_dll, try_socket, stop | a signal placed once, listens while started | `Mt5Bridge` |
| wire | - | encode, decode, slippage test | the test never refuses a signal | test in `Strategy` |
| Replay engine | pending order, held position, lots, equity | run_impl, submit, at_fill, handle_fill, close_open | no look-ahead, signals and P/L accounted | `Backtest` |
| Config, probes, scripts, protobuf files | - | - | - | not modelled |

What is hard: the lock-free ring under overrun; shared flags read and then used
(`wake_`, `io_`, `session_`, `connected_`); queues that outlive a connection;
retries of orders whose answer was lost; answers that belong to an earlier
order; shutdown while orders and log rows are queued anywhere. The list with
source lines is `hazards` in `PROJECT.json`.

## 2. The modules

* **`SpscRing`**: `push` and `pop` split into their loads, word copies and
  stores: `PushBegin`, `PushWord`, `PushPublish`, `PopBegin`, `PopWord`,
  `PopAdvance`. Each frame has `Words` words, so a torn frame is a visible
  state. `raced` remembers that an overrun hit the pop under way. History
  variables (pushed, popped, laps) state what the ring promises.
* **`FrameQueue`**: what the ring is to its two threads: a queue of whole
  frames that an overrun empties. `SpscRing` implements it under the mapping
  `queue <- the frames between tail and head` (`ImplementsFrameQueue`). It also
  states the queue the header documents, which drops its oldest frame only
  (`DropOldestSpec`); the ring does not implement that one.
* **`RingOps`**: push as one step, for modules where a ring is only a buffer.
* **`Aggregator`, `Strategy`**: operators, no variables; all arithmetic is on
  integers in the 0.0001 grid `round4` uses. The weights are any integers in
  units of `1 / WeightUnit`, negative ones included: `Config` takes what the
  environment says, and `weights()` normalises only a positive sum.
* **`StrategyLoop`**: composes them. An iteration is the pops of the fast
  ring, one by one, those of the Deribit ring, the lead, and then the pop of a
  quote and the decision; readers push between any two of these steps.
* **`FixClient`**: the actions of the FIX session thread and of `stop()`.
* **`SignalPath`**: extends `FixClient` with the strategy thread's submissions,
  the dispatcher, the publisher and `main`'s ordered shutdown, down to the call
  of `Telemetry::stop()`, which need not return. A signal is its number.
* **`WsFeed`**: one reader of each of the three kinds: io_context, sessions as
  chains of operations, reconnect timers, guard timer, and a main thread inside
  `start()`/`stop()`.
* **`OandaExecutor`, `CTraderExecutor`, `FixExecutor`**: a caller, the worker
  or session thread, and the remote side as an external actor that answers,
  rejects, fills late, closes, or loses an answer.
* **`LeadLag`**: reactor, pool of workers, logger (whose trade file may fail to
  open), and `main`.
* **`Backtest`**: extends `Strategy` with `run_impl()` and the simulator. An
  action consumes one record of a stream; the steps of `run_impl()` on a lag
  record (`HandleFill`, `CloseOpen`, `Signal`) are operators on the record `st`
  of its locals, applied in the order of the code.
* **`Telemetry`**: `main`, the writer, the callers of `push()` and the threads
  that mark samples. What the code does without the mutex is split into its
  steps: `stop()`, the lock-free ring, and `grow_mmap()`, whose `ftruncate()`,
  `mmap()` and stores of `base`, `len` and `used` are steps of either caller. An
  access outside of the mapping or the file is the end of the process (`crashed`).
* **`Mt5Bridge`**: the owner's `start()` and `stop()`, the subscriber loop, and
  the two back-ends, each of which may fail.
* **`MC*`**: instances for TLC. `MCMarketData`, `MCOrderPath`, `MCBrokers` and
  `MCServices` each put models with no variable in common side by side; the
  variable `part`, chosen in the first state, says which of them runs, and the
  others stay as they are. `MCStrategyLoop`, `MCBacktest` and `MCTelemetry` hold
  constants.
* **`MarketDataProofs`** (of `SpscRing`, `WsFeed` and `StrategyLoop` with
  `Strategy` and `Aggregator`), **`SignalPathProofs`** (of `SignalPath` with
  `FixClient`, and of `Mt5Bridge`), **`OandaExecutorProofs`**,
  **`CTraderExecutorProofs`**, **`FixExecutorProofs`**, **`TelemetryProofs`**,
  **`BacktestProofs`**, **`LeadLagProofs`**: the TLAPS proofs. The first two extend
  several models that have no variable in common, the ones along the way of a
  price and of a signal; the initial predicate, next-state relation and
  specification of a model that is put beside others carry a name of their own
  (`Ring...`, `Feed...`, `Bridge...`, `Oanda...`, `LeadLag...`, `Replay...`,
  `Telemetry...`).

Conventions: an action carries the name of the function or the step of it; a
definition that follows a comment "Mutant:" is a plausible wrong version, used
only to show that a property can fail. History variables are marked so.

## 3. The runs

Four runs pass, one for each stretch of the way from a price to an order:

| Run | States | What it shows |
|---|---|---|
| `market_data` | 2.1 million | *Ring*: with word-grained interleavings and overruns, whole frames in order (`WholeAndInOrder`), lossless until lapped, the backlog is always the newest frames, refinement of `FrameQueue`, and the backlog drains. *Readers*: exactly one session or timer (one more per failed Bybit pong) until stopped; a `stop()` that finds `io_` set and hits no reset pointer returns without help of the network. *Strategy loop*: signals one interval apart; the lead between the venues' prices, unless the weights of the session are negative or do not sum above zero. |
| `order_path` | 226 thousand | *Engine*: every submitted signal is in exactly one place, in order; every FIX order is queued, in the batch or tried once; the stop order closes the path from the front; with readers that stop, shutdown gets as far as `Telemetry::stop()`; signals go out. *Bridge*: every frame accounted for, two orders of one signal only after a failing DLL; listening between start and stop unless the setup failed; `stop()` returns. *OANDA*: order of posts, at most one retry and only after transport failures; ok reported exactly when a post was answered well; `stop()` returns if the calls on the stream end. |
| `brokers` | 425 thousand | *FIX executor*: the frames of a session in order, its Logon first, none twice; callbacks at most once; accepted orders are written; `stop()` returns. *lead_lag*: the position counter equals the orders in flight; no signal is lost, and a trade row only when its file does not open; shutdown ends if the posts do. |
| `services` | 649 thousand | *cTrader*: requests in order and at most twice; what an event can pay for at most; no lost wake-up; `stop()` returns. *Telemetry*: every line in one place, and what two threads that map the file can do to it; the sample counter behind the claimed slots by the marks under way; the queue drains. *Replay*: every signal is pending, held, realised, rejected or overwritten, and the strategy never counts fewer lots than are open; the figures of the result agree, the drawdown included; no fill before its delay or on an older quote. |

Eight runs show a disagreement between the code and its documents (section 5):
each checks what a document says, and TLC finds a behaviour of the code that
violates it.

| Run | Violates | Said by |
|---|---|---|
| `ring_drop_oldest` | `DropsOnlyTheOldest` | ring.h:17-18, README.md:109 |
| `stale_ticks` | `StaleTicksAreNeverUsed` | README.md:64-65, aggregator.cpp:19 |
| `oanda_queued` | `QueuedIsServed` | oanda_executor.h:19-20 |
| `ctrader_ok` | `OkIsItsOwn` | ctrader_executor.h:57, 135 |
| `backtest_position` | `FullPositionAccounted` | backtest_engine.cpp:243-244 |
| `telemetry_stop` | `StopReturns` | telemetry.h:106 |
| `ws_feed_stop` | `StopEndsTheLoop` | bybit_ws.cpp:208 |
| `lead_lag_refire` | `NoRefire` | lead_lag.cpp:718-719 |

`CHECK_DEADLOCK FALSE` is set where the system really stops (after shutdown, or
when a bound on messages is used up).

### Bounds

* Ring: 4 slots (3 usable), 10 pushes, 2 words. The indices wrap twice and the
  reader is lapped twice; a third word or slot adds no new order of steps. The
  proofs remove these bounds.
* Strategy: two prices, a clock of 4 values, 4 messages, rings of 2: enough for
  a tick older than the age limit, a quote before and after the interval, and
  one silent venue; one session has sound weights, the other a negative sum.
* Signal path: 2 signals, 1 failure: a batch with one order sent and one lost,
  and a second session. WsFeed: 2 failures: the delay reaches its cap, and a
  pong and the read beside it both fail, which forks a Session.
* Executors: 2 or 3 jobs and 1 to 3 faults: a retry, a job queued behind it,
  and a late answer. A shorter queue than jobs makes the limit bite.
* LeadLag: the one worker `Config` gives the pool (lead_lag.cpp:383), 2 signals,
  1 failed session. The theorems are about any finite pool.
* Backtest: 6 records: lead, signal, fill, second signal, second fill, close,
  with two lots so that a held position can be overwritten, delays of 0 and
  more, a crossed quote and a spread past the cap. The proofs remove the bounds.
* Telemetry: 3 lines for regions of 2, 1 and 5 (the second does not fit behind
  the first in the small one), 2 failed attempts to map (so that both callers
  find no region), 2 threads and 3 marks for 2 slots (the ring wraps). The log
  and the benchmark ring have no variable in common but `main`'s place and are
  checked as two parts; the theorems are about both at once.
* Mt5Bridge: 4 frames, one of them malformed, a pipe of 2 (it overflows), 3
  starts (a restart after a stop and one without effect).

All bounds are named constants (`Max...`, `QueueLimit`) in the guards.

### Fairness

Threads are weakly fair: the operating system schedules a thread that can run.
Nothing else is taken for granted of a blocking call than what its code gives it:

* OANDA: connect, TLS handshake, write, read and TLS shutdown are blocking calls
  without a deadline. The worker is fair only outside of them (`InCall`), and
  the properties about `stop()` and the queue assume that they end (`CallsEnd`).
  With a silent server `stop()` never returns.
* FXCM in lead_lag.cpp: name resolution has no deadline, and the `expires_after()`
  of the `tcp_stream` binds asynchronous operations only, where the code makes
  blocking ones. A post may last for ever; `LeadLagShutdown` assumes that the
  posts end (`PostsEnd`).
* cTrader: `read_frame()` has no timeout; the server is assumed to answer or to
  close, and the connection stages likewise.
* WebSocket readers: nothing is assumed of the network or of timers. A read may
  wait for ever, since the code neither pings nor sets an idle timeout, and
  nobody waits 24 hours for the guard. `StopCompletes` is about the `stop()` that
  finds `io_` set; the other one is `ws_feed_stop`.
* Engine shutdown: neither a reader nor `Telemetry::stop()` is assumed to
  return. `ShutdownCompletes` assumes that no reader is in its `stop()` for ever
  (`ReadersStop`) and ends at the call of `Telemetry::stop()`. A FIX session's
  `connect()` ends with the kernel's timeout, and what it sends before its peer
  timeout fits the socket buffer.
* `Telemetry`: the writer and `main` are scheduled, but a spurious wake-up need
  never come.
* `Mt5Bridge`: the receive has a timeout of 100 ms; the blocking calls of the
  back-ends are assumed to end.
* FIX executor: the io_context serves its handlers; the synchronous Logout and
  TLS shutdown of `stop()` are assumed to end.

Callers, signals from the operator, frames and failures are never forced.

## 4. What is proved

### The ring

`MarketDataProofs` proves for **every** capacity, payload width and number of
pushes, from `CapacityAssumption` (at least two slots) and `MaxPushAssumption`:
`RingBacklogIsNewest`, `RingWholeAndInOrder` and `RingLosslessUntilLapped`, three
properties of the run `market_data`, the type invariant, and `RingOverrunIsReported`.

None of them is inductive alone. `SafetyInv` strengthens them with

* `SlotsInv`: each slot between tail and head holds the frame its distance from
  head says, and the slot being written is outside that range;
* `ReaderInv`: unless `raced`, the words copied so far by a pop are those of the
  frame at tail, and that frame is newer than everything delivered;
* `LapsInv`: how the number of pushes, pops and dropped frames are related to
  the indices while no lap has happened.

`RingSafetyInv` proves Init, each action and the stuttering step, one step per
action and one below it per conjunct; arithmetic on indices modulo the capacity
is in lemmas of its own. The theorems follow by PTL.

`RingImplementsFrameQueue` proves the refinement: under `SafetyInv` the frames
between tail and head are a run of consecutive pushes, so that publishing a
frame appends to the queue or, on a full ring, empties it, advancing the tail
removes the front, and every other step is a stutter.

### The replay engine

`BacktestProofs` proves the three properties of the replay in the run `services` for every set
of parameters, quotes (crossed ones included) and length of the streams, from
`BacktestAssumption` and the assumptions of `Strategy`.

* `BacktestOrdersAccounted` and `BacktestEquityAccounted` follow from `IInv`. It
  adds to them that `st.peak` is the top of the equity curve (`Drawn`: without
  it the drawdown of a longer curve does not follow from that of a shorter one),
  and that a pending order is due at most the delay after the last record
  (`DrainedInTime`), which is how long the final drain waits.
* `BacktestFillsAfterDelay` follows from `TimeInv`, which adds `Scheduled`: a
  pending order is due its delay after its signal, and every fill is `Timely`
  and lies no later than `Horizon`, the last record while the run lasts and the
  drain's own times after it.

Each operator on `st` (`HandleFill`, `CloseOpen`, `Signal`, ...) has a lemma of
its own, so that the step of an action is the chain of its lemmas.

### The slippage test

`MarketDataProofs` proves `SignalsPassSlippageCap`: for every lead, quote and
parameter, `within_slippage_cap()` accepts each signal `maybe_emit()` builds.
`EdgeIsPositive` shows that a signal's edge, less the threshold, is positive on
the side chosen; `within_slippage_cap()` accepts every positive edge. So the cap,
which looks like a risk limit, never bites.

### The strategy thread

`MarketDataProofs` also proves, for all parameters, prices, quotes and ring sizes
and any number of messages:

* `SignalsAreCooledDown`: `SignalInv` adds that the last signal's time is the
  one `Strategy` remembers and that `now`, read once per iteration, never runs
  backwards.
* `LeadStaysWithinVenues`: `LeadPriceBounds` shows it of the operators, for the
  rounded weighted mean of `WeightedMean` and for the fallback to one venue. The
  weights are any integers: when those of the session are negative or do not sum
  above zero, the theorem says that the lead is what they give, and that this
  takes a price from both venues.
* `NoTickEverExpires`, an action property: every tick carries a time of the
  wall clock, every age is taken on the clock of the engine, and so nothing is
  refused or pruned. It is the reason for the violation in `stale_ticks`.

The assumptions are `ClockAssumption` (the engine has been up for less time than
has passed since 1970), `MarketAssumption` (prices are not negative; quotes may
be anything) and those of the parameters.

### The readers of market data

`MarketDataProofs` also proves `FeedChainsAccounted`, the invariant of the
readers, for all delays and any number of failures: until `stop()` a reader has
exactly one Session, failure in hand or reconnect timer, and one more for each
pong that Bybit's reader could not write. `FeedInv` adds that nothing exists
before `run()` has spawned the first Session (`StartInv`) and that only the Bybit
reader forks. `LiveFinite` makes the live Sessions countable; spawning one adds
to the count (`Spawns`), and `FailStep` shows that a Session that leaves it puts a
failure in hand at the same step, which `RunStep` turns into a timer. The
assumptions are `DelayAssumption` (a positive first delay, no greater than the cap)
and `MaxFaultsAssumption`.

### The signal path

`SignalPathProofs` proves `PathSignalsConserved` and `PathFixOrdersAccounted`, the
two safety properties of the engine's path that speak of every signal, for any
number of signals and of failed sessions, from `MaxSignalsAssumption` and
`MaxFixFaultsAssumption`. `PathInv` is both properties together with the types and
the fact that the dispatcher holds one signal at most: the sockets' lines are read
off the same stations, and what the FIX client was given is what the publisher
was, plus the signal between the two calls. The argument is about sequences: the
stations are concatenated, and an action moves the front of one to the end of the
one before (`FrontMoves`), appends to the last (`AppendToLast`), or empties one
into its empty neighbour.

`PathStopOrderCloses` is the action property of the stop order. Its invariant
`StopInv` says that the thread in front of a stopped part has ended; a step that
would feed the part then has no thread to take it.

### lead_lag.cpp

`LeadLagProofs` proves `LeadLagPositionsAccounted` for any finite pool of
workers, from `LeadLagAssumption`. `PositionsInv` adds that a worker at the gate
holds a signal; `StepKeepsCount` is the argument that a worker that enters or
leaves the set of orders in flight changes its size and the counter alike.

`LeadLagNothingLost` proves `NothingLost`. The log is read as one sequence,
`Full`: what is on disk, what the stream buffers hold and what is queued. No step
of the writer changes it, and a caller appends to it. `LossInv` adds that a signal
that was taken is skipped, has its one row in `Full`, or is held by one worker
that has yet to write it, and the chain of the shutdown: when the pool is joined
its queue is empty and no worker holds a signal, and when the writer has ended
`Full` is what is on disk. The assumption that the pool is not empty is needed
here, since a queue without workers is never drained. The row of a signal
counts as written when `write_csv()` was called for it; `rowless` are the signals
whose row was lost because the file did not open, and the theorem says that they
come before every row that is there: once open, the file stays open.

### The bridge

`SignalPathProofs` also proves `Mt5ListensUnlessSetupFailed` for any number of
frames and restarts. Its invariant `FlagInv` adds what `running_` and `stopped_`
are at each place of the thread.

`Mt5FramesAccounted` proves the balance of frames. `FramesInv` says where a frame
may be: the pipe is sorted and later than the frame in hand, which is later than
every order except its own, and a frame has a second order only behind a DLL
call that failed. The places are then disjoint, and `PlacesCount` adds up their
sizes to the number of published frames.

### The order executors

`OandaExecutorProofs`, `CTraderExecutorProofs` and `FixExecutorProofs` prove the
safety properties of the executors for any number of orders and faults and any
length of the queue. The first two rest on the fact that the jobs still queued are the numbers behind the worker's, so that the posts
or requests of the past belong to jobs no later than its own; how many the current
one has follows from the attempt.

* `OandaPostsInOrder`, `OandaReportsAreTruthful`: `PostInv` adds that a job about
  to be posted was posted before only by a failed first attempt, and that in the
  report `outcome` says whether one of the job's posts was answered well.
* `CTraderRequestsInOrder`: `RequestInv` is the order of the requests, and the
  bound of two of a job through both attempts.
* `CTraderOkNeedsAnEvent`: `exchange()` takes any execution event, so that the
  argument is a balance of events. An event is sent once and is either in the
  inbox or spent: `AnswerInv` bounds the results a request made by the events of
  it that are gone from the inbox, through every truncation of the inbox by a
  broken or dropped stream.
* `FixWireInOrder` and `FixReportedOnce` follow from `FixInv`, which has a part for
  each place an order can be in. `WireInv`: the write queue is sorted by session
  and sequence number, lies below the next number to give and above the last
  frame begun; it survives the end of a session, after which the numbers of the
  next start at 1 but under a greater session. `LogonInv` adds that the first
  frame a session numbers is its Logon. `OrderInv` and `FrameInv`: an order
  waits once or has one frame, and the gateway has not seen it before the write
  of that frame is done; without this an order left in the queue by a broken
  session could be one already reported. `JobInv` and `InboxInv`: a pending
  order was not reported, and what is on its way is about an order the gateway
  knows. `WriteStep` is the lemma about `io_write()` behind every action that
  writes.

### Telemetry

`TelemetryProofs` proves both invariants of `Telemetry` in the run `services`, for
all lines, sizes of the regions, numbers of failed mappings, slots, marks and any
finite set of marking threads, from `TelemetryAssumption`.

* `TelemetryLinesAccounted`: `LineInv` says that the queue is the run of lines
  after those taken, and that what was taken and is no longer in the writer's
  hand is in the file, dropped or erased. `RegionInv` counts failures: where
  nothing is mapped the first attempt failed, and the writer's own too once that
  is over, so that two have failed whenever `main()` is inside `grow_mmap()`
  while the writer holds or has written a line. Since only the first line is
  logged by then, only that one can be erased. `FirstInv` is the case without a
  failure: the small region is the one in use and nobody maps another.
  `PlaceInv` ties the places of the two threads.
* `TelemetryMarksAccounted`: `CountInv` counts the threads at each step of
  `bench_mark()`, and `SlotInv` gives every claimed slot that is not yet written a
  claimer on its way, from which the bound on the unwritten slots follows by
  comparing cardinalities.

### Only model-checked

Every safety property of the passing runs has a theorem. The liveness properties
(`BacklogDrains`, the `...StopCompletes`, `ShutdownCompletes`, `LeadLagShutdown`,
`SubmittedIsSent`, `AcceptedIsServed`, `AcceptedIsWritten`, `QueueDrains`) are
checked by TLC alone: fairness needs ENABLED, which is beyond the prover.
`RECURSIVE` is used nowhere; inductions over data are avoided altogether.

## 5. Disagreements between the code and its documents

With a run that shows it:

* `ring_drop_oldest`: ring.h:17-18 and README.md:109 say "drop-oldest". A push
  onto a full ring makes head meet tail, which drops the **whole** backlog.
  `FrameQueue` states what the code does, and what it promises.
* `stale_ticks`: README.md:64-65 says stale data never pollutes the signal.
  `now_ms()` counts from process start on the steady clock while ticks carry the
  system clock, so that `now - ts` is negative and no tick is ever stale. The
  hour of the session is computed from the same clock. The unit test of the
  aggregator passes both times from one clock and does not see this.
* `oanda_queued`: oanda_executor.h:19-20 says that an enqueued order is posted by
  the worker. The worker lowers `wake_` and takes one order; a second one that
  was queued meanwhile waits for a later `execute()`.
* `ctrader_ok`: ctrader_executor.h:135 says an order awaits its own event, and
  :57 that ok is "accepted/executed"; any execution event answers it, so that a
  late fill makes the next order, even a rejected one, ok. `OkNeedsAnEvent`
  bounds the damage: no event is used twice, none of a rejected request counts.
* `backtest_position`: backtest_engine.cpp:243-244 says the result always
  accounts for the full position, execution_simulator.hpp:17-20 that a held
  position is closed; with two lots `open_position()` overwrites a held one.
  `OrdersAccounted` counts these as settled without a result.
* `telemetry_stop`: telemetry.h:106 says "drain + join"; `stop()` may hang for
  want of the mutex, and with it the end of `main()`.
* `ws_feed_stop`: bybit_ws.cpp:208 says that stop cancels the session and the
  guard; a `stop()` before `run()` has set `io_` does neither, and waits for the
  24 h guard timer.
* `lead_lag_refire`: the attempt loop of lead_lag.cpp breaks only on success, so
  that an order marked as possibly live (718-719) is posted again.

Also seen, without a run of their own:

* fix_executor.cpp:197 sends the Logon "before anything else", but frames left
  in the write queue of a broken session, with numbers of that session, go ahead
  of it. `WireInOrder` says so and claims the order of numbers only of the frames
  a session itself numbers.
* ctrader_executor.cpp:203-204 speaks of transport failures, but a rejection by
  the broker is retried as well (`RequestsInOrder` bounds it by two requests).
* aggregator.cpp:102-104 normalises weights "in case the operator configured
  non-summing weights"; with a sum of zero or less they are used as they are,
  and negative ones are always: the lead may be 0 or negative, and the decision
  is taken on it (`LeadWithinVenues` says when).
* BACKTESTING.md:109 says every valid signal is simulated. The simulator has one
  slot, a lot is taken per order, and neither a rejection nor an overwritten
  position gives its lot back: with the default of one lot the first rejection
  ends all trading of the replay. `orders_this_interval_` is never reset either,
  as `interval_start_ms_` stays 0.
* BACKTESTING.md:146 calls `fills` entry fills that opened a position; in the
  hold model the code counts the closes. `day_pnl_` takes the commission twice.
* execution_simulator.hpp:17-19 closes a position at the first *later* lag tick;
  the code may close it on the tick that filled it. backtest_engine.hpp:23 asks
  for a fresh lead; its age is never looked at. The drain after the last record
  fills at the last quote, however old.
* The slippage cap refuses no signal (proved, section 4).
* Telemetry: after failed attempts to map, the unsynchronised `grow_mmap()` calls
  may lose the first line or leave a length beyond the file, and writing there
  ends the process (`LinesAccounted`); the second, larger region is never used
  once the first was mapped; `log_file_` is never opened, so that without
  mapping, or on a full region, lines vanish; latency_arb/README.md:314 gives the
  mapping as on by default, config.h:119 has it off; telemetry.cpp:250-251 says
  slot i holds the (i+1)-th publish, but slot and sequence number come from two
  counters (`MarksAccounted` states what holds).
* lead_lag.cpp: a trade row is lost when its file does not open (264-267), which
  only stderr is told; `expires_after()` has no effect on the blocking calls of
  `fxcm_post()`; `fail("resolve", ec)` is called with its arguments swapped (as
  written this does not compile; the model takes the evident meaning).
* Mt5Bridge: an early return of `run()` leaves `running_` up; the failure of
  both back-ends is told to nobody; a failing DLL may have placed the order.
* FixClient: a session always dies of its peer timeout after 45 s as the socket
  is never read; the Logon and the first order carry the same sequence number;
  orders in a batch behind a failed send are lost; `main` starts it even when
  FIX is disabled.
* WsFeed: `stop()` uses `session_` and `io_` that the reader thread may have
  reset (the model may crash there); the back-off is never reset after a
  success; no keep-alive ping is sent, though README.md:57-58 announces one.

## 6. Abstractions

* Memory order: word copies are interleaved as if sequentially consistent; the
  acquire/release pairs of ring.h justify this for head and tail, the racing
  copies themselves are covered by `raced`.
* `close_socket()` of FixClient is one step, although two threads may be inside
  it; `SignalPath` takes from the readers only that one told to stop may end.
  The dispatcher's early return when a signal does not format (execution.cpp:72-73)
  is left out: five prices and a short reason are far from filling 320 bytes.
  Were it taken, the signal would go to FIX and not to the publisher.
* FixExecutor: a stream destroyed under a pending write completes it with an
  error; the synchronous Logout of `stop()` is part of ending the session;
  `start()` after `stop()` is not modelled. Framing is reduced to "half a frame
  was received". `written` counts writes that were started, also on a stream that
  is already dying, and `AcceptedIsWritten` is about those.
* A Bybit ping comes only after the last pong was written.
* Backtest: prices and P/L are integers, without rounding; the commission is
  that of the whole order, and the exit slippage and markup are one cost. Time
  stamps are positive and, within a stream, in order, as tick_binary.cpp:210
  takes for granted of a file.
* Telemetry: `enable_benchmark_ring()` has run before the threads mark. A sample
  is its sequence number; what `bench_stats()` computes from a sample is left
  out. `configure()` precedes the other calls. `write_line()`'s copy is one step:
  if `main()` stores `used = 0` amid it, the line is lost like a complete one.
* LeadLag: a log line that `write_log_line()` drops because the file of the day
  did not open is not told from a written one; trade rows are.
* Aggregator: weights are multiples of `1 / WeightUnit`, so that products and
  quotients are exact up to the one rounding of `round4()`.
* Mt5Bridge: frames may be lost on either side of the PUB/SUB socket at any
  time. A POD sent to the adviser counts as an order.
* Text (JSON, FIX tags, protobuf fields, HTTP bodies), logging in the engine,
  latency measurements and price formatting are left out.
* LeadLag: the pool has the one thread of `Config` in the run, so that the
  position limit never binds there; the proofs have any finite pool. The
  momentum rule is left open: any price may trigger a signal.

## 7. Plan

Done, in this order: `SpscRing` and its proofs, `StrategyLoop`, the executors,
`LeadLag`, `SignalPath` with `FixClient`, `WsFeed`, `Backtest` and its proofs,
`Telemetry`, `Mt5Bridge`, the slippage test of `Strategy`, the proofs of `LeadLag`,
`SignalPath`, `StrategyLoop`, `Mt5Bridge`, `OandaExecutor`,
`CTraderExecutor`, `FixExecutor`, `WsFeed` and `Telemetry`, the refinement of
`FrameQueue`, the steps of `grow_mmap()`, and the runs that refute what a
document says.

Not modelled, and why:

* `SignalGenerator` of lead_lag.cpp: `LeadLag` lets any price trigger a signal,
  which includes what the momentum rule would do.
* tick_binary.cpp: a sequential conversion of files and a memory-mapped reader;
  a wrong byte would not be seen at the level of these models.
* lead_lag_trader.py: the same design on one asyncio loop, without the threads
  that make lead_lag.cpp hard.
* Config, the probes, scripts, units and protobuf files: no state of their own.

Left to prove: the liveness properties, once fairness is within reach of the
prover.
