------------------------------ MODULE Strategy ------------------------------
(***************************************************************************)
(* src/strategy.cpp: the decision rule and the risk state, as operators on *)
(* the record of the Strategy object's private fields.  Prices and pips    *)
(* are integers in units of 0.0001.                                        *)
(***************************************************************************)
EXTENDS Integers

CONSTANTS
  LatencyBuffer,         \* latency_buffer_pips
  MinProfitMargin,       \* min_profit_margin_pips
  ThresholdFloor,        \* threshold_pips
  MaxOpenLots,           \* max_open_lots
  MaxDailyLoss,          \* max_daily_loss
  MaxOrdersPerInterval,  \* max_orders_per_interval
  IntervalSeconds,       \* interval_seconds
  MsPerSecond            \* scale of the model's clock, 1000 in the code

ASSUME StrategyAssumption ==
  /\ {LatencyBuffer, MinProfitMargin, ThresholdFloor, MaxOpenLots,
      MaxDailyLoss, MaxOrdersPerInterval, IntervalSeconds} \subseteq Nat
  /\ MsPerSecond \in Nat \ {0}

\* The values of the object's fields.
StrategyStates ==
  [openLots : Nat, dayPnl : Int, ordersThisInterval : Nat, intervalStart : Nat,
   lastSignal : Nat]

FreshStrategy ==
  [openLots |-> 0, dayPnl |-> 0, ordersThisInterval |-> 0,
   intervalStart |-> 0, lastSignal |-> 0]

DynamicThreshold(q) ==
  LET spread == IF q.spread > 0 THEN q.spread
                ELSE IF q.ask >= q.bid THEN q.ask - q.bid ELSE q.bid - q.ask
      t == spread + LatencyBuffer + MinProfitMargin
  IN  IF t >= ThresholdFloor THEN t ELSE ThresholdFloor

Evaluate(lead, q) ==
  IF lead > q.ask + DynamicThreshold(q) THEN "long"
  ELSE IF q.bid > lead + DynamicThreshold(q) THEN "short"
  ELSE "hold"

IntervalSpent(s, now) ==
  /\ s.intervalStart # 0
  /\ (now - s.intervalStart) \div MsPerSecond >= IntervalSeconds

CanTradeNow(s, now) ==
  /\ s.openLots < MaxOpenLots
  /\ s.dayPnl > -MaxDailyLoss
  /\ IntervalSpent(s, now) \/ s.ordersThisInterval < MaxOrdersPerInterval

\* Mutant: the cooldown is compared with seconds instead of milliseconds.
CooledDownInSeconds(s, now) ==
  s.lastSignal = 0 \/ now - s.lastSignal >= IntervalSeconds

\* lastSignal = 0 means that there was no signal yet.
CooledDown(s, now) ==
  s.lastSignal = 0 \/ now - s.lastSignal >= IntervalSeconds * MsPerSecond

\* The condition under which maybe_emit returns a signal.
MayEmit(s, decision, now) ==
  decision # "hold" /\ CanTradeNow(s, now) /\ CooledDown(s, now)

\* The signal maybe_emit builds.
SignalOf(decision, lead, q, now) ==
  [side |-> IF decision = "long" THEN "buy" ELSE "sell",
   edge |-> (IF decision = "long" THEN lead - q.ask ELSE q.bid - lead)
            - DynamicThreshold(q),
   ts   |-> now]

\* maybe_emit's only assignment.
AfterEmit(s, now) == [s EXCEPT !.lastSignal = now]

\* interval_start_ms_ is only ever given the value it has.
OnOrderPlaced(s) ==
  [s EXCEPT !.openLots = @ + 1, !.ordersThisInterval = @ + 1]

OnOrderClosed(s, pnl, commissions) ==
  [s EXCEPT !.dayPnl = @ + pnl - commissions,
            !.openLots = IF @ > 0 THEN @ - 1 ELSE @]

MaxSlippageBroker == 20000   \* CompileTime::kMaxSlippageBroker, 2.0

\* within_slippage_cap().
WithinSlippageCap(sig) ==
  \/ -MaxSlippageBroker <= sig.edge /\ sig.edge <= MaxSlippageBroker
  \/ sig.edge > 0
=============================================================================
