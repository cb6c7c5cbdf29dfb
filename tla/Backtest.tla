------------------------------ MODULE Backtest ------------------------------
(***************************************************************************)
(* The replay engine (src/backtest): run_impl() merges a recorded lead     *)
(* stream and a recorded lag stream by time, asks the production Strategy  *)
(* at every lag quote and puts an ExecutionSimulator before the book.      *)
(*                                                                         *)
(* One action consumes one record of a stream; what the records hold is    *)
(* chosen when they are read.  The streams are in chronological order.     *)
(* latency_decay_matrix() repeats run_impl() with other delays, so that    *)
(* the parameters of a run are one of a set.  Prices are integers.         *)
(***************************************************************************)
EXTENDS Strategy, Sequences

CONSTANTS
  Params,     \* ExecutionParams: records of the parameters below
  LeadMids,   \* mids of lead ticks
  Quotes,     \* [bid, ask] of lag ticks; nothing in a file is checked
  Gaps,       \* time from one record to the next
  Capital,    \* initial_capital
  MaxTicks    \* bound: records in both streams

ASSUME BacktestAssumption ==
  /\ Params \subseteq
       [model : {"instant", "hold"}, delay : Nat, slippage : Nat,
        slippageCap : Nat, markup : Nat, commission : Nat, spreadCap : Nat,
        holdTol : Nat, holdMax : Nat, exitCost : Nat]
  /\ LeadMids \subseteq Nat \ {0}
  /\ Quotes \subseteq [bid : Nat, ask : Nat]
  /\ Gaps \subseteq Nat
  /\ Capital \in Nat
  /\ MaxTicks \in Nat

VARIABLES
  params,   \* the ExecutionParams of this run
  clock,    \* time of the last record consumed
  lagTime,  \* time of the last lag record, 0 before the first
  ticks,    \* bound: records consumed, per stream
  done,     \* run_impl() has returned
  st        \* run_impl's locals and its result

replayVars == <<params, clock, lagTime, ticks, done, st>>

larger(a, b) == IF a >= b THEN a ELSE b

ReplayInit ==
  /\ params \in Params
  /\ clock = 1 /\ lagTime = 0
  /\ ticks = [lead |-> 0, lag |-> 0]
  /\ done = FALSE
  /\ st = [lead |-> 0, bid |-> 0, ask |-> 0, strategy |-> FreshStrategy,
           pending |-> <<>>, held |-> <<>>,
           signals |-> 0, fills |-> 0, rejections |-> 0, trades |-> <<>>,
           equity |-> Capital, peak |-> Capital, drawdown |-> 0,
           grossP |-> 0, grossL |-> 0,
           lost |-> 0,       \* history: held positions overwritten
           quotedAt |-> 0]   \* history: time of the quote in force

-----------------------------------------------------------------------------
(* ExecutionSimulator.                                                     *)

\* submit() refuses a second order and an unusable quote.
CanSubmit(s) ==
  s.pending = <<>> /\ s.bid > 0 /\ s.ask > 0 /\ s.ask >= s.bid

Order(side, now) ==
  [side |-> side, signalTs |-> now, due |-> now + params.delay]

FillPrice(side, s) ==
  IF side = "buy" THEN s.ask + params.markup + params.slippage
                  ELSE s.bid - params.markup - params.slippage

\* at_fill()'s three rejections.
Rejects(side, s) ==
  \/ s.ask - s.bid > params.spreadCap
  \/ params.slippage > params.slippageCap
  \/ FillPrice(side, s) <= 0

Fill(o, s, now) ==
  [side |-> o.side, signalTs |-> o.signalTs, fillTs |-> now,
   price |-> FillPrice(o.side, s), quotedAt |-> s.quotedAt]

-----------------------------------------------------------------------------
(* The book-keeping of run_impl().                                         *)

\* record_trade(): the equity of the trade is already booked.
RecordTrade(s, t) ==
  [s EXCEPT !.trades = Append(@, t),
            !.peak = larger(@, s.equity),
            !.drawdown = larger(@, larger(s.peak, s.equity) - s.equity)]

\* Mutant: a losing trade is not added to the gross loss.
RealiseGains(s, f, exit, now) ==
  LET raw == IF f.side = "buy" THEN exit - f.price ELSE f.price - exit
      pnl == raw - params.commission
      booked == [s EXCEPT !.equity = @ + pnl, !.fills = @ + 1,
                          !.grossP = IF pnl >= 0 THEN @ + pnl ELSE @,
                          !.strategy = OnOrderClosed(@, pnl, params.commission)]
  IN  RecordTrade(booked, [signalTs |-> f.signalTs, fillTs |-> now,
                           quotedAt |-> f.quotedAt, pnl |-> pnl,
                           equityAfter |-> booked.equity])

\* A round trip is realised: both P/L models book it in the same way.
Realise(s, f, exit, now) ==
  LET raw == IF f.side = "buy" THEN exit - f.price ELSE f.price - exit
      pnl == raw - params.commission
      booked == [s EXCEPT !.equity = @ + pnl, !.fills = @ + 1,
                          !.grossP = IF pnl >= 0 THEN @ + pnl ELSE @,
                          !.grossL = IF pnl >= 0 THEN @ ELSE @ - pnl,
                          !.strategy = OnOrderClosed(@, pnl, params.commission)]
  IN  RecordTrade(booked, [signalTs |-> f.signalTs, fillTs |-> now,
                           quotedAt |-> f.quotedAt, pnl |-> pnl,
                           equityAfter |-> booked.equity])

Converged(s) ==
  LET gap == 2 * s.lead - (s.bid + s.ask)
  IN  -2 * params.holdTol <= gap /\ gap <= 2 * params.holdTol

Expired(f, now) ==
  params.holdMax > 0 /\ now - f.fillTs >= params.holdMax

Exit(f, bid, ask) ==
  IF f.side = "buy" THEN bid - params.exitCost ELSE ask + params.exitCost

CloseAt(s, bid, ask, now) ==
  LET f == s.held[1]
  IN  [Realise(s, f, Exit(f, bid, ask), now) EXCEPT !.held = <<>>]

\* close_open() on a tick.
CloseOpen(s, now) ==
  IF s.held # <<>> /\ (Expired(s.held[1], now) \/ Converged(s))
  THEN CloseAt(s, s.bid, s.ask, now) ELSE s

\* close_open(force) at the last quote, or at the entry price without one.
ForceClose(s, now) ==
  IF s.held = <<>> THEN s
  ELSE IF s.bid <= 0 \/ s.ask <= 0
       THEN CloseAt(s, s.held[1].price, s.held[1].price, now)
       ELSE CloseAt(s, s.bid, s.ask, now)

\* open_position() overwrites the position that is held.
OpenPosition(s, f) ==
  [s EXCEPT !.held = <<f>>, !.lost = @ + Len(s.held)]

Due(s, now) == s.pending # <<>> /\ now >= s.pending[1].due

\* Mutant: a rejected order stays pending.
HandleFillKeeps(s, now) ==
  IF ~ Due(s, now) THEN s
  ELSE LET o == s.pending[1]
           f == Fill(o, s, now)
           taken == [s EXCEPT !.pending = <<>>]
       IN  IF Rejects(o.side, s)
           THEN [s EXCEPT !.rejections = @ + 1]
           ELSE IF params.model = "hold" THEN OpenPosition(taken, f)
           ELSE Realise(taken, f, IF f.side = "buy" THEN s.bid ELSE s.ask, now)

\* handle_fill(): a rejection does not give the lot back.
HandleFill(s, now) ==
  IF ~ Due(s, now) THEN s
  ELSE LET o == s.pending[1]
           f == Fill(o, s, now)
           taken == [s EXCEPT !.pending = <<>>]
       IN  IF Rejects(o.side, s)
           THEN [taken EXCEPT !.rejections = @ + 1]
           ELSE IF params.model = "hold" THEN OpenPosition(taken, f)
           ELSE Realise(taken, f, IF f.side = "buy" THEN s.bid ELSE s.ask, now)

\* maybe_emit() counts a signal whether or not submit() takes it.
Signal(s, now) ==
  LET q == [bid |-> s.bid, ask |-> s.ask, spread |-> s.ask - s.bid]
      d == Evaluate(s.lead, q)
      emitted == [s EXCEPT !.strategy = AfterEmit(@, now)]
      side == SignalOf(d, s.lead, q, now).side
  IN  IF ~ (s.lead > 0 /\ s.bid > 0 /\ s.ask > 0 /\ MayEmit(s.strategy, d, now))
      THEN s
      ELSE IF ~ CanSubmit(s) THEN emitted
      ELSE [emitted EXCEPT !.pending = <<Order(side, now)>>,
                           !.signals = @ + 1,
                           !.strategy = OnOrderPlaced(@)]

-----------------------------------------------------------------------------
(* The merge: a lead record goes before a lag record of the same time.     *)

Consume(stream, t) ==
  /\ ~ done /\ ticks.lead + ticks.lag < MaxTicks
  /\ stream = "lead" => t > lagTime
  /\ clock' = t
  /\ lagTime' = IF stream = "lag" THEN t ELSE lagTime
  /\ ticks' = [ticks EXCEPT ![stream] = @ + 1]
  /\ UNCHANGED <<params, done>>

\* A record without the valid flag is passed over.
SkipTick(stream, t) == Consume(stream, t) /\ UNCHANGED st

LeadTick(t, mid) ==
  /\ Consume("lead", t)
  /\ st' = [st EXCEPT !.lead = mid]

\* Mutant: the pending order is filled before the new quote is taken.
LagTickFillsFirst(t, q) ==
  /\ Consume("lag", t)
  /\ LET filled == HandleFill(st, t)
         quoted == [filled EXCEPT !.bid = q.bid, !.ask = q.ask, !.quotedAt = t]
     IN  st' = Signal(CloseOpen(quoted, t), t)

LagTick(t, q) ==
  /\ Consume("lag", t)
  /\ LET quoted == [st EXCEPT !.bid = q.bid, !.ask = q.ask, !.quotedAt = t]
     IN  st' = Signal(CloseOpen(HandleFill(quoted, t), t), t)

\* Both streams are read, neither was empty: drain, close, return.
EndOfStreams ==
  /\ ~ done /\ ticks.lead > 0 /\ ticks.lag > 0
  /\ done' = TRUE
  /\ LET end == clock + params.delay
     IN  st' = ForceClose(HandleFill(st, end + 1), end + 2)
  /\ UNCHANGED <<params, clock, lagTime, ticks>>

ReplayNext ==
  \/ \E gap \in Gaps :
       \/ \E stream \in {"lead", "lag"} : SkipTick(stream, clock + gap)
       \/ \E mid \in LeadMids : LeadTick(clock + gap, mid)
       \/ \E q \in Quotes : LagTick(clock + gap, q)
  \/ EndOfStreams

ReplaySpec == ReplayInit /\ [][ReplayNext]_replayVars

-----------------------------------------------------------------------------
Fills == [side : {"buy", "sell"}, signalTs : Nat, fillTs : Nat, price : Int,
          quotedAt : Nat]
Orders == [side : {"buy", "sell"}, signalTs : Nat, due : Nat]
Trades == [signalTs : Nat, fillTs : Nat, quotedAt : Nat, pnl : Int,
           equityAfter : Int]

\* The values of st.
States ==
  [lead : Nat, bid : Nat, ask : Nat,
   strategy : StrategyStates, pending : Seq(Orders), held : Seq(Fills),
   signals : Nat, fills : Nat, rejections : Nat, trades : Seq(Trades),
   equity : Int, peak : Int, drawdown : Nat, grossP : Nat, grossL : Nat,
   lost : Nat, quotedAt : Nat]

ReplayTypeOK ==
  /\ params \in Params
  /\ clock \in Nat /\ lagTime \in 0 .. clock
  /\ ticks \in [{"lead", "lag"} -> Nat]
  /\ done \in BOOLEAN
  /\ st \in States
  /\ Len(st.pending) <= 1 /\ Len(st.held) <= 1

Settled(s) == s.fills + s.rejections + s.lost

(* backtest_engine.cpp:184-186, 226-249.  No signal the simulator took     *)
(* goes missing: each one is pending, held or settled, over delays,        *)
(* rejections and the drain, and none is left open when run_impl()         *)
(* returns.  The strategy never counts fewer lots than are open, so that   *)
(* its limit binds.                                                        *)
OrdersAccounted ==
  /\ ReplayTypeOK
  /\ st.signals = Len(st.pending) + Len(st.held) + Settled(st)
  /\ st.strategy.openLots >= Len(st.pending) + Len(st.held)
  /\ done => st.pending = <<>> /\ st.held = <<>>

(* backtest_engine.cpp:243-244, "so the result always accounts for the     *)
(* full position": when run_impl() returns, every order that was not       *)
(* rejected has been realised.                                             *)
FullPositionAccounted == done => st.signals = st.fills + st.rejections

\* The equity after the i-th trade.
Curve(s, i) == IF i = 0 THEN Capital ELSE s.trades[i].equityAfter

Booked(s) ==
  /\ s.fills = Len(s.trades)
  /\ \A i \in 1 .. Len(s.trades) :
       Curve(s, i) - s.trades[i].pnl = Curve(s, i - 1)
  /\ s.equity = Curve(s, Len(s.trades))
  /\ s.equity - Capital = s.grossP - s.grossL
  /\ s.strategy.dayPnl = s.equity - Capital - params.commission * s.fills

PeakToTrough(s) ==
  LET points == 0 .. Len(s.trades)
  IN  /\ \A j \in points : \A i \in 0 .. j :
           Curve(s, i) - Curve(s, j) <= s.drawdown
      /\ \E j \in points : \E i \in 0 .. j :
           Curve(s, i) - Curve(s, j) = s.drawdown

(* backtest_engine.cpp:83-92, 142-149, 177-182.  The result's figures      *)
(* agree: one trade per fill, an equity curve without gaps that ends at    *)
(* the equity, gross profit less gross loss, a daily result from which the *)
(* commission of every trade was taken twice (its P/L is already net), and *)
(* a max_drawdown, kept trade by trade, that is the largest fall from a    *)
(* point of the curve to a later one (backtest_engine.hpp:51               *)
(* "peak-to-trough equity").                                               *)
EquityAccounted == Booked(st) /\ PeakToTrough(st)

\* f rests on a quote of its due time or, after the last record, on an
\* older one.
OnTime(f, now) ==
  /\ f.fillTs >= f.signalTs + params.delay
  /\ f.quotedAt >= f.signalTs + params.delay \/ f.fillTs > now

(* execution_simulator.hpp:28-36.  No look-ahead: an order is filled no    *)
(* sooner than its delay after the signal, at a quote of that time.  Only  *)
(* what is filled after the last record (the drain) may rest on an older   *)
(* quote.                                                                  *)
FillsAfterDelay ==
  /\ \A i \in DOMAIN st.trades : OnTime(st.trades[i], clock)
  /\ \A i \in DOMAIN st.held : OnTime(st.held[i], clock)
=============================================================================
