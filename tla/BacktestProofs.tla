--------------------------- MODULE BacktestProofs ---------------------------
(***************************************************************************)
(* Proofs about the replay engine, for every set of parameters, ticks and  *)
(* every length of the recordings.  run_impl() is a chain of functions on  *)
(* its locals; each lemma follows one of them.                             *)
(***************************************************************************)
EXTENDS Backtest, TLAPS

(* peak is the top of the equity curve, and max_drawdown the largest fall. *)
Drawn(s) ==
  /\ \A i \in 0 .. Len(s.trades) : Curve(s, i) <= s.peak
  /\ \E i \in 0 .. Len(s.trades) : Curve(s, i) = s.peak
  /\ PeakToTrough(s)

(* The lots the strategy counts are the signals that were not realised: a  *)
(* rejected or overwritten one keeps its lot.                              *)
Balanced(s) ==
  /\ s.signals = Len(s.pending) + Len(s.held) + s.fills + s.rejections + s.lost
  /\ s.strategy.openLots = s.signals - s.fills
  /\ s.strategy.ordersThisInterval = s.signals

(* What holds of run_impl()'s locals between any two of its calls.         *)
Accounted(s) ==
  /\ s \in States
  /\ Len(s.pending) <= 1 /\ Len(s.held) <= 1
  /\ Balanced(s) /\ Booked(s) /\ Drawn(s)

(* on_order_closed() returns a lot, if there is one, and books the result. *)
LEMMA OrderClosed ==
  ASSUME NEW s \in StrategyStates, NEW pnl \in Int, NEW c \in Nat
  PROVE  LET r == OnOrderClosed(s, pnl, c)
         IN  /\ r \in StrategyStates
             /\ r.openLots = IF s.openLots > 0 THEN s.openLots - 1 ELSE s.openLots
             /\ r.ordersThisInterval = s.ordersThisInterval
             /\ r.dayPnl = s.dayPnl + pnl - c
<1>1. s.openLots \in Nat /\ s.dayPnl \in Int
  BY DEF StrategyStates
<1>2. s.dayPnl + pnl - c \in Int
  BY <1>1
<1>3. (IF s.openLots > 0 THEN s.openLots - 1 ELSE s.openLots) \in Nat
  BY <1>1
<1>4. QED
  BY <1>2, <1>3 DEF OnOrderClosed, StrategyStates

(* on_order_placed() takes a lot and counts the order.                     *)
LEMMA OrderPlaced ==
  ASSUME NEW s \in StrategyStates
  PROVE  LET r == OnOrderPlaced(s)
         IN  /\ r \in StrategyStates
             /\ r.openLots = s.openLots + 1
             /\ r.ordersThisInterval = s.ordersThisInterval + 1
             /\ r.dayPnl = s.dayPnl
<1>1. s.openLots \in Nat /\ s.ordersThisInterval \in Nat
  BY DEF StrategyStates
<1>2. s.openLots + 1 \in Nat /\ s.ordersThisInterval + 1 \in Nat
  BY <1>1
<1>3. OnOrderPlaced(s) = [s EXCEPT !.openLots = s.openLots + 1,
                                   !.ordersThisInterval =
                                     s.ordersThisInterval + 1]
  BY DEF OnOrderPlaced, StrategyStates
<1>4. QED
  BY <1>2, <1>3 DEF StrategyStates

(* The fields that a realised round trip assigns keep their types.         *)
LEMMA BookedInStates ==
  ASSUME NEW s \in States, NEW equity \in Int, NEW fills \in Nat,
         NEW grossP \in Nat, NEW grossL \in Nat,
         NEW strategy \in StrategyStates, NEW trades \in Seq(Trades),
         NEW peak \in Int, NEW drawdown \in Nat
  PROVE  [s EXCEPT !.equity = equity, !.fills = fills, !.grossP = grossP,
                   !.grossL = grossL, !.strategy = strategy,
                   !.trades = trades, !.peak = peak,
                   !.drawdown = drawdown] \in States
BY DEF States

(* A realised round trip: what record_trade() and on_order_closed() leave. *)
LEMMA RealiseFields ==
  ASSUME params \in Params, NEW s \in States, NEW f \in Fills,
         NEW exit \in Int, NEW now \in Nat
  PROVE  LET r == Realise(s, f, exit, now)
             pnl == (IF f.side = "buy" THEN exit - f.price ELSE f.price - exit)
                    - params.commission
             t == [signalTs |-> f.signalTs, fillTs |-> now,
                   quotedAt |-> f.quotedAt, pnl |-> pnl,
                   equityAfter |-> s.equity + pnl]
         IN  /\ r \in States
             /\ pnl \in Int /\ t \in Trades
             /\ r.pending = s.pending /\ r.held = s.held
             /\ r.signals = s.signals /\ r.rejections = s.rejections
             /\ r.lost = s.lost
             /\ r.trades = Append(s.trades, t)
             /\ r.fills = s.fills + 1
             /\ r.equity = s.equity + pnl
             /\ r.peak = larger(s.peak, s.equity + pnl)
             /\ r.drawdown = larger(s.drawdown, r.peak - r.equity)
             /\ r.grossP - r.grossL = s.grossP - s.grossL + pnl
             /\ r.strategy.openLots =
                  IF s.strategy.openLots > 0 THEN s.strategy.openLots - 1
                  ELSE s.strategy.openLots
             /\ r.strategy.ordersThisInterval = s.strategy.ordersThisInterval
             /\ r.strategy.dayPnl = s.strategy.dayPnl + pnl - params.commission
<1> DEFINE pnl == (IF f.side = "buy" THEN exit - f.price ELSE f.price - exit)
                  - params.commission
           t == [signalTs |-> f.signalTs, fillTs |-> now,
                 quotedAt |-> f.quotedAt, pnl |-> pnl,
                 equityAfter |-> s.equity + pnl]
           strategy == OnOrderClosed(s.strategy, pnl, params.commission)
           peak == larger(s.peak, s.equity + pnl)
           equity == s.equity + pnl
           fills == s.fills + 1
           grossP == IF pnl >= 0 THEN s.grossP + pnl ELSE s.grossP
           grossL == IF pnl >= 0 THEN s.grossL ELSE s.grossL - pnl
           trades == Append(s.trades, t)
           drawdown == larger(s.drawdown, peak - equity)
           r == [s EXCEPT !.equity = equity, !.fills = fills,
                          !.grossP = grossP, !.grossL = grossL,
                          !.strategy = strategy, !.trades = trades,
                          !.peak = peak, !.drawdown = drawdown]
<1>0. /\ f.signalTs \in Nat /\ f.quotedAt \in Nat /\ f.price \in Int
      /\ f.side \in {"buy", "sell"}
  BY DEF Fills
<1>1. params.commission \in Nat /\ pnl \in Int
  BY <1>0, BacktestAssumption
<1>s. /\ s.equity \in Int /\ s.peak \in Int /\ s.drawdown \in Nat
      /\ s.grossP \in Nat /\ s.grossL \in Nat /\ s.fills \in Nat
      /\ s.trades \in Seq(Trades)
      /\ s.strategy \in StrategyStates
  BY DEF States
<1>4. Realise(s, f, exit, now) = r
  BY DEF Realise, RecordTrade, States
<1> HIDE DEF pnl
<1>2. t \in Trades
  <2>1. s.equity + pnl \in Int
    BY <1>1, <1>s
  <2>2. QED
    BY <1>0, <1>1, <2>1 DEF Trades
<1>3. /\ strategy \in StrategyStates
      /\ strategy.openLots = IF s.strategy.openLots > 0
                             THEN s.strategy.openLots - 1
                             ELSE s.strategy.openLots
      /\ strategy.ordersThisInterval = s.strategy.ordersThisInterval
      /\ strategy.dayPnl = s.strategy.dayPnl + pnl - params.commission
  BY <1>1, <1>s, OrderClosed
<1> HIDE DEF t
<1>5. trades \in Seq(Trades)
  BY <1>2, <1>s
<1>6. peak \in Int /\ peak >= s.equity + pnl
  BY <1>1, <1>s DEF larger
<1> HIDE DEF strategy, peak
<1>7. drawdown \in Nat
  BY <1>1, <1>6, <1>s DEF larger
<1>8. equity \in Int /\ fills \in Nat /\ grossP \in Nat /\ grossL \in Nat
  BY <1>1, <1>s
<1>9. grossP - grossL = s.grossP - s.grossL + pnl
  BY <1>1, <1>s
<1> HIDE DEF equity, fills, grossP, grossL, trades, drawdown
<1>10. r \in States
  BY <1>3, <1>5, <1>6, <1>7, <1>8, BookedInStates
<1>11. /\ r.pending = s.pending /\ r.held = s.held
       /\ r.signals = s.signals /\ r.rejections = s.rejections
       /\ r.lost = s.lost
       /\ r.trades = trades /\ r.fills = fills /\ r.equity = equity
       /\ r.peak = peak /\ r.drawdown = drawdown /\ r.strategy = strategy
       /\ r.grossP = grossP /\ r.grossL = grossL
  BY DEF States
<1> HIDE DEF r
<1>12. QED
  BY <1>1, <1>2, <1>3, <1>4, <1>9, <1>10, <1>11
     DEF pnl, t, equity, fills, trades, peak, drawdown

(* The curve goes on from the old one.                                     *)
LEMMA CurveExtends ==
  ASSUME NEW s, NEW r, s.trades \in Seq(Trades), NEW t \in Trades,
         r.trades = Append(s.trades, t)
  PROVE  /\ Len(r.trades) = Len(s.trades) + 1 /\ Len(s.trades) \in Nat
         /\ \A i \in 0 .. Len(s.trades) :
              Curve(r, i) = Curve(s, i) /\ Curve(r, i) \in Int
         /\ \A i \in 1 .. Len(s.trades) : r.trades[i] = s.trades[i]
         /\ r.trades[Len(r.trades)] = t
         /\ Curve(r, Len(r.trades)) = t.equityAfter
<1>1. \A i \in 1 .. Len(s.trades) :
        s.trades[i] \in Trades /\ s.trades[i].equityAfter \in Int
  <2>1. \A i \in 1 .. Len(s.trades) : s.trades[i] \in Trades
    OBVIOUS
  <2>2. \A x \in Trades : x.equityAfter \in Int
    BY DEF Trades
  <2>3. QED
    BY <2>1, <2>2
<1>2. Capital \in Int
  BY BacktestAssumption
<1>3. QED
  BY <1>1, <1>2 DEF Curve

(* A realised round trip keeps the books.                                  *)
LEMMA RealiseBooked ==
  ASSUME params \in Params, NEW s \in States, Booked(s), Drawn(s),
         NEW f \in Fills, NEW exit \in Int, NEW now \in Nat
  PROVE  Booked(Realise(s, f, exit, now)) /\ Drawn(Realise(s, f, exit, now))
<1> DEFINE r == Realise(s, f, exit, now)
           n == Len(s.trades)
           pnl == (IF f.side = "buy" THEN exit - f.price ELSE f.price - exit)
                  - params.commission
           t == [signalTs |-> f.signalTs, fillTs |-> now,
                 quotedAt |-> f.quotedAt, pnl |-> pnl,
                 equityAfter |-> s.equity + pnl]
<1>r. /\ pnl \in Int /\ t \in Trades
      /\ r.trades = Append(s.trades, t)
      /\ r.fills = s.fills + 1
      /\ r.equity = s.equity + pnl
      /\ r.peak = larger(s.peak, s.equity + pnl)
      /\ r.drawdown = larger(s.drawdown, r.peak - r.equity)
      /\ r.grossP - r.grossL = s.grossP - s.grossL + pnl
      /\ r.strategy.dayPnl = s.strategy.dayPnl + pnl - params.commission
  <2> HIDE DEF r
  <2>1. QED
    BY RealiseFields DEF r
<1>t. t.pnl = pnl /\ t.equityAfter = s.equity + pnl
  OBVIOUS
<1> HIDE DEF r, pnl, t, n
<1>s. /\ s.trades \in Seq(Trades) /\ s.equity \in Int /\ s.peak \in Int
      /\ s.drawdown \in Nat /\ s.fills \in Nat /\ s.grossP \in Nat
      /\ s.grossL \in Nat /\ s.strategy.dayPnl \in Int
      /\ params.commission \in Nat /\ Capital \in Nat
  BY BacktestAssumption DEF States, StrategyStates
<1>e. s.equity \in Int /\ r.equity = s.equity + pnl /\ r.equity \in Int
  BY <1>r, <1>s
<1>p. s.peak \in Int /\ r.peak = larger(s.peak, r.equity)
  BY <1>r, <1>s
<1>d. s.drawdown \in Nat /\ r.drawdown = larger(s.drawdown, r.peak - r.equity)
  BY <1>r, <1>s
<1>1. /\ Len(r.trades) = n + 1 /\ n \in Nat
      /\ \A i \in 0 .. n : Curve(r, i) = Curve(s, i) /\ Curve(r, i) \in Int
      /\ \A i \in 1 .. n : r.trades[i] = s.trades[i]
      /\ r.trades[n + 1] = t
      /\ Curve(r, n + 1) = r.equity
  <2>1. s.trades \in Seq(Trades) /\ t \in Trades /\ r.trades = Append(s.trades, t)
        /\ t.equityAfter = r.equity
    BY <1>s, <1>r, <1>t
  <2>2. /\ Len(r.trades) = n + 1 /\ n \in Nat
        /\ \A i \in 0 .. n : Curve(r, i) = Curve(s, i) /\ Curve(r, i) \in Int
        /\ \A i \in 1 .. n : r.trades[i] = s.trades[i]
        /\ r.trades[Len(r.trades)] = t
        /\ Curve(r, Len(r.trades)) = t.equityAfter
    BY <2>1, CurveExtends DEF n
  <2>3. QED
    BY <2>1, <2>2
<1>2. Booked(r)
  <2>1. \A i \in 1 .. n + 1 : Curve(r, i) - r.trades[i].pnl = Curve(r, i - 1)
    <3> SUFFICES ASSUME NEW i \in 1 .. n + 1
                 PROVE  Curve(r, i) - r.trades[i].pnl = Curve(r, i - 1)
      OBVIOUS
    <3>1. CASE i = n + 1
      <4>1. Curve(s, n) = s.equity
        BY DEF Booked, n
      <4>2. Curve(r, n) = s.equity
        BY <4>1, <1>1
      <4>3. i - 1 = n /\ Curve(r, i) = r.equity /\ r.trades[i].pnl = pnl
        BY <3>1, <1>1, <1>t
      <4>4. r.equity - pnl = s.equity
        BY <1>e, <1>r
      <4>5. QED
        BY <4>2, <4>3, <4>4
    <3>2. CASE i # n + 1
      <4>1. i \in 1 .. n /\ i \in 0 .. n /\ i - 1 \in 0 .. n
        BY <3>2, <1>1
      <4>2. Curve(s, i) - s.trades[i].pnl = Curve(s, i - 1)
        BY <4>1 DEF Booked, n
      <4>3. QED
        BY <4>1, <4>2, <1>1
    <3>3. QED
      BY <3>1, <3>2
  <2>2. r.equity - Capital = r.grossP - r.grossL
    <3>1. s.equity - Capital = s.grossP - s.grossL
      BY DEF Booked
    <3>2. /\ r.grossP - r.grossL = s.grossP - s.grossL + pnl
          /\ r.equity = s.equity + pnl
          /\ pnl \in Int /\ s.equity \in Int /\ Capital \in Nat
      BY <1>r, <1>s
    <3>3. QED
      BY <3>1, <3>2
  <2>3. r.strategy.dayPnl = r.equity - Capital - params.commission * r.fills
    <3>1. s.strategy.dayPnl = s.equity - Capital - params.commission * s.fills
      BY DEF Booked
    <3>2. /\ r.strategy.dayPnl = s.strategy.dayPnl + pnl - params.commission
          /\ r.fills = s.fills + 1 /\ pnl \in Int /\ Capital \in Nat
          /\ params.commission \in Nat /\ s.fills \in Nat
      BY <1>r, <1>s
    <3>3. params.commission * (s.fills + 1)
            = params.commission * s.fills + params.commission
      BY <3>2
    <3>4. params.commission * s.fills \in Nat
      BY <3>2
    <3>5. QED
      BY <3>1, <3>2, <3>3, <3>4, <1>e
  <2>4. r.fills = Len(r.trades)
    <3>1. s.fills = n
      BY DEF Booked, n
    <3>2. r.fills = s.fills + 1
      BY <1>r
    <3>3. QED
      BY <3>1, <3>2, <1>1
  <2>5. r.equity = Curve(r, Len(r.trades))
    BY <1>1
  <2>6. QED
    BY <2>1, <2>2, <2>3, <2>4, <2>5, <1>1 DEF Booked
<1>3. r.peak \in Int /\ r.peak >= s.peak /\ r.peak >= r.equity
      /\ (r.peak = s.peak \/ r.peak = r.equity)
  BY <1>e, <1>p DEF larger
<1>4. \A i \in 0 .. n : Curve(s, i) <= s.peak
  BY DEF Drawn, n
<1>5. \A i \in 0 .. n + 1 : Curve(r, i) <= r.peak
  <2> SUFFICES ASSUME NEW i \in 0 .. n + 1
               PROVE  Curve(r, i) <= r.peak
    OBVIOUS
  <2>1. CASE i = n + 1
    BY <2>1, <1>1, <1>3
  <2>2. CASE i # n + 1
    <3>1. i \in 0 .. n
      BY <2>2, <1>1
    <3>2. Curve(r, i) \in Int /\ Curve(r, i) <= s.peak
      BY <3>1, <1>1, <1>4
    <3>3. QED
      BY <3>2, <1>3, <1>p
  <2>3. QED
    BY <2>1, <2>2
<1>6. \E i \in 0 .. n + 1 : Curve(r, i) = r.peak
  <2>1. PICK i \in 0 .. n : Curve(s, i) = s.peak
    BY DEF Drawn, n
  <2>2. i \in 0 .. n + 1 /\ Curve(r, i) = s.peak
    BY <2>1, <1>1
  <2>3. n + 1 \in 0 .. n + 1 /\ Curve(r, n + 1) = r.equity
    BY <1>1
  <2>4. QED
    BY <2>2, <2>3, <1>3
<1>7. r.drawdown \in Int /\ r.drawdown >= s.drawdown
      /\ r.drawdown >= r.peak - r.equity
      /\ (r.drawdown = s.drawdown \/ r.drawdown = r.peak - r.equity)
  BY <1>3, <1>d, <1>e DEF larger
<1>8. \A j \in 0 .. n + 1 : \A i \in 0 .. j :
        Curve(r, i) - Curve(r, j) <= r.drawdown
  <2> SUFFICES ASSUME NEW j \in 0 .. n + 1, NEW i \in 0 .. j
               PROVE  Curve(r, i) - Curve(r, j) <= r.drawdown
    OBVIOUS
  <2>1. i \in 0 .. n + 1
    BY <1>1
  <2>2. Curve(r, i) \in Int /\ Curve(r, i) <= r.peak
    <3>1. CASE i = n + 1
      BY <3>1, <1>1, <1>3, <1>e
    <3>2. CASE i # n + 1
      BY <3>2, <2>1, <1>1, <1>5
    <3>3. QED
      BY <3>1, <3>2
  <2>3. CASE j = n + 1
    <3>1. Curve(r, j) = r.equity
      BY <2>3, <1>1
    <3>2. QED
      BY <3>1, <2>2, <1>3, <1>7, <1>e
  <2>4. CASE j # n + 1
    <3>1. j \in 0 .. n /\ i \in 0 .. n
      BY <2>4, <1>1
    <3>2. Curve(s, i) - Curve(s, j) <= s.drawdown
      BY <3>1 DEF Drawn, PeakToTrough, n
    <3>3. /\ Curve(r, i) = Curve(s, i) /\ Curve(r, i) \in Int
          /\ Curve(r, j) = Curve(s, j) /\ Curve(r, j) \in Int
      BY <3>1, <1>1
    <3>4. QED
      BY <3>2, <3>3, <1>7, <1>d
  <2>5. QED
    BY <2>3, <2>4
<1>9. \E j \in 0 .. n + 1 : \E i \in 0 .. j :
        Curve(r, i) - Curve(r, j) = r.drawdown
  <2>1. CASE r.drawdown = s.drawdown
    <3>1. PICK j \in 0 .. n : \E i \in 0 .. j :
            Curve(s, i) - Curve(s, j) = s.drawdown
      BY DEF Drawn, PeakToTrough, n
    <3>2. PICK i \in 0 .. j : Curve(s, i) - Curve(s, j) = s.drawdown
      BY <3>1
    <3>3. i \in 0 .. n /\ j \in 0 .. n + 1
      BY <1>1
    <3>4. Curve(r, i) = Curve(s, i) /\ Curve(r, j) = Curve(s, j)
      BY <3>3, <1>1
    <3>5. QED
      BY <2>1, <3>2, <3>3, <3>4
  <2>2. CASE r.drawdown = r.peak - r.equity
    <3>1. PICK i \in 0 .. n + 1 : Curve(r, i) = r.peak
      BY <1>6
    <3>2. n + 1 \in 0 .. n + 1 /\ Curve(r, n + 1) = r.equity
      BY <1>1
    <3>3. QED
      BY <2>2, <3>1, <3>2
  <2>3. QED
    BY <2>1, <2>2, <1>7
<1>10. Drawn(r)
  BY <1>1, <1>5, <1>6, <1>8, <1>9 DEF Drawn, PeakToTrough
<1>11. QED
  BY <1>2, <1>10 DEF r

(* Whatever leaves the result's figures alone keeps the books.             *)
LEMMA SameBooks ==
  ASSUME NEW s, NEW r, Booked(s), Drawn(s),
         r.trades = s.trades, r.fills = s.fills, r.equity = s.equity,
         r.grossP = s.grossP, r.grossL = s.grossL, r.peak = s.peak,
         r.drawdown = s.drawdown,
         r.strategy.dayPnl = s.strategy.dayPnl
  PROVE  Booked(r) /\ Drawn(r)
BY DEF Booked, Drawn, PeakToTrough, Curve

(* A sequence of at most one element, and the element.                     *)
LEMMA AtMostOne ==
  ASSUME NEW S, NEW q \in Seq(S), Len(q) <= 1
  PROVE  Len(q) \in {0, 1} /\ (q # <<>> => Len(q) = 1 /\ q[1] \in S)
<1>1. Len(q) \in Nat
  OBVIOUS
<1>2. Len(q) = 0 => q = <<>>
  OBVIOUS
<1>3. Len(q) = 1 => q[1] \in S
  OBVIOUS
<1>4. QED
  BY <1>1, <1>2, <1>3

(* A fill has a price and the time of its order.                           *)
LEMMA FillInFills ==
  ASSUME params \in Params, NEW s \in States, NEW o \in Orders, NEW now \in Nat
  PROVE  Fill(o, s, now) \in Fills
<1>1. s.bid \in Nat /\ s.ask \in Nat /\ s.quotedAt \in Nat
  BY DEF States
<1>2. params.markup \in Nat /\ params.slippage \in Nat
  BY BacktestAssumption
<1>3. FillPrice(o.side, s) \in Int
  BY <1>1, <1>2 DEF FillPrice
<1>4. o.side \in {"buy", "sell"} /\ o.signalTs \in Nat
  BY DEF Orders
<1>5. QED
  BY <1>1, <1>3, <1>4 DEF Fill, Fills

(* Balanced, with the two lengths given by name.                           *)
LEMMA BalancedBy ==
  ASSUME NEW s, NEW p, NEW h, Len(s.pending) = p, Len(s.held) = h
  PROVE  Balanced(s) <=>
           /\ s.signals = p + h + s.fills + s.rejections + s.lost
           /\ s.strategy.openLots = s.signals - s.fills
           /\ s.strategy.ordersThisInterval = s.signals
BY Zenon DEF Balanced

(* handle_fill(): the due order is rejected, held or realised.             *)
LEMMA HandleFillAccounted ==
  ASSUME params \in Params, NEW s, Accounted(s), NEW now \in Nat
  PROVE  LET r == HandleFill(s, now)
         IN  /\ Accounted(r)
             /\ IF Due(s, now) THEN r.pending = <<>> ELSE r = s
<1>1. CASE ~ Due(s, now)
  BY <1>1 DEF HandleFill
<1>2. CASE Due(s, now)
  <2> DEFINE o == s.pending[1]
             f == Fill(o, s, now)
             taken == [s EXCEPT !.pending = <<>>]
             exit == IF f.side = "buy" THEN s.bid ELSE s.ask
             h == Len(s.held)
  <2>1. s \in States /\ Len(s.pending) = 1 /\ o \in Orders
    <3>1. s \in States /\ s.pending \in Seq(Orders) /\ Len(s.pending) <= 1
          /\ s.pending # <<>>
      BY <1>2 DEF Accounted, States, Due
    <3>2. QED
      BY <3>1, AtMostOne
  <2>2. f \in Fills
    BY <2>1, FillInFills
  <2> HIDE DEF o, f
  <2>3. taken \in States
    <3>1. <<>> \in Seq(Orders)
      OBVIOUS
    <3>2. QED
      BY <2>1, <3>1 DEF States
  <2>4. /\ taken.pending = <<>> /\ taken.held = s.held
        /\ taken.signals = s.signals /\ taken.fills = s.fills
        /\ taken.rejections = s.rejections /\ taken.lost = s.lost
        /\ taken.strategy = s.strategy
        /\ taken.trades = s.trades /\ taken.equity = s.equity
        /\ taken.grossP = s.grossP /\ taken.grossL = s.grossL
        /\ taken.peak = s.peak /\ taken.drawdown = s.drawdown
    BY <2>1 DEF States
  <2> HIDE DEF taken
  <2>5. Booked(taken) /\ Drawn(taken)
    BY <2>4, SameBooks DEF Accounted
  <2>6. /\ s.signals = 1 + h + s.fills + s.rejections + s.lost
        /\ s.strategy.openLots = s.signals - s.fills
        /\ s.strategy.ordersThisInterval = s.signals
    BY <2>1, BalancedBy DEF Accounted
  <2>7. /\ h \in Nat /\ h <= 1
        /\ s.fills \in Nat /\ s.rejections \in Nat /\ s.lost \in Nat
    <3>1. s.held \in Seq(Fills) /\ Len(s.held) <= 1
      BY <2>1 DEF Accounted, States
    <3>2. QED
      BY <2>1, <3>1, AtMostOne DEF States
  <2>h. Len(s.held) = h
    OBVIOUS
  <2> HIDE DEF h
  <2>8. CASE Rejects(o.side, s)
    <3> DEFINE r == [taken EXCEPT !.rejections = taken.rejections + 1]
    <3>1. HandleFill(s, now) = r
      BY <1>2, <2>8 DEF HandleFill, o, taken
    <3>2. r \in States
      <4>1. taken.rejections + 1 \in Nat
        BY <2>4, <2>7
      <4>2. QED
        BY <2>3, <4>1 DEF States
    <3>3. /\ r.pending = <<>> /\ r.held = taken.held
          /\ r.signals = taken.signals /\ r.fills = taken.fills
          /\ r.rejections = taken.rejections + 1 /\ r.lost = taken.lost
          /\ r.strategy = taken.strategy
          /\ r.trades = taken.trades /\ r.equity = taken.equity
          /\ r.grossP = taken.grossP /\ r.grossL = taken.grossL
          /\ r.peak = taken.peak /\ r.drawdown = taken.drawdown
      BY <2>3, <2>4 DEF States
    <3> HIDE DEF r
    <3>4. Booked(r) /\ Drawn(r)
      BY <2>5, <3>3, SameBooks
    <3>5. Balanced(r)
      <4>1. Len(r.pending) = 0 /\ Len(r.held) = h
        BY <2>4, <2>h, <3>3
      <4>2. /\ r.signals = s.signals /\ r.fills = s.fills
            /\ r.rejections = s.rejections + 1 /\ r.lost = s.lost
            /\ r.strategy = s.strategy
        BY <2>4, <3>3
      <4>3. /\ r.signals = 0 + h + r.fills + r.rejections + r.lost
            /\ r.strategy.openLots = r.signals - r.fills
            /\ r.strategy.ordersThisInterval = r.signals
        BY <2>6, <2>7, <4>2
      <4>4. QED
        BY <4>1, <4>3, BalancedBy
    <3>6. QED
      BY <1>2, <2>4, <2>7, <3>1, <3>2, <3>3, <3>4, <3>5 DEF Accounted
  <2>9. CASE ~ Rejects(o.side, s) /\ params.model = "hold"
    <3> DEFINE r == [taken EXCEPT !.held = <<f>>,
                                  !.lost = taken.lost + h]
    <3>1. HandleFill(s, now) = r
      BY <1>2, <2>9, <2>4, <2>h DEF HandleFill, OpenPosition, o, f, taken
    <3>2. <<f>> \in Seq(Fills) /\ taken.lost + h \in Nat
      BY <2>2, <2>4, <2>7
    <3>3. r \in States
      BY <2>3, <3>2 DEF States
    <3>4. /\ r.pending = <<>> /\ r.held = <<f>>
          /\ r.signals = taken.signals /\ r.fills = taken.fills
          /\ r.rejections = taken.rejections
          /\ r.lost = taken.lost + h
          /\ r.strategy = taken.strategy
          /\ r.trades = taken.trades /\ r.equity = taken.equity
          /\ r.grossP = taken.grossP /\ r.grossL = taken.grossL
          /\ r.peak = taken.peak /\ r.drawdown = taken.drawdown
      BY <2>3, <2>4 DEF States
    <3> HIDE DEF r
    <3>5. Booked(r) /\ Drawn(r)
      BY <2>5, <3>4, SameBooks
    <3>6. Len(r.pending) = 0 /\ Len(r.held) = 1
      BY <3>4
    <3>7. Balanced(r)
      <4>1. /\ r.signals = s.signals /\ r.fills = s.fills
            /\ r.rejections = s.rejections /\ r.lost = s.lost + h
            /\ r.strategy = s.strategy
        BY <2>4, <3>4
      <4>2. /\ r.signals = 0 + 1 + r.fills + r.rejections + r.lost
            /\ r.strategy.openLots = r.signals - r.fills
            /\ r.strategy.ordersThisInterval = r.signals
        BY <2>6, <2>7, <4>1
      <4>3. QED
        BY <3>6, <4>2, BalancedBy
    <3>8. QED
      BY <1>2, <3>1, <3>3, <3>4, <3>5, <3>6, <3>7 DEF Accounted
  <2>10. CASE ~ Rejects(o.side, s) /\ params.model # "hold"
    <3> DEFINE r == Realise(taken, f, exit, now)
    <3>1. HandleFill(s, now) = r
      BY <1>2, <2>10 DEF HandleFill, o, f, taken
    <3>2. exit \in Int
      BY <2>1 DEF States
    <3> HIDE DEF exit
    <3>3. /\ r \in States
          /\ r.pending = taken.pending /\ r.held = taken.held
          /\ r.signals = taken.signals /\ r.rejections = taken.rejections
          /\ r.lost = taken.lost /\ r.fills = taken.fills + 1
          /\ r.strategy.openLots =
               IF taken.strategy.openLots > 0 THEN taken.strategy.openLots - 1
               ELSE taken.strategy.openLots
          /\ r.strategy.ordersThisInterval = taken.strategy.ordersThisInterval
      BY <2>2, <2>3, <3>2, RealiseFields
    <3>4. Booked(r) /\ Drawn(r)
      BY <2>2, <2>3, <2>5, <3>2, RealiseBooked
    <3> HIDE DEF r
    <3>5. Len(r.pending) = 0 /\ Len(r.held) = h
      BY <2>4, <2>h, <3>3
    <3>6. Balanced(r)
      <4>1. /\ r.signals = s.signals /\ r.fills = s.fills + 1
            /\ r.rejections = s.rejections /\ r.lost = s.lost
            /\ r.strategy.ordersThisInterval = s.strategy.ordersThisInterval
        BY <2>4, <3>3
      <4>2. s.strategy.openLots > 0
        BY <2>6, <2>7
      <4>3. r.strategy.openLots = s.strategy.openLots - 1
        BY <2>4, <3>3, <4>2
      <4>4. /\ r.signals = 0 + h + r.fills + r.rejections + r.lost
            /\ r.strategy.openLots = r.signals - r.fills
            /\ r.strategy.ordersThisInterval = r.signals
        BY <2>6, <2>7, <4>1, <4>3
      <4>5. QED
        BY <3>5, <4>4, BalancedBy
    <3>7. QED
      BY <1>2, <2>4, <2>7, <3>1, <3>3, <3>4, <3>5, <3>6 DEF Accounted
  <2>11. QED
    BY <2>8, <2>9, <2>10
<1>3. QED
  BY <1>1, <1>2

(* A held position that is closed is realised and gone.                    *)
LEMMA CloseAtAccounted ==
  ASSUME params \in Params, NEW s, Accounted(s), s.held # <<>>,
         NEW bid \in Int, NEW ask \in Int, NEW now \in Nat
  PROVE  LET r == CloseAt(s, bid, ask, now)
         IN  Accounted(r) /\ r.held = <<>> /\ r.pending = s.pending
<1> DEFINE f == s.held[1]
           exit == Exit(f, bid, ask)
           q == Realise(s, f, exit, now)
           r == [q EXCEPT !.held = <<>>]
           p == Len(s.pending)
<1>1. s \in States /\ Len(s.held) = 1 /\ f \in Fills
  <2>1. s \in States /\ s.held \in Seq(Fills) /\ Len(s.held) <= 1
    BY DEF Accounted, States
  <2>2. QED
    BY <2>1, AtMostOne
<1>2. CloseAt(s, bid, ask, now) = r
  BY DEF CloseAt
<1>3. p \in Nat /\ p <= 1
  <2>1. s.pending \in Seq(Orders) /\ p <= 1
    BY DEF Accounted, States
  <2>2. QED
    BY <2>1
<1>4. /\ s.signals = p + 1 + s.fills + s.rejections + s.lost
      /\ s.strategy.openLots = s.signals - s.fills
      /\ s.strategy.ordersThisInterval = s.signals
  BY <1>1, BalancedBy DEF Accounted
<1>5. s.fills \in Nat /\ s.rejections \in Nat /\ s.lost \in Nat
  BY <1>1 DEF States
<1>p. Len(s.pending) = p
  OBVIOUS
<1> HIDE DEF f, p
<1>6. exit \in Int
  <2>1. params.exitCost \in Nat
    BY BacktestAssumption
  <2>2. QED
    BY <2>1 DEF Exit
<1> HIDE DEF exit
<1>7. /\ q \in States
      /\ q.pending = s.pending
      /\ q.signals = s.signals /\ q.rejections = s.rejections
      /\ q.lost = s.lost /\ q.fills = s.fills + 1
      /\ q.strategy.openLots =
           IF s.strategy.openLots > 0 THEN s.strategy.openLots - 1
           ELSE s.strategy.openLots
      /\ q.strategy.ordersThisInterval = s.strategy.ordersThisInterval
  <2>1. s \in States /\ f \in Fills
    BY <1>1
  <2>2. QED
    BY <2>1, <1>6, RealiseFields, ZenonT(60)
<1>8. Booked(q) /\ Drawn(q)
  BY <1>1, <1>6, RealiseBooked DEF Accounted
<1> HIDE DEF q
<1>9. r \in States
  <2>1. <<>> \in Seq(Fills)
    OBVIOUS
  <2>2. QED
    BY <1>7, <2>1 DEF States
<1>10. /\ r.held = <<>> /\ r.pending = q.pending
       /\ r.signals = q.signals /\ r.fills = q.fills
       /\ r.rejections = q.rejections /\ r.lost = q.lost
       /\ r.strategy = q.strategy
       /\ r.trades = q.trades /\ r.equity = q.equity
       /\ r.grossP = q.grossP /\ r.grossL = q.grossL
       /\ r.peak = q.peak /\ r.drawdown = q.drawdown
  BY <1>7 DEF States
<1> HIDE DEF r
<1>11. Booked(r) /\ Drawn(r)
  BY <1>8, <1>10, SameBooks
<1>12. Balanced(r)
  <2>1. Len(r.pending) = p /\ Len(r.held) = 0
    BY <1>7, <1>10, <1>p
  <2>2. /\ r.signals = s.signals /\ r.fills = s.fills + 1
        /\ r.rejections = s.rejections /\ r.lost = s.lost
        /\ r.strategy.ordersThisInterval = s.strategy.ordersThisInterval
    BY <1>7, <1>10
  <2>3. s.strategy.openLots > 0
    BY <1>3, <1>4, <1>5
  <2>4. r.strategy.openLots = s.strategy.openLots - 1
    BY <1>7, <1>10, <2>3
  <2>5. /\ r.signals = p + 0 + r.fills + r.rejections + r.lost
        /\ r.strategy.openLots = r.signals - r.fills
        /\ r.strategy.ordersThisInterval = r.signals
    BY <1>3, <1>4, <1>5, <2>2, <2>4
  <2>6. QED
    BY <2>1, <2>5, BalancedBy
<1>13. Len(r.pending) <= 1 /\ Len(r.held) <= 1
  BY <1>3, <1>7, <1>10, <1>p
<1>14. QED
  BY <1>2, <1>7, <1>9, <1>10, <1>11, <1>12, <1>13 DEF Accounted

(* close_open() on a tick, and at the end of the streams.                  *)
LEMMA CloseOpenAccounted ==
  ASSUME params \in Params, NEW s, Accounted(s), NEW now \in Nat
  PROVE  Accounted(CloseOpen(s, now)) /\ CloseOpen(s, now).pending = s.pending
<1>1. s.bid \in Int /\ s.ask \in Int
  BY DEF Accounted, States
<1>2. QED
  BY <1>1, CloseAtAccounted DEF CloseOpen

LEMMA ForceCloseAccounted ==
  ASSUME params \in Params, NEW s, Accounted(s), NEW now \in Nat
  PROVE  LET r == ForceClose(s, now)
         IN  Accounted(r) /\ r.held = <<>> /\ r.pending = s.pending
<1>1. s.bid \in Int /\ s.ask \in Int
  BY DEF Accounted, States
<1>2. s.held # <<>> => s.held[1].price \in Int
  <2>1. s.held \in Seq(Fills) /\ Len(s.held) <= 1
    BY DEF Accounted, States
  <2>2. s.held # <<>> => s.held[1] \in Fills
    BY <2>1, AtMostOne
  <2>3. \A f \in Fills : f.price \in Int
    BY DEF Fills
  <2>4. QED
    BY <2>2, <2>3
<1>3. QED
  BY <1>1, <1>2, CloseAtAccounted DEF ForceClose

(* What leaves the accounts alone keeps them: a new lead or a new quote.   *)
LEMMA SameAccounts ==
  ASSUME NEW s, Accounted(s), NEW r \in States,
         r.pending = s.pending, r.held = s.held, r.signals = s.signals,
         r.fills = s.fills, r.rejections = s.rejections, r.lost = s.lost,
         r.strategy = s.strategy, r.trades = s.trades, r.equity = s.equity,
         r.grossP = s.grossP, r.grossL = s.grossL, r.peak = s.peak,
         r.drawdown = s.drawdown
  PROVE  Accounted(r)
<1>1. Booked(r) /\ Drawn(r)
  BY SameBooks DEF Accounted
<1>2. Balanced(r)
  BY Zenon DEF Accounted, Balanced
<1>3. Len(r.pending) <= 1 /\ Len(r.held) <= 1
  BY Zenon DEF Accounted
<1>4. QED
  BY <1>1, <1>2, <1>3 DEF Accounted

(* maybe_emit() and submit(): nothing, a signal the simulator refuses, or  *)
(* a pending order.                                                        *)
LEMMA SignalAccounted ==
  ASSUME params \in Params, NEW s, Accounted(s), NEW now \in Nat
  PROVE  LET r == Signal(s, now)
         IN  /\ Accounted(r) /\ r.held = s.held /\ r.trades = s.trades
             /\ \/ r.pending = s.pending
                \/ \E side \in {"buy", "sell"} : r.pending = <<Order(side, now)>>
<1> DEFINE q == [bid |-> s.bid, ask |-> s.ask, spread |-> s.ask - s.bid]
           d == Evaluate(s.lead, q)
           emits == s.lead > 0 /\ s.bid > 0 /\ s.ask > 0
                    /\ MayEmit(s.strategy, d, now)
           side == SignalOf(d, s.lead, q, now).side
           after == AfterEmit(s.strategy, now)
           e == [s EXCEPT !.strategy = after]
           placed == OnOrderPlaced(after)
           o == Order(side, now)
           n == s.signals + 1
           r == [e EXCEPT !.pending = <<o>>, !.signals = n,
                          !.strategy = placed]
           h == Len(s.held)
           p == Len(s.pending)
<1>1. /\ s \in States /\ s.strategy \in StrategyStates /\ s.signals \in Nat
      /\ s.fills \in Nat /\ s.rejections \in Nat /\ s.lost \in Nat
      /\ s.pending \in Seq(Orders) /\ s.held \in Seq(Fills)
      /\ h <= 1 /\ p <= 1
  BY DEF Accounted, States
<1>2. h \in Nat /\ p \in Nat
  BY <1>1
<1>3. side \in {"buy", "sell"}
  BY DEF SignalOf
<1>4. o \in Orders /\ n \in Nat
  <2>1. params.delay \in Nat
    BY BacktestAssumption
  <2>2. now + params.delay \in Nat
    BY <2>1
  <2>3. QED
    BY <1>1, <1>3, <2>2 DEF Order, Orders
<1>5. /\ after \in StrategyStates
      /\ after.openLots = s.strategy.openLots
      /\ after.ordersThisInterval = s.strategy.ordersThisInterval
      /\ after.dayPnl = s.strategy.dayPnl
  BY <1>1 DEF AfterEmit, StrategyStates
<1>6. /\ placed \in StrategyStates
      /\ placed.openLots = s.strategy.openLots + 1
      /\ placed.ordersThisInterval = s.strategy.ordersThisInterval + 1
      /\ placed.dayPnl = s.strategy.dayPnl
  BY <1>5, OrderPlaced
<1>7. Signal(s, now) = IF ~ emits THEN s
                       ELSE IF ~ CanSubmit(s) THEN e ELSE r
  <2>1. r = [e EXCEPT !.pending = <<o>>, !.signals = @ + 1,
                      !.strategy = OnOrderPlaced(@)]
    BY <1>1 DEF States
  <2>2. QED
    BY <2>1 DEF Signal
<1>8. /\ s.signals = p + h + s.fills + s.rejections + s.lost
      /\ s.strategy.openLots = s.signals - s.fills
      /\ s.strategy.ordersThisInterval = s.signals
  BY BalancedBy DEF Accounted
<1>9. Len(s.pending) = p /\ Len(s.held) = h
  OBVIOUS
<1> HIDE DEF after, placed, emits, o, n, side, h, p
<1>10. e \in States /\ r \in States
  <2>1. <<o>> \in Seq(Orders)
    BY <1>4
  <2>2. QED
    BY <1>1, <1>4, <1>5, <1>6, <2>1 DEF States
<1>11. /\ e.held = s.held /\ e.pending = s.pending
       /\ e.signals = s.signals /\ e.fills = s.fills
       /\ e.rejections = s.rejections /\ e.lost = s.lost
       /\ e.strategy = after
       /\ e.trades = s.trades /\ e.equity = s.equity
       /\ e.grossP = s.grossP /\ e.grossL = s.grossL
       /\ e.peak = s.peak /\ e.drawdown = s.drawdown
  BY <1>1 DEF States
<1>12. /\ r.held = s.held /\ r.pending = <<o>>
       /\ r.signals = n /\ r.fills = s.fills
       /\ r.rejections = s.rejections /\ r.lost = s.lost
       /\ r.strategy = placed
       /\ r.trades = s.trades /\ r.equity = s.equity
       /\ r.grossP = s.grossP /\ r.grossL = s.grossL
       /\ r.peak = s.peak /\ r.drawdown = s.drawdown
  BY <1>1 DEF States
<1> HIDE DEF e, r
<1>13. Accounted(e)
  <2>1. Booked(e) /\ Drawn(e)
    BY <1>5, <1>11, SameBooks DEF Accounted
  <2>2. Len(e.pending) = p /\ Len(e.held) = h
    BY <1>9, <1>11
  <2>3. /\ e.signals = p + h + e.fills + e.rejections + e.lost
        /\ e.strategy.openLots = e.signals - e.fills
        /\ e.strategy.ordersThisInterval = e.signals
    BY <1>5, <1>8, <1>11
  <2>4. Balanced(e)
    BY <2>2, <2>3, BalancedBy
  <2>5. QED
    BY <1>1, <1>10, <2>1, <2>2, <2>4 DEF Accounted, h, p
<1>14. CanSubmit(s) => Accounted(r)
  <2> SUFFICES ASSUME CanSubmit(s) PROVE Accounted(r)
    OBVIOUS
  <2>1. Booked(r) /\ Drawn(r)
    BY <1>6, <1>12, SameBooks DEF Accounted
  <2>2. p = 0
    BY DEF CanSubmit, p
  <2>3. Len(r.pending) = 1 /\ Len(r.held) = h
    BY <1>9, <1>12
  <2>4. /\ r.signals = 1 + h + r.fills + r.rejections + r.lost
        /\ r.strategy.openLots = r.signals - r.fills
        /\ r.strategy.ordersThisInterval = r.signals
    BY <1>1, <1>2, <1>6, <1>8, <1>12, <2>2 DEF n
  <2>5. Balanced(r)
    BY <2>3, <2>4, BalancedBy
  <2>6. Len(r.pending) <= 1 /\ Len(r.held) <= 1
    BY <1>1, <1>2, <2>3 DEF h
  <2>7. QED
    BY <1>10, <2>1, <2>5, <2>6 DEF Accounted
<1>15. QED
  BY <1>3, <1>7, <1>11, <1>12, <1>13, <1>14 DEF o

-----------------------------------------------------------------------------
(* The invariant of the specification.  OrdersAccounted alone is not       *)
(* inductive: that nothing is pending at the end needs every due time to   *)
(* be at most the delay after the last record, which is how long the drain *)
(* waits.                                                                  *)

DrainedInTime ==
  st.pending # <<>> => st.pending[1].due <= clock + params.delay

IInv ==
  /\ params \in Params
  /\ clock \in Nat /\ lagTime \in 0 .. clock
  /\ ticks \in [{"lead", "lag"} -> Nat]
  /\ done \in BOOLEAN
  /\ Accounted(st)
  /\ DrainedInTime
  /\ done => st.pending = <<>> /\ st.held = <<>>

LEMMA InitIInv == ReplayInit => IInv
<1> SUFFICES ASSUME ReplayInit PROVE IInv
  OBVIOUS
<1>1. FreshStrategy \in StrategyStates
  BY DEF FreshStrategy, StrategyStates
<1>2. <<>> \in Seq(Orders) /\ <<>> \in Seq(Fills) /\ <<>> \in Seq(Trades)
      /\ Len(<<>>) = 0 /\ Capital \in Nat
  BY BacktestAssumption
<1>3. /\ st.strategy = FreshStrategy /\ st.pending = <<>> /\ st.held = <<>>
      /\ st.signals = 0 /\ st.fills = 0 /\ st.rejections = 0
      /\ st.trades = <<>> /\ st.equity = Capital /\ st.peak = Capital
      /\ st.drawdown = 0 /\ st.grossP = 0 /\ st.grossL = 0 /\ st.lost = 0
  BY DEF ReplayInit
<1>4. st \in States
  BY <1>1, <1>2 DEF ReplayInit, States
<1>5. /\ FreshStrategy.openLots = 0 /\ FreshStrategy.dayPnl = 0
      /\ FreshStrategy.ordersThisInterval = 0
  BY DEF FreshStrategy
<1>6. Balanced(st)
  <2>1. Len(st.pending) = 0 /\ Len(st.held) = 0
    BY <1>3
  <2>2. /\ st.signals = 0 + 0 + st.fills + st.rejections + st.lost
        /\ st.strategy.openLots = st.signals - st.fills
        /\ st.strategy.ordersThisInterval = st.signals
    BY <1>3, <1>5
  <2>3. QED
    BY <2>1, <2>2, BalancedBy
<1>7. Curve(st, 0) = Capital /\ Len(st.trades) = 0
  BY <1>3 DEF Curve
<1>8. Booked(st)
  <2>1. params.commission * 0 = 0
    <3>1. params.commission \in Nat
      BY BacktestAssumption DEF ReplayInit
    <3>2. QED
      BY <3>1
  <2>2. st.strategy.dayPnl = st.equity - Capital - params.commission * st.fills
    BY <1>2, <1>3, <1>5, <2>1
  <2>3. QED
    BY <1>2, <1>3, <1>7, <2>2 DEF Booked
<1>9. Drawn(st)
  BY <1>2, <1>3, <1>7 DEF Drawn, PeakToTrough
<1>10. Accounted(st)
  <2>1. Len(st.pending) = 0 /\ Len(st.held) = 0
    BY <1>3
  <2>2. QED
    BY <1>4, <1>6, <1>8, <1>9, <2>1 DEF Accounted
<1>11. /\ params \in Params /\ clock = 1 /\ lagTime = 0 /\ done = FALSE
       /\ ticks \in [{"lead", "lag"} -> Nat]
  BY DEF ReplayInit
<1>12. DrainedInTime
  BY <1>3 DEF DrainedInTime
<1>13. clock \in Nat /\ lagTime \in 0 .. clock /\ done \in BOOLEAN
  <2>1. clock \in Nat /\ lagTime \in 0 .. clock
    BY <1>11
  <2>2. done \in BOOLEAN
    BY <1>11, Zenon
  <2>3. QED
    BY <2>1, <2>2
<1>14. QED
  BY <1>3, <1>10, <1>11, <1>12, <1>13, Zenon DEF IInv

(* A record takes the clock forward and leaves the rest of its stream.     *)
LEMMA ConsumeKeepsTime ==
  ASSUME IInv, NEW stream \in {"lead", "lag"}, NEW gap \in Gaps,
         Consume(stream, clock + gap)
  PROVE  /\ clock + gap \in Nat /\ clock' = clock + gap /\ clock' >= clock
         /\ clock' \in Nat /\ lagTime' \in 0 .. clock'
         /\ ticks' \in [{"lead", "lag"} -> Nat]
         /\ params' = params /\ params' \in Params
         /\ params.delay \in Nat
         /\ done' = done /\ done' = FALSE
<1>1. gap \in Nat /\ clock \in Nat /\ lagTime \in 0 .. clock
  BY BacktestAssumption DEF IInv
<1>2. params \in Params /\ params.delay \in Nat
  BY BacktestAssumption DEF IInv
<1>3. ticks' \in [{"lead", "lag"} -> Nat]
  BY DEF IInv, Consume
<1>4. QED
  BY <1>1, <1>2, <1>3 DEF Consume

(* What a record leaves of the order that was pending.                     *)
LEMMA StillDrained ==
  ASSUME IInv, clock' \in Nat, clock' >= clock, params' = params,
         params.delay \in Nat, st'.pending = st.pending,
         st'.pending \in Seq(Orders), Len(st'.pending) <= 1
  PROVE  DrainedInTime'
<1>1. clock \in Nat
  BY DEF IInv
<1>2. st'.pending # <<>> => st'.pending[1] \in Orders
  BY AtMostOne
<1>3. st'.pending # <<>> => st'.pending[1].due \in Nat
  BY <1>2 DEF Orders
<1>4. QED
  BY <1>1, <1>3 DEF IInv, DrainedInTime

(* The invariant after a step.                                             *)
LEMMA IInvBy ==
  ASSUME clock' \in Nat, lagTime' \in 0 .. clock', params' \in Params,
         ticks' \in [{"lead", "lag"} -> Nat], done' \in BOOLEAN,
         done' => st'.pending = <<>> /\ st'.held = <<>>,
         Accounted(st'), params' = params, DrainedInTime'
  PROVE  IInv'
<1>1. Accounted(st)'
  BY DEF Accounted, Balanced, Booked, Drawn, PeakToTrough, Curve
<1>2. QED
  BY <1>1 DEF IInv

(* A lag record: quote, fill, close, signal.                               *)
LEMMA LagTickIInv ==
  ASSUME IInv, NEW gap \in Gaps, NEW q \in Quotes, LagTick(clock + gap, q)
  PROVE  IInv'
<1> DEFINE now == clock + gap
           quoted == [st EXCEPT !.bid = q.bid, !.ask = q.ask, !.quotedAt = now]
           filled == HandleFill(quoted, now)
           closed == CloseOpen(filled, now)
           r == Signal(closed, now)
<1>1. /\ now \in Nat /\ clock' = now /\ clock' >= clock
      /\ clock' \in Nat /\ lagTime' \in 0 .. clock'
      /\ ticks' \in [{"lead", "lag"} -> Nat]
      /\ params' = params /\ params' \in Params /\ params.delay \in Nat
      /\ done' = FALSE
  BY ConsumeKeepsTime DEF LagTick
<1>2. st' = r
  BY DEF LagTick
<1>3. q.bid \in Nat /\ q.ask \in Nat
  BY BacktestAssumption
<1>4. Accounted(st) /\ params \in Params
  BY DEF IInv
<1> HIDE DEF now
<1>5. Accounted(quoted) /\ quoted.pending = st.pending
  <2>1. st \in States
    BY <1>4 DEF Accounted
  <2>2. quoted \in States
    BY <1>1, <1>3, <2>1 DEF States
  <2>3. /\ quoted.held = st.held /\ quoted.pending = st.pending
        /\ quoted.signals = st.signals /\ quoted.fills = st.fills
        /\ quoted.rejections = st.rejections /\ quoted.lost = st.lost
        /\ quoted.strategy = st.strategy
        /\ quoted.trades = st.trades /\ quoted.equity = st.equity
        /\ quoted.grossP = st.grossP /\ quoted.grossL = st.grossL
        /\ quoted.peak = st.peak /\ quoted.drawdown = st.drawdown
    BY <2>1 DEF States
  <2> HIDE DEF quoted
  <2>4. QED
    BY <1>4, <2>2, <2>3, SameAccounts
<1> HIDE DEF quoted
<1>6. Accounted(filled) /\ (filled.pending = <<>> \/ filled.pending = st.pending)
  BY <1>1, <1>4, <1>5, HandleFillAccounted
<1> HIDE DEF filled
<1>7. Accounted(closed) /\ closed.pending = filled.pending
  BY <1>1, <1>4, <1>6, CloseOpenAccounted
<1> HIDE DEF closed
<1>8. /\ Accounted(r)
      /\ \/ r.pending = closed.pending
         \/ \E side \in {"buy", "sell"} : r.pending = <<Order(side, now)>>
  BY <1>1, <1>4, <1>7, SignalAccounted
<1> HIDE DEF r
<1>9. Accounted(st')
  BY <1>2, <1>8
<1>10. DrainedInTime'
  <2>0. st'.pending \in Seq(Orders) /\ Len(st'.pending) <= 1
    BY <1>9 DEF Accounted, States
  <2>1. CASE st'.pending = <<>>
    BY <2>1 DEF DrainedInTime
  <2>2. CASE st'.pending = st.pending
    BY <1>1, <2>0, <2>2, StillDrained
  <2>3. CASE \E side \in {"buy", "sell"} : st'.pending = <<Order(side, now)>>
    <3>1. PICK side \in {"buy", "sell"} : st'.pending = <<Order(side, now)>>
      BY <2>3
    <3>2. st'.pending[1].due = now + params.delay
      BY <3>1 DEF Order
    <3>3. QED
      BY <1>1, <3>2 DEF DrainedInTime
  <2>4. QED
    BY <1>2, <1>6, <1>7, <1>8, <2>1, <2>2, <2>3
<1>11. QED
  BY <1>1, <1>9, <1>10, IInvBy

(* The end of both streams: the drain fills what is pending, and the close *)
(* takes what is held.                                                     *)
LEMMA EndOfStreamsIInv ==
  ASSUME IInv, EndOfStreams
  PROVE  IInv'
<1> DEFINE end == clock + params.delay + 1
           filled == HandleFill(st, end)
           r == ForceClose(filled, end + 1)
<1>1. /\ clock \in Nat /\ params.delay \in Nat /\ params \in Params
      /\ Accounted(st)
  BY BacktestAssumption DEF IInv
<1>2. end \in Nat /\ end + 1 \in Nat
  BY <1>1
<1>3. st' = r
  <2>1. end + 1 = clock + params.delay + 2
    BY <1>1
  <2>2. QED
    BY <2>1 DEF EndOfStreams
<1>4. Due(st, end) \/ st.pending = <<>>
  <2>1. st.pending \in Seq(Orders) /\ Len(st.pending) <= 1
    BY <1>1 DEF Accounted, States
  <2>2. st.pending # <<>> => st.pending[1] \in Orders
    BY <2>1, AtMostOne
  <2>3. st.pending # <<>> => st.pending[1].due \in Nat
    BY <2>2 DEF Orders
  <2>4. QED
    BY <1>1, <2>3 DEF IInv, DrainedInTime, Due
<1> HIDE DEF end
<1>5. Accounted(filled) /\ filled.pending = <<>>
  BY <1>1, <1>2, <1>4, HandleFillAccounted
<1> HIDE DEF filled
<1>6. Accounted(r) /\ r.held = <<>> /\ r.pending = <<>>
  BY <1>1, <1>2, <1>5, ForceCloseAccounted
<1> HIDE DEF r
<1>7. /\ clock' = clock /\ lagTime' = lagTime /\ ticks' = ticks
      /\ params' = params /\ done' = TRUE
  BY DEF EndOfStreams
<1>8. DrainedInTime'
  BY <1>3, <1>6 DEF DrainedInTime
<1>9. /\ clock' \in Nat /\ lagTime' \in 0 .. clock' /\ params' \in Params
      /\ ticks' \in [{"lead", "lag"} -> Nat]
  BY <1>7 DEF IInv
<1>10. QED
  BY <1>3, <1>6, <1>7, <1>8, <1>9, IInvBy

(* The steps of Next.                                                      *)
LEMMA NextIInv == IInv /\ [ReplayNext]_replayVars => IInv'
<1> SUFFICES ASSUME IInv, [ReplayNext]_replayVars PROVE IInv'
  OBVIOUS
<1>1. CASE UNCHANGED replayVars
  BY <1>1 DEF replayVars, IInv, DrainedInTime, Accounted, Balanced, Booked, Drawn,
              PeakToTrough, Curve
<1>2. ASSUME NEW gap \in Gaps, NEW stream \in {"lead", "lag"},
             SkipTick(stream, clock + gap)
      PROVE  IInv'
  <2>1. st' = st /\ Accounted(st)
    BY <1>2 DEF SkipTick, IInv
  <2>2. st.pending \in Seq(Orders) /\ Len(st.pending) <= 1
    BY <2>1 DEF Accounted, States
  <2>3. /\ clock' >= clock /\ clock' \in Nat /\ lagTime' \in 0 .. clock'
        /\ ticks' \in [{"lead", "lag"} -> Nat] /\ params' = params
        /\ params' \in Params /\ params.delay \in Nat /\ done' = FALSE
    BY <1>2, ConsumeKeepsTime DEF SkipTick
  <2>4. DrainedInTime'
    BY <2>1, <2>2, <2>3, StillDrained
  <2>5. QED
    BY <2>1, <2>3, <2>4, IInvBy
<1>3. ASSUME NEW gap \in Gaps, NEW mid \in LeadMids, LeadTick(clock + gap, mid)
      PROVE  IInv'
  <2>1. st' = [st EXCEPT !.lead = mid] /\ Accounted(st) /\ mid \in Nat
    BY <1>3, BacktestAssumption DEF LeadTick, IInv
  <2>2. Accounted(st') /\ st'.pending = st.pending
    <3>1. st \in States
      BY <2>1 DEF Accounted
    <3>2. st' \in States
      BY <2>1, <3>1 DEF States
    <3>3. /\ st'.held = st.held /\ st'.pending = st.pending
          /\ st'.signals = st.signals /\ st'.fills = st.fills
          /\ st'.rejections = st.rejections /\ st'.lost = st.lost
          /\ st'.strategy = st.strategy
          /\ st'.trades = st.trades /\ st'.equity = st.equity
          /\ st'.grossP = st.grossP /\ st'.grossL = st.grossL
          /\ st'.peak = st.peak /\ st'.drawdown = st.drawdown
      BY <2>1, <3>1 DEF States
    <3>4. Accounted(st)
      BY <2>1
    <3>5. QED
      BY <3>2, <3>3, <3>4, SameAccounts
  <2>3. st'.pending \in Seq(Orders) /\ Len(st'.pending) <= 1
    BY <2>2 DEF Accounted, States
  <2>4. /\ clock' >= clock /\ clock' \in Nat /\ lagTime' \in 0 .. clock'
        /\ ticks' \in [{"lead", "lag"} -> Nat] /\ params' = params
        /\ params' \in Params /\ params.delay \in Nat /\ done' = FALSE
    BY <1>3, ConsumeKeepsTime DEF LeadTick
  <2>5. DrainedInTime'
    BY <2>2, <2>3, <2>4, StillDrained
  <2>6. QED
    BY <2>2, <2>4, <2>5, IInvBy
<1>4. ASSUME NEW gap \in Gaps, NEW q \in Quotes, LagTick(clock + gap, q)
      PROVE  IInv'
  BY <1>4, LagTickIInv
<1>5. CASE EndOfStreams
  BY <1>5, EndOfStreamsIInv
<1>6. QED
  BY <1>1, <1>2, <1>3, <1>4, <1>5 DEF ReplayNext

THEOREM BacktestIInv == ReplaySpec => []IInv
BY InitIInv, NextIInv, PTL DEF ReplaySpec

(* Every signal the simulator took is accounted for, and none is left when *)
(* run_impl() returns.                                                     *)
THEOREM BacktestOrdersAccounted == ReplaySpec => []OrdersAccounted
<1>1. IInv => OrdersAccounted
  <2>1. SUFFICES ASSUME IInv PROVE OrdersAccounted
    OBVIOUS
  <2>2. ReplayTypeOK
    BY <2>1 DEF IInv, Accounted, ReplayTypeOK
  <2>3. /\ st.signals \in Nat /\ st.fills \in Nat
        /\ st.rejections \in Nat /\ st.lost \in Nat
        /\ Len(st.pending) \in Nat /\ Len(st.held) \in Nat
    BY <2>2 DEF ReplayTypeOK, States
  <2>4. /\ st.signals = Len(st.pending) + Len(st.held) + st.fills + st.rejections
                          + st.lost
        /\ st.strategy.openLots = st.signals - st.fills
    BY <2>1 DEF IInv, Accounted, Balanced
  <2>5. /\ st.signals = Len(st.pending) + Len(st.held) + Settled(st)
        /\ st.strategy.openLots >= Len(st.pending) + Len(st.held)
    <3> DEFINE n == st.signals
               f == st.fills
               r == st.rejections
               l == st.lost
               p == Len(st.pending)
               h == Len(st.held)
               o == st.strategy.openLots
    <3>1. Settled(st) = f + r + l
      BY DEF Settled
    <3>2. n \in Nat /\ f \in Nat /\ r \in Nat /\ l \in Nat /\ p \in Nat /\ h \in Nat
      BY <2>3
    <3>3. n = p + h + f + r + l /\ o = n - f
      BY <2>4
    <3> HIDE DEF n, f, r, l, p, h, o
    <3>4. n = p + h + Settled(st) /\ o >= p + h
      BY <3>1, <3>2, <3>3
    <3>5. QED
      BY <3>4 DEF n, p, h, o
  <2>6. QED
    BY <2>1, <2>2, <2>5 DEF IInv, OrdersAccounted
<1>2. QED
  BY <1>1, BacktestIInv, PTL

(* The result's figures agree, and max_drawdown is the largest fall of the *)
(* equity curve.                                                           *)
THEOREM BacktestEquityAccounted == ReplaySpec => []EquityAccounted
<1>1. IInv => EquityAccounted
  BY DEF IInv, Accounted, Drawn, EquityAccounted
<1>2. QED
  BY <1>1, BacktestIInv, PTL

-----------------------------------------------------------------------------
(* No look-ahead.  FillsAfterDelay is not inductive: while the run lasts,  *)
(* no fill lies after the last record c, so that each rests on a quote of  *)
(* its time; and the pending order must be due a delay after its signal.   *)

Timely(x, c, now) ==
  /\ x.fillTs >= x.signalTs + params.delay
  /\ x.fillTs <= now
  /\ x.quotedAt >= x.signalTs + params.delay \/ x.fillTs > c

Scheduled(s, c, now) ==
  /\ \A i \in 1 .. Len(s.trades) : Timely(s.trades[i], c, now)
  /\ s.held # <<>> => Timely(s.held[1], c, now)
  /\ s.pending # <<>> =>
       s.pending[1].due = s.pending[1].signalTs + params.delay

LEMMA StaysTimely ==
  ASSUME NEW x, x.fillTs \in Nat, NEW c \in Nat, NEW m \in Nat, NEW now \in Nat,
         m <= now, Timely(x, c, m)
  PROVE  Timely(x, c, now)
BY DEF Timely

(* A realised fill that is timely is a timely trade.                       *)
LEMMA RealiseTimely ==
  ASSUME params \in Params, NEW s \in States, NEW f \in Fills,
         NEW exit \in Int, NEW c \in Nat, NEW m \in Nat, NEW now \in Nat,
         m <= now, Timely(f, c, now),
         \A i \in 1 .. Len(s.trades) : Timely(s.trades[i], c, m)
  PROVE  LET r == Realise(s, f, exit, now)
         IN  \A i \in 1 .. Len(r.trades) : Timely(r.trades[i], c, now)
<1> DEFINE r == Realise(s, f, exit, now)
           n == Len(s.trades)
           pnl == (IF f.side = "buy" THEN exit - f.price ELSE f.price - exit)
                  - params.commission
           t == [signalTs |-> f.signalTs, fillTs |-> now,
                 quotedAt |-> f.quotedAt, pnl |-> pnl,
                 equityAfter |-> s.equity + pnl]
<1>1. t \in Trades /\ r.trades = Append(s.trades, t)
  <2> HIDE DEF r
  <2>1. QED
    BY RealiseFields DEF r
<1>2. t.signalTs = f.signalTs /\ t.fillTs = now /\ t.quotedAt = f.quotedAt
  OBVIOUS
<1> HIDE DEF r, t
<1>3. s.trades \in Seq(Trades) /\ params.delay \in Nat
  BY BacktestAssumption DEF States
<1>4. f.fillTs \in Nat /\ f.signalTs \in Nat /\ f.quotedAt \in Nat
  BY DEF Fills
<1>5. Timely(t, c, now)
  BY <1>2, <1>3, <1>4 DEF Timely
<1>6. /\ Len(r.trades) = n + 1 /\ n \in Nat /\ r.trades[n + 1] = t
      /\ \A i \in 1 .. n : r.trades[i] = s.trades[i]
  BY <1>1, <1>3
<1>7. \A i \in 1 .. n : Timely(s.trades[i], c, now)
  <2> SUFFICES ASSUME NEW i \in 1 .. n PROVE Timely(s.trades[i], c, now)
    OBVIOUS
  <2>1. s.trades[i] \in Trades
    BY <1>3
  <2>2. s.trades[i].fillTs \in Nat
    BY <2>1 DEF Trades
  <2>3. QED
    BY <2>2, StaysTimely
<1>8. QED
  BY <1>5, <1>6, <1>7 DEF r

(* handle_fill() on a quote of the time now, or after the last record.     *)
LEMMA HandleFillScheduled ==
  ASSUME params \in Params, NEW s, Accounted(s), NEW c \in Nat, NEW m \in Nat,
         NEW now \in Nat, m <= now, Scheduled(s, c, m),
         s.quotedAt = now \/ now > c
  PROVE  Scheduled(HandleFill(s, now), c, now)
<1>1. s \in States /\ s.trades \in Seq(Trades) /\ s.held \in Seq(Fills)
      /\ s.pending \in Seq(Orders) /\ Len(s.pending) <= 1 /\ Len(s.held) <= 1
      /\ params.delay \in Nat
  BY BacktestAssumption DEF Accounted, States
<1>2. \A i \in 1 .. Len(s.trades) : Timely(s.trades[i], c, now)
  <2> SUFFICES ASSUME NEW i \in 1 .. Len(s.trades)
               PROVE  Timely(s.trades[i], c, now)
    OBVIOUS
  <2>1. s.trades[i] \in Trades
    BY <1>1
  <2>2. s.trades[i].fillTs \in Nat
    BY <2>1 DEF Trades
  <2>3. Timely(s.trades[i], c, m)
    BY DEF Scheduled
  <2>4. QED
    BY <2>2, <2>3, StaysTimely
<1>3. s.held # <<>> => Timely(s.held[1], c, now)
  <2> SUFFICES ASSUME s.held # <<>> PROVE Timely(s.held[1], c, now)
    OBVIOUS
  <2>1. s.held[1] \in Fills
    BY <1>1, AtMostOne
  <2>2. s.held[1].fillTs \in Nat
    BY <2>1 DEF Fills
  <2>3. Timely(s.held[1], c, m)
    BY DEF Scheduled
  <2>4. QED
    BY <2>2, <2>3, StaysTimely
<1>4. CASE ~ Due(s, now)
  <2>1. HandleFill(s, now) = s
    BY <1>4 DEF HandleFill
  <2>2. QED
    BY <1>2, <1>3, <2>1 DEF Scheduled
<1>5. CASE Due(s, now)
  <2> DEFINE o == s.pending[1]
             f == Fill(o, s, now)
             taken == [s EXCEPT !.pending = <<>>]
             exit == IF f.side = "buy" THEN s.bid ELSE s.ask
  <2>1. o \in Orders /\ now >= o.due /\ o.due = o.signalTs + params.delay
        /\ o.signalTs \in Nat
    <3>1. s.pending # <<>> /\ now >= o.due
      BY <1>5 DEF Due
    <3>2. o \in Orders
      BY <1>1, <3>1, AtMostOne
    <3>3. o.due = o.signalTs + params.delay
      BY <3>1 DEF Scheduled
    <3>4. o.signalTs \in Nat
      BY <3>2 DEF Orders
    <3>5. QED
      BY <3>1, <3>2, <3>3, <3>4
  <2>2. /\ f \in Fills /\ f.signalTs = o.signalTs /\ f.fillTs = now
        /\ f.quotedAt = s.quotedAt
    BY <1>1, <2>1, FillInFills DEF Fill
  <2> HIDE DEF o, f
  <2>3. s.quotedAt \in Nat
    BY <1>1 DEF States
  <2>4. Timely(f, c, now)
    BY <1>1, <2>1, <2>2, <2>3 DEF Timely
  <2>5. /\ taken \in States /\ taken.pending = <<>> /\ taken.held = s.held
        /\ taken.trades = s.trades
    <3>1. <<>> \in Seq(Orders)
      OBVIOUS
    <3>2. QED
      BY <1>1, <3>1 DEF States
  <2>6. CASE Rejects(o.side, s)
    <3> DEFINE r == [taken EXCEPT !.rejections = @ + 1]
    <3>1. HandleFill(s, now) = r
      BY <1>5, <2>6 DEF HandleFill, o
    <3>2. r.pending = <<>> /\ r.held = s.held /\ r.trades = s.trades
      BY <1>1 DEF States
    <3> HIDE DEF r
    <3>3. QED
      BY <1>2, <1>3, <3>1, <3>2 DEF Scheduled
  <2>7. CASE ~ Rejects(o.side, s) /\ params.model = "hold"
    <3> DEFINE r == OpenPosition(taken, f)
    <3>1. HandleFill(s, now) = r
      BY <1>5, <2>7 DEF HandleFill, o, f
    <3>2. r.pending = <<>> /\ r.held = <<f>> /\ r.trades = s.trades
      BY <1>1 DEF States, OpenPosition
    <3> HIDE DEF r
    <3>3. <<f>>[1] = f
      OBVIOUS
    <3>4. QED
      BY <1>2, <2>4, <3>1, <3>2, <3>3 DEF Scheduled
  <2>8. CASE ~ Rejects(o.side, s) /\ params.model # "hold"
    <3> DEFINE r == Realise(taken, f, exit, now)
    <3>1. HandleFill(s, now) = r
      BY <1>5, <2>8 DEF HandleFill, o, f
    <3>2. exit \in Int
      BY <1>1 DEF States
    <3> HIDE DEF exit, taken
    <3>3. r.pending = taken.pending /\ r.held = taken.held
      BY <2>2, <2>5, <3>2, RealiseFields, ZenonT(60)
    <3>4. \A i \in 1 .. Len(taken.trades) : Timely(taken.trades[i], c, now)
      BY <1>2, <2>5
    <3>5. now <= now
      OBVIOUS
    <3>6. \A i \in 1 .. Len(r.trades) : Timely(r.trades[i], c, now)
      BY <2>2, <2>4, <2>5, <3>2, <3>4, <3>5, RealiseTimely
    <3> HIDE DEF r
    <3>7. r.pending = <<>> /\ r.held = s.held
      BY <2>5, <3>3
    <3>8. QED
      BY <1>3, <3>1, <3>6, <3>7 DEF Scheduled
  <2>9. QED
    BY <2>6, <2>7, <2>8
<1>6. QED
  BY <1>4, <1>5

(* Closing the held position.                                              *)
LEMMA CloseAtScheduled ==
  ASSUME params \in Params, NEW s, Accounted(s), s.held # <<>>,
         NEW bid \in Int, NEW ask \in Int,
         NEW c \in Nat, NEW m \in Nat, NEW now \in Nat, m <= now,
         Scheduled(s, c, m)
  PROVE  Scheduled(CloseAt(s, bid, ask, now), c, now)
<1> DEFINE f == s.held[1]
           exit == Exit(f, bid, ask)
           q == Realise(s, f, exit, now)
           r == [q EXCEPT !.held = <<>>]
<1>1. s \in States /\ f \in Fills
  <2>1. s \in States /\ s.held \in Seq(Fills) /\ Len(s.held) <= 1
    BY DEF Accounted, States
  <2>2. QED
    BY <2>1, AtMostOne
<1>2. CloseAt(s, bid, ask, now) = r
  BY DEF CloseAt
<1>3. Timely(f, c, now)
  <2>1. f.fillTs \in Nat
    BY <1>1 DEF Fills
  <2>2. Timely(f, c, m)
    BY DEF Scheduled
  <2>3. QED
    BY <2>1, <2>2, StaysTimely
<1>4. exit \in Int
  <2>1. params.exitCost \in Nat
    BY BacktestAssumption
  <2>2. QED
    BY <2>1 DEF Exit
<1> HIDE DEF f, exit
<1>5. q \in States /\ q.pending = s.pending
  BY <1>1, <1>4, RealiseFields, ZenonT(60)
<1>6. \A i \in 1 .. Len(q.trades) : Timely(q.trades[i], c, now)
  <2>1. \A i \in 1 .. Len(s.trades) : Timely(s.trades[i], c, m)
    BY DEF Scheduled
  <2>2. QED
    BY <1>1, <1>3, <1>4, <2>1, RealiseTimely
<1> HIDE DEF q
<1>7. r.held = <<>> /\ r.pending = q.pending /\ r.trades = q.trades
  BY <1>5 DEF States
<1> HIDE DEF r
<1>8. QED
  BY <1>2, <1>5, <1>6, <1>7 DEF Scheduled

(* While the run lasts nothing was filled after the last record; the drain *)
(* fills and closes one and two milliseconds after the delay.              *)
Horizon == IF done THEN clock + params.delay + 2 ELSE clock

TimeInv == IInv /\ Scheduled(st, clock, Horizon)

(* A later record: every fill so far rests on a quote of its time.         *)
LEMMA NextRecord ==
  ASSUME params \in Params, NEW s, NEW c \in Nat, NEW now \in Nat, c <= now,
         Accounted(s), Scheduled(s, c, c),
         NEW r \in States, r.trades = s.trades, r.held = s.held,
         r.pending = s.pending
  PROVE  Scheduled(r, now, now)
<1>1. /\ s.trades \in Seq(Trades) /\ s.held \in Seq(Fills) /\ Len(s.held) <= 1
      /\ params.delay \in Nat
  BY BacktestAssumption DEF Accounted, States
<1>2. ASSUME NEW x, x.fillTs \in Nat, x.signalTs \in Nat, x.quotedAt \in Nat,
             Timely(x, c, c)
      PROVE  Timely(x, now, now)
  BY <1>1, <1>2 DEF Timely
<1>3. \A i \in 1 .. Len(s.trades) : Timely(s.trades[i], now, now)
  <2> SUFFICES ASSUME NEW i \in 1 .. Len(s.trades)
               PROVE  Timely(s.trades[i], now, now)
    OBVIOUS
  <2>1. s.trades[i] \in Trades
    BY <1>1
  <2>2. /\ s.trades[i].fillTs \in Nat /\ s.trades[i].signalTs \in Nat
        /\ s.trades[i].quotedAt \in Nat
    BY <2>1 DEF Trades
  <2>3. Timely(s.trades[i], c, c)
    BY DEF Scheduled
  <2>4. QED
    BY <2>2, <2>3, <1>2
<1>4. s.held # <<>> => Timely(s.held[1], now, now)
  <2> SUFFICES ASSUME s.held # <<>> PROVE Timely(s.held[1], now, now)
    OBVIOUS
  <2>1. s.held[1] \in Fills
    BY <1>1, AtMostOne
  <2>2. /\ s.held[1].fillTs \in Nat /\ s.held[1].signalTs \in Nat
        /\ s.held[1].quotedAt \in Nat
    BY <2>1 DEF Fills
  <2>3. Timely(s.held[1], c, c)
    BY DEF Scheduled
  <2>4. QED
    BY <2>2, <2>3, <1>2
<1>5. QED
  BY <1>3, <1>4 DEF Scheduled

LEMMA LagTickScheduled ==
  ASSUME TimeInv, NEW gap \in Gaps, NEW q \in Quotes, LagTick(clock + gap, q)
  PROVE  Scheduled(st', clock + gap, clock + gap)
<1> DEFINE now == clock + gap
           quoted == [st EXCEPT !.bid = q.bid, !.ask = q.ask, !.quotedAt = now]
           filled == HandleFill(quoted, now)
           closed == CloseOpen(filled, now)
           r == Signal(closed, now)
<1>1. /\ now \in Nat /\ clock \in Nat /\ clock <= now /\ params \in Params
      /\ Accounted(st) /\ st \in States
  <2>1. IInv
    BY DEF TimeInv
  <2>2. now \in Nat /\ clock' = now /\ clock' >= clock
    BY <2>1, ConsumeKeepsTime DEF LagTick
  <2>3. QED
    BY <2>1, <2>2 DEF IInv, Accounted
<1>2. st' = r
  BY DEF LagTick
<1>3. Scheduled(st, clock, clock)
  <2>1. ~ done
    BY DEF LagTick, Consume
  <2>2. QED
    BY <2>1 DEF TimeInv, Horizon
<1>4. q.bid \in Nat /\ q.ask \in Nat
  BY BacktestAssumption
<1> HIDE DEF now
<1>5. quoted \in States
  BY <1>1, <1>4 DEF States
<1>6. /\ quoted.held = st.held /\ quoted.pending = st.pending
      /\ quoted.signals = st.signals /\ quoted.fills = st.fills
      /\ quoted.rejections = st.rejections /\ quoted.lost = st.lost
      /\ quoted.strategy = st.strategy
      /\ quoted.trades = st.trades /\ quoted.equity = st.equity
      /\ quoted.grossP = st.grossP /\ quoted.grossL = st.grossL
      /\ quoted.peak = st.peak /\ quoted.drawdown = st.drawdown
      /\ quoted.quotedAt = now
  BY <1>1 DEF States
<1> HIDE DEF quoted
<1>7. Accounted(quoted)
  BY <1>1, <1>5, <1>6, SameAccounts
<1>8. Scheduled(quoted, now, now)
  BY <1>1, <1>3, <1>5, <1>6, NextRecord
<1>9. now <= now
  BY <1>1
<1>10. Accounted(filled) /\ Scheduled(filled, now, now)
  BY <1>1, <1>6, <1>7, <1>8, <1>9, HandleFillAccounted, HandleFillScheduled
<1> HIDE DEF filled
<1>11. Accounted(closed) /\ Scheduled(closed, now, now)
  <2>1. Accounted(closed)
    BY <1>1, <1>10, CloseOpenAccounted
  <2>2. filled.bid \in Int /\ filled.ask \in Int
    BY <1>10 DEF Accounted, States
  <2>3. filled.held # <<>> =>
          Scheduled(CloseAt(filled, filled.bid, filled.ask, now), now, now)
    BY <1>1, <1>9, <1>10, <2>2, CloseAtScheduled
  <2>4. QED
    BY <1>10, <2>1, <2>3 DEF CloseOpen
<1> HIDE DEF closed
<1>12. /\ r.held = closed.held /\ r.trades = closed.trades
       /\ \/ r.pending = closed.pending
          \/ \E side \in {"buy", "sell"} : r.pending = <<Order(side, now)>>
  BY <1>1, <1>11, SignalAccounted
<1> HIDE DEF r
<1>13. r.pending # <<>> =>
         r.pending[1].due = r.pending[1].signalTs + params.delay
  <2>1. CASE r.pending = closed.pending
    BY <1>11, <2>1 DEF Scheduled
  <2>2. CASE \E side \in {"buy", "sell"} : r.pending = <<Order(side, now)>>
    <3>1. PICK side \in {"buy", "sell"} : r.pending = <<Order(side, now)>>
      BY <2>2
    <3>2. r.pending[1] = Order(side, now)
      BY <3>1
    <3>3. QED
      BY <3>2 DEF Order
  <2>3. QED
    BY <1>12, <2>1, <2>2
<1>14. Scheduled(r, now, now)
  BY <1>11, <1>12, <1>13 DEF Scheduled
<1>15. QED
  BY <1>2, <1>14 DEF now

LEMMA EndOfStreamsScheduled ==
  ASSUME TimeInv, EndOfStreams
  PROVE  Scheduled(st', clock, clock + params.delay + 2)
<1> DEFINE end == clock + params.delay + 1
           last == clock + params.delay + 2
           filled == HandleFill(st, end)
<1>1. /\ clock \in Nat /\ params.delay \in Nat /\ params \in Params
      /\ Accounted(st)
  BY BacktestAssumption DEF TimeInv, IInv
<1>2. /\ end \in Nat /\ last \in Nat /\ clock <= end /\ end > clock
      /\ end <= last /\ end = (clock + params.delay) + 1
      /\ last = (clock + params.delay) + 2
  BY <1>1
<1>3. st' = ForceClose(filled, last)
  BY <1>2 DEF EndOfStreams
<1>4. Scheduled(st, clock, clock)
  BY DEF TimeInv, Horizon, EndOfStreams
<1> HIDE DEF end, last
<1>5. Accounted(filled) /\ Scheduled(filled, clock, end)
  BY <1>1, <1>2, <1>4, HandleFillAccounted, HandleFillScheduled
<1> HIDE DEF filled
<1>6. /\ filled.bid \in Int /\ filled.ask \in Int
      /\ filled.trades \in Seq(Trades) /\ filled.pending \in Seq(Orders)
      /\ filled.held \in Seq(Fills) /\ Len(filled.held) <= 1
  BY <1>5 DEF Accounted, States
<1>7. CASE filled.held = <<>>
  <2>1. st' = filled
    BY <1>3, <1>7 DEF ForceClose
  <2>2. \A i \in 1 .. Len(filled.trades) : Timely(filled.trades[i], clock, last)
    <3> SUFFICES ASSUME NEW i \in 1 .. Len(filled.trades)
                 PROVE  Timely(filled.trades[i], clock, last)
      OBVIOUS
    <3>1. filled.trades[i] \in Trades
      BY <1>6
    <3>2. filled.trades[i].fillTs \in Nat
      BY <3>1 DEF Trades
    <3>3. Timely(filled.trades[i], clock, end)
      BY <1>5 DEF Scheduled
    <3>4. QED
      BY <1>1, <1>2, <3>2, <3>3, StaysTimely
  <2>3. Scheduled(filled, clock, last)
    BY <1>5, <1>7, <2>2 DEF Scheduled
  <2>4. QED
    BY <2>1, <2>3 DEF last
<1>8. CASE filled.held # <<>>
  <2>1. filled.held[1].price \in Int
    <3>1. filled.held[1] \in Fills
      BY <1>6, <1>8, AtMostOne
    <3>2. QED
      BY <3>1 DEF Fills
  <2>2. \A bid, ask \in Int :
          Scheduled(CloseAt(filled, bid, ask, last), clock, last)
    BY <1>1, <1>2, <1>5, <1>8, CloseAtScheduled
  <2>3. \E bid, ask \in Int : st' = CloseAt(filled, bid, ask, last)
    BY <1>3, <1>6, <1>8, <2>1 DEF ForceClose
  <2>4. Scheduled(st', clock, last)
    BY <2>2, <2>3
  <2>5. QED
    BY <2>4 DEF last
<1>9. QED
  BY <1>7, <1>8

LEMMA NextTimeInv == TimeInv /\ [ReplayNext]_replayVars => TimeInv'
<1> SUFFICES ASSUME TimeInv, [ReplayNext]_replayVars PROVE TimeInv'
  OBVIOUS
<1>1. IInv /\ IInv'
  BY NextIInv DEF TimeInv
<1>2. CASE UNCHANGED replayVars
  BY <1>1, <1>2 DEF replayVars, TimeInv, Horizon, Scheduled, Timely
<1>3. ASSUME clock' \in Nat, params' = params, done' = FALSE,
             Scheduled(st', clock', clock')
      PROVE  TimeInv'
  BY <1>1, <1>3 DEF TimeInv, Horizon, Scheduled, Timely
<1>4. ~ done => Scheduled(st, clock, clock)
  BY DEF TimeInv, Horizon
<1>5. Accounted(st) /\ st \in States /\ params \in Params /\ clock \in Nat
  BY <1>1 DEF IInv, Accounted
<1>6. ASSUME NEW gap \in Gaps, NEW stream \in {"lead", "lag"},
             SkipTick(stream, clock + gap)
      PROVE  TimeInv'
  <2>1. st' = st /\ ~ done
    BY <1>6 DEF SkipTick, Consume
  <2>2. clock' >= clock /\ clock' \in Nat /\ params' = params /\ done' = FALSE
    BY <1>1, <1>6, ConsumeKeepsTime DEF SkipTick
  <2>3. Scheduled(st, clock', clock')
    BY <1>4, <1>5, <2>1, <2>2, NextRecord
  <2>4. QED
    BY <1>3, <2>1, <2>2, <2>3
<1>7. ASSUME NEW gap \in Gaps, NEW mid \in LeadMids, LeadTick(clock + gap, mid)
      PROVE  TimeInv'
  <2>1. st' = [st EXCEPT !.lead = mid] /\ ~ done /\ mid \in Nat
    BY <1>7, BacktestAssumption DEF LeadTick, Consume
  <2>2. clock' >= clock /\ clock' \in Nat /\ params' = params /\ done' = FALSE
    BY <1>1, <1>7, ConsumeKeepsTime DEF LeadTick
  <2>3. /\ st' \in States /\ st'.held = st.held /\ st'.pending = st.pending
        /\ st'.trades = st.trades
    BY <1>5, <2>1 DEF States
  <2>4. Scheduled(st', clock', clock')
    BY <1>4, <1>5, <2>1, <2>2, <2>3, NextRecord
  <2>5. QED
    BY <1>3, <2>2, <2>4
<1>8. ASSUME NEW gap \in Gaps, NEW q \in Quotes, LagTick(clock + gap, q)
      PROVE  TimeInv'
  <2>1. clock' = clock + gap /\ clock' \in Nat /\ params' = params
        /\ done' = FALSE
    BY <1>1, <1>8, ConsumeKeepsTime DEF LagTick
  <2>2. Scheduled(st', clock', clock')
    BY <1>8, <2>1, LagTickScheduled
  <2>3. QED
    BY <1>3, <2>1, <2>2
<1>9. CASE EndOfStreams
  <2>1. clock' = clock /\ params' = params /\ done' = TRUE
    BY <1>9 DEF EndOfStreams
  <2>2. Scheduled(st', clock, clock + params.delay + 2)
    BY <1>9, EndOfStreamsScheduled
  <2>3. QED
    BY <1>1, <2>1, <2>2 DEF TimeInv, Horizon, Scheduled, Timely
<1>10. QED
  BY <1>2, <1>6, <1>7, <1>8, <1>9 DEF ReplayNext

(* No order is filled before its delay, nor, while the run lasts, at an    *)
(* older quote.                                                            *)
THEOREM BacktestFillsAfterDelay == ReplaySpec => []FillsAfterDelay
<1>1. ReplayInit => TimeInv
  <2> SUFFICES ASSUME ReplayInit PROVE TimeInv
    OBVIOUS
  <2>1. IInv
    BY InitIInv
  <2>2. st.trades = <<>> /\ st.held = <<>> /\ st.pending = <<>>
    BY DEF ReplayInit
  <2>3. QED
    BY <2>1, <2>2 DEF TimeInv, Scheduled
<1>2. TimeInv => FillsAfterDelay
  <2> SUFFICES ASSUME TimeInv PROVE FillsAfterDelay
    OBVIOUS
  <2>1. st.trades \in Seq(Trades) /\ st.held \in Seq(Fills) /\ Len(st.held) <= 1
    BY DEF TimeInv, IInv, Accounted, States
  <2>2. \A i \in 1 .. Len(st.trades) : OnTime(st.trades[i], clock)
    BY DEF TimeInv, Scheduled, Timely, OnTime
  <2>3. \A i \in DOMAIN st.held : i = 1 /\ st.held # <<>>
    BY <2>1
  <2>4. st.held # <<>> => OnTime(st.held[1], clock)
    BY DEF TimeInv, Scheduled, Timely, OnTime
  <2>5. DOMAIN st.trades = 1 .. Len(st.trades)
    BY <2>1
  <2>6. QED
    BY <2>2, <2>3, <2>4, <2>5 DEF FillsAfterDelay
<1>3. QED
  BY <1>1, <1>2, NextTimeInv, PTL DEF ReplaySpec
=============================================================================
