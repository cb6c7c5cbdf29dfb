-------------------------- MODULE MarketDataProofs --------------------------
(***************************************************************************)
(* The way of a price from a venue to a decision, in three parts that have *)
(* no variable in common: the strategy thread, with the rule it decides    *)
(* by, the readers that keep the venues connected, and the ring between    *)
(* the two at the grain of its word copies.                                *)
(***************************************************************************)
EXTENDS StrategyLoop, WsFeed, SpscRing, FiniteSetTheorems, SequenceTheorems, TLAPS

-----------------------------------------------------------------------------
(* Strategy, Aggregator and StrategyLoop: what the decision rule           *)
(* guarantees of a signal, for every price, spread and configuration, and  *)
(* what the strategy loop guarantees of its leads, its signals and its     *)
(* windows, however ticks, quotes and time interleave.                     *)

(* The threshold covers the buffer, the margin and the configured floor.   *)
LEMMA ThresholdBounds ==
  ASSUME NEW q \in [bid : Int, ask : Int, spread : Int]
  PROVE  /\ DynamicThreshold(q) \in Nat
         /\ DynamicThreshold(q) >= ThresholdFloor
         /\ DynamicThreshold(q) >= LatencyBuffer + MinProfitMargin
<1>1. LatencyBuffer \in Nat /\ MinProfitMargin \in Nat /\ ThresholdFloor \in Nat
  BY StrategyAssumption
<1>2. q.bid \in Int /\ q.ask \in Int /\ q.spread \in Int
  OBVIOUS
<1>3. QED
  BY <1>1, <1>2 DEF DynamicThreshold

(* A signal has a positive edge beyond the threshold, on the side that the *)
(* lead is on.                                                             *)
LEMMA EdgeIsPositive ==
  ASSUME NEW price \in Int, NEW q \in [bid : Int, ask : Int, spread : Int],
         NEW t, Evaluate(price, q) # "hold"
  PROVE  SignalOf(Evaluate(price, q), price, q, t).edge > 0
<1> DEFINE th == DynamicThreshold(q)
           d == Evaluate(price, q)
<1>1. th \in Int /\ q.bid \in Int /\ q.ask \in Int
  BY ThresholdBounds
<1> HIDE DEF th
<1>2. CASE price > q.ask + th
  <2>1. d = "long"
    BY <1>2 DEF Evaluate, th
  <2>2. SignalOf(d, price, q, t).edge = price - q.ask - th
    BY <2>1 DEF SignalOf, th
  <2>3. QED
    BY <1>1, <1>2, <2>2
<1>3. CASE ~ (price > q.ask + th) /\ q.bid > price + th
  <2>1. d = "short"
    BY <1>3 DEF Evaluate, th
  <2>2. SignalOf(d, price, q, t).edge = q.bid - price - th
    BY <2>1 DEF SignalOf, th
  <2>3. QED
    BY <1>1, <1>3, <2>2
<1>4. price > q.ask + th \/ q.bid > price + th
  BY DEF Evaluate, th
<1>5. QED
  BY <1>2, <1>3, <1>4

(* wire.cpp:92-95, execution.cpp:54.  within_slippage_cap() refuses no     *)
(* signal that maybe_emit() builds: it accepts every positive edge, and a  *)
(* signal that is not "hold" has one.  The cap never bites, whatever it is.*)
THEOREM SignalsPassSlippageCap ==
  \A price \in Int : \A q \in [bid : Int, ask : Int, spread : Int] :
    \A t \in Nat :
      Evaluate(price, q) # "hold" =>
        WithinSlippageCap(SignalOf(Evaluate(price, q), price, q, t))
<1>1. SUFFICES ASSUME NEW price \in Int,
                      NEW q \in [bid : Int, ask : Int, spread : Int],
                      NEW t \in Nat, Evaluate(price, q) # "hold"
               PROVE  WithinSlippageCap(SignalOf(Evaluate(price, q), price, q, t))
  OBVIOUS
<1>2. QED
  BY <1>1, EdgeIsPositive DEF WithinSlippageCap
-----------------------------------------------------------------------------
(* The lead price.                                                         *)

(* A quotient lies between bounds whose multiples enclose the dividend.    *)
LEMMA DivBounds ==
  ASSUME NEW a \in Int, NEW k \in Nat \ {0}, NEW lo \in Int, NEW hi \in Int,
         k * lo <= a, a < k * (hi + 1)
  PROVE  a \div k \in Int /\ lo <= a \div k /\ a \div k <= hi
<1> DEFINE q == a \div k
<1>1. q \in Int /\ k * q <= a /\ a < k * (q + 1)
  OBVIOUS
<1> HIDE DEF q
<1>2. lo <= q
  <2>1. SUFFICES ASSUME q + 1 <= lo PROVE FALSE
    BY <1>1
  <2>2. k * (q + 1) <= k * lo
    BY <1>1, <2>1
  <2>3. k * (q + 1) \in Int /\ k * lo \in Int
    BY <1>1
  <2> QED
    BY <1>1, <2>2, <2>3
<1>3. q <= hi
  <2>1. SUFFICES ASSUME hi + 1 <= q PROVE FALSE
    BY <1>1
  <2>2. k * (hi + 1) <= k * q
    BY <1>1, <2>1
  <2>3. k * (hi + 1) \in Int /\ k * q \in Int
    BY <1>1
  <2> QED
    BY <1>1, <2>2, <2>3
<1>4. QED
  BY <1>1, <1>2, <1>3 DEF q

(* A weighted sum lies between the sums its least and greatest terms give. *)
LEMMA WeightedMean ==
  ASSUME NEW b \in Nat, NEW d \in Nat, NEW wb \in Nat, NEW wd \in Nat,
         NEW lo \in Nat, NEW hi \in Nat,
         lo <= b, b <= hi, lo <= d, d <= hi
  PROVE  /\ (wd + wb) * lo <= d * wd + b * wb
         /\ d * wd + b * wb <= (wd + wb) * hi
<1>1. lo * wd <= d * wd /\ d * wd <= hi * wd
  OBVIOUS
<1>2. lo * wb <= b * wb /\ b * wb <= hi * wb
  OBVIOUS
<1>3. (wd + wb) * lo = lo * wd + lo * wb /\ (wd + wb) * hi = hi * wd + hi * wb
  OBVIOUS
<1>4. {lo * wd, d * wd, hi * wd, lo * wb, b * wb, hi * wb} \subseteq Nat
  OBVIOUS
<1>5. QED
  BY <1>1, <1>2, <1>3, <1>4

(* Rounding gives an integer, whatever the sign of the dividend.           *)
LEMMA RoundedQuotientType ==
  ASSUME NEW n \in Int, NEW k \in Nat \ {0}
  PROVE  RoundedQuotient(n, k) \in Int
BY DEF RoundedQuotient

LEMMA WeightedLeadType ==
  ASSUME NEW session \in Sessions, NEW b \in Nat, NEW d \in Nat
  PROVE  WeightedLead(b, d, session) \in Int
<1> DEFINE wd == Weights[session].deribit
           wb == Weights[session].binance
           sum == d * wd + b * wb
           k == IF wd + wb > 0 THEN wd + wb ELSE WeightUnit
<1>1. wd \in Int /\ wb \in Int /\ WeightUnit \in Nat \ {0}
  BY WeightsAssumption
<1>2. WeightedLead(b, d, session) = RoundedQuotient(sum, k)
  BY DEF WeightedLead
<1> HIDE DEF wd, wb
<1>3. sum \in Int /\ k \in Nat \ {0}
  BY <1>1
<1> HIDE DEF sum, k
<1>4. QED
  BY <1>2, <1>3, RoundedQuotientType

(* aggregator.cpp:94-105.  Normalising weights that are not negative and   *)
(* rounding keep the lead between the two prices.                          *)
LEMMA WeightedLeadBounds ==
  ASSUME NEW session \in Sessions, Sane(session), NEW b \in Nat, NEW d \in Nat,
         NEW lo \in Nat, NEW hi \in Nat,
         lo <= b, b <= hi, lo <= d, d <= hi
  PROVE  /\ WeightedLead(b, d, session) \in Nat
         /\ lo <= WeightedLead(b, d, session)
         /\ WeightedLead(b, d, session) <= hi
<1> DEFINE wd == Weights[session].deribit
           wb == Weights[session].binance
           sum == d * wd + b * wb
           W == wd + wb
<1>1. wd \in Nat /\ wb \in Nat /\ W \in Nat \ {0}
  BY WeightsAssumption DEF Sane
<1>2. WeightedLead(b, d, session) = RoundedQuotient(sum, W)
  BY <1>1 DEF WeightedLead
<1> HIDE DEF wd, wb
<1>3. W * lo <= sum /\ sum <= W * hi /\ sum \in Nat
  BY <1>1, WeightedMean
<1> HIDE DEF sum, W
<1>a. WeightedLead(b, d, session) = (2 * sum + W) \div (2 * W)
  BY <1>2, <1>3 DEF RoundedQuotient
<1>4. W * lo \in Nat /\ W * hi \in Nat
  BY <1>1
<1>5. (2 * W) * lo = 2 * (W * lo) /\ (2 * W) * (hi + 1) = 2 * (W * hi) + 2 * W
  BY <1>1
<1>6. (2 * W) * lo <= 2 * sum + W /\ 2 * sum + W < (2 * W) * (hi + 1)
  BY <1>1, <1>3, <1>4, <1>5
<1> DEFINE n == 2 * sum + W
           k == 2 * W
<1>7. k \in Nat \ {0} /\ n \in Int
  BY <1>1, <1>3
<1>8. k * lo <= n /\ n < k * (hi + 1) /\ WeightedLead(b, d, session) = n \div k
  BY <1>a, <1>6
<1> HIDE DEF n, k
<1>9. n \div k \in Int /\ lo <= n \div k /\ n \div k <= hi
  BY <1>7, <1>8, DivBounds
<1>10. QED
  BY <1>8, <1>9

(* When a venue has a price, the lead lies between the prices of the       *)
(* venues that have one, or is what weights that are not sane give.        *)
LEMMA LeadPriceBounds ==
  ASSUME NEW binance, NEW deribit, NEW session \in Sessions,
         LatestMid(binance) \in Nat, LatestMid(deribit) \in Nat
  PROVE  LET lp == LeadPrice(binance, deribit, session)
             b == LatestMid(binance)
             d == LatestMid(deribit)
             mids == {b, d} \ {0}
         IN  /\ lp \in Int
             /\ HasLead(binance, deribit) =>
                  \/ (\E m \in mids : m <= lp) /\ (\E m \in mids : lp <= m)
                  \/ /\ b > 0 /\ d > 0 /\ ~Sane(session)
                     /\ lp = WeightedLead(b, d, session)
<1> DEFINE b == LatestMid(binance)
           d == LatestMid(deribit)
           lp == LeadPrice(binance, deribit, session)
<1>1. b \in Nat /\ d \in Nat
  OBVIOUS
<1>2. CASE b = 0
  <2>1. lp = d
    BY <1>1, <1>2 DEF LeadPrice
  <2>2. HasLead(binance, deribit) => d > 0
    BY <1>1, <1>2 DEF HasLead
  <2>3. QED
    BY <1>1, <2>1, <2>2
<1>3. CASE b > 0 /\ d = 0
  <2>1. lp = b
    BY <1>1, <1>3 DEF LeadPrice
  <2>2. QED
    BY <1>1, <1>3, <2>1
<1>4. CASE b > 0 /\ d > 0 /\ Sane(session)
  <2>1. lp = WeightedLead(b, d, session)
    BY <1>1, <1>4 DEF LeadPrice
  <2>2. b \in {b, d} \ {0} /\ d \in {b, d} \ {0}
    BY <1>4
  <2> HIDE DEF b, d, lp
  <2>3. ASSUME b <= d
        PROVE  /\ WeightedLead(b, d, session) \in Nat
               /\ b <= WeightedLead(b, d, session)
               /\ WeightedLead(b, d, session) <= d
    BY <1>1, <1>4, <2>3, WeightedLeadBounds, SMTT(60)
  <2>4. ASSUME d <= b
        PROVE  /\ WeightedLead(b, d, session) \in Nat
               /\ d <= WeightedLead(b, d, session)
               /\ WeightedLead(b, d, session) <= b
    BY <1>1, <1>4, <2>4, WeightedLeadBounds, SMTT(60)
  <2>5. lp \in Nat /\ ((b <= lp /\ lp <= d) \/ (d <= lp /\ lp <= b))
    <3>1. CASE b <= d
      BY <2>1, <2>3, <3>1
    <3>2. CASE d <= b
      BY <2>1, <2>4, <3>2
    <3>3. QED
      BY <1>1, <3>1, <3>2
  <2>6. QED
    BY <2>2, <2>5 DEF b, d, lp
<1>5. CASE b > 0 /\ d > 0 /\ ~Sane(session)
  <2>1. lp = WeightedLead(b, d, session)
    BY <1>1, <1>5 DEF LeadPrice
  <2>2. QED
    BY <1>1, <1>5, <2>1, WeightedLeadType
<1>6. QED
  BY <1>1, <1>2, <1>3, <1>4, <1>5

-----------------------------------------------------------------------------
(* The loop's inductive invariant.                                         *)

\* The readers stamp ticks with the system clock.
Ticks == [ts : {t \in Nat : t >= Epoch}, mid : Prices]

Signals == [side : {"buy", "sell"}, edge : Int, ts : Nat]

Rings == Venues \cup {"broker"}

TypeInv ==
  /\ clock \in 0 .. MaxTime /\ now \in 0 .. clock
  /\ received \in 0 .. MaxMessages
  /\ ring \in [Rings -> Seq(Ticks \cup Quotes)]
  /\ \A v \in Venues : ring[v] \in Seq(Ticks)
  /\ ring["broker"] \in Seq(Quotes)
  /\ \A r \in Rings : Len(ring[r]) < RingCapacity
  /\ win \in [Venues -> Seq(Ticks)]
  /\ lead \in Int
  /\ spc \in {"top", "decide"} \cup Venues
  /\ strat \in StrategyStates /\ strat.lastSignal <= now

Gaps(s) ==
  \A i \in 1 .. Len(s) - 1 :
    s[i].ts # 0 => s[i + 1].ts - s[i].ts >= IntervalSeconds * MsPerSecond

\* lastSignal is the time of the last signal.
SignalInv ==
  /\ emitted \in Seq(Signals)
  /\ Gaps(emitted)
  /\ emitted # <<>> => emitted[Len(emitted)].ts = strat.lastSignal

LoopInv == TypeInv /\ SignalInv /\ LeadWithinVenues

-----------------------------------------------------------------------------
(* Windows.                                                                *)

\* Every tick's stamp is ahead of the strategy's clock.
LEMMA TickIsFresh ==
  ASSUME NEW t \in Ticks, NEW n \in 0 .. MaxTime
  PROVE  ~IsStale(t, n)
<1>1. t.ts \in Nat /\ n \in Nat /\ n <= t.ts
  BY ClockAssumption DEF Ticks
<1>2. QED
  BY <1>1, MaxTickAgeAssumption DEF IsStale

\* So prune_old() leaves a window as it is.
LEMMA PruneKeepsWindow ==
  ASSUME NEW w \in Seq(Ticks), NEW n \in 0 .. MaxTime
  PROVE  PruneOld(w, n) = w
<1> DEFINE fresh == {i \in DOMAIN w : ~IsStale(w[i], n)}
           least == CHOOSE i \in fresh : \A j \in fresh : i <= j
<1>1. fresh = 1 .. Len(w)
  BY TickIsFresh
<1>2. CASE w = <<>>
  BY <1>1, <1>2 DEF PruneOld
<1>3. CASE w # <<>>
  <2>1. Len(w) \in Nat \ {0}
    BY <1>3
  <2> HIDE DEF fresh
  <2>2. 1 \in fresh /\ (\A j \in fresh : 1 <= j)
    BY <1>1, <2>1
  <2>3. least \in fresh /\ (\A j \in fresh : least <= j)
    BY <2>2
  <2>4. least = 1
    <3> HIDE DEF least
    <3>1. QED
      BY <1>1, <2>1, <2>2, <2>3
  <2>5. PruneOld(w, n) = SubSeq(w, least, Len(w))
    BY <2>2 DEF PruneOld, fresh
  <2>6. QED
    BY <2>4, <2>5, SubSeqFull
<1>4. QED
  BY <1>2, <1>3

LEMMA IngestAppends ==
  ASSUME NEW w \in Seq(Ticks), NEW t \in Ticks, NEW n \in 0 .. MaxTime
  PROVE  Ingest(w, t, n) = Append(w, t)
BY TickIsFresh DEF Ingest

LEMMA LatestMidIsNat ==
  ASSUME NEW w \in Seq(Ticks)
  PROVE  LatestMid(w) \in Nat
<1>1. CASE w = <<>>
  BY <1>1 DEF LatestMid
<1>2. CASE w # <<>>
  <2>1. Len(w) \in 1 .. Len(w)
    BY <1>2
  <2>2. w[Len(w)] \in Ticks
    BY <2>1
  <2>3. QED
    BY <1>2, <2>2, MarketAssumption DEF LatestMid, Ticks
<1>3. QED
  BY <1>1, <1>2

\* A push keeps the ring within its capacity, an overrun included.
LEMMA RingPushType ==
  ASSUME NEW S, NEW q \in Seq(S), NEW e \in S, Len(q) < RingCapacity
  PROVE  /\ RingPush(RingCapacity, q, e) \in Seq(S)
         /\ Len(RingPush(RingCapacity, q, e)) < RingCapacity
BY RingCapacityAssumption DEF RingPush

-----------------------------------------------------------------------------
(* Signals.                                                                *)

LEMMA SignalType ==
  ASSUME NEW d \in {"long", "short"}, NEW l \in Int, NEW q \in Quotes,
         NEW n \in Nat
  PROVE  SignalOf(d, l, q, n) \in Signals /\ SignalOf(d, l, q, n).ts = n
<1>1. q \in [bid : Int, ask : Int, spread : Int]
  BY MarketAssumption
<1>2. DynamicThreshold(q) \in Nat /\ q.bid \in Int /\ q.ask \in Int
  BY <1>1, ThresholdBounds
<1>3. (IF d = "long" THEN l - q.ask ELSE q.bid - l) - DynamicThreshold(q) \in Int
  BY <1>2
<1>4. QED
  BY <1>3 DEF SignalOf, Signals

\* A further signal an interval after the last one leaves no gap too short.
LEMMA AppendKeepsGaps ==
  ASSUME NEW s \in Seq(Signals), NEW e \in Signals, Gaps(s),
         s # <<>> /\ s[Len(s)].ts # 0 =>
           e.ts - s[Len(s)].ts >= IntervalSeconds * MsPerSecond
  PROVE  Gaps(Append(s, e))
<1> DEFINE t == Append(s, e)
<1>1. Len(t) = Len(s) + 1 /\ Len(s) \in Nat
  OBVIOUS
<1>2. t[Len(s) + 1] = e /\ \A i \in 1 .. Len(s) : t[i] = s[i]
  OBVIOUS
<1> HIDE DEF t
<1>3. ASSUME NEW i \in 1 .. Len(t) - 1, t[i].ts # 0
      PROVE  t[i + 1].ts - t[i].ts >= IntervalSeconds * MsPerSecond
  <2>1. CASE i = Len(s)
    <3>1. i \in 1 .. Len(s) /\ s # <<>>
      BY <1>1, <2>1
    <3>2. QED
      BY <1>2, <1>3, <2>1, <3>1
  <2>2. CASE i # Len(s)
    <3>1. i \in 1 .. Len(s) - 1 /\ i \in 1 .. Len(s) /\ i + 1 \in 1 .. Len(s)
      BY <1>1, <2>2
    <3>2. QED
      BY <1>2, <1>3, <3>1 DEF Gaps
  <2>3. QED
    BY <2>1, <2>2
<1>4. QED
  BY <1>3 DEF Gaps, t

-----------------------------------------------------------------------------
LEMMA LoopInvInit == Init => LoopInv
<1>1. SUFFICES ASSUME Init PROVE LoopInv
  OBVIOUS
<1>2. TypeInv
  BY <1>1, ClockAssumption, RingCapacityAssumption
     DEF Init, TypeInv, Rings, Venues, FreshStrategy, StrategyStates
<1>3. SignalInv
  BY <1>1 DEF Init, SignalInv, Gaps
<1>4. LeadWithinVenues
  BY <1>1 DEF Init, LeadWithinVenues
<1>5. QED
  BY <1>2, <1>3, <1>4 DEF LoopInv

LEMMA TypeInvNext == TypeInv /\ [Next]_vars => TypeInv'
<1>1. SUFFICES ASSUME TypeInv, [Next]_vars PROVE TypeInv'
  OBVIOUS
<1> USE <1>1
<1>2. now \in 0 .. MaxTime
  BY ClockAssumption DEF TypeInv
<1>3. CASE Tick
  BY <1>3, ClockAssumption DEF Tick, TypeInv
<1>4. ASSUME NEW v \in Venues, NEW p \in Prices, ReceiveTick(v, p)
      PROVE  TypeInv'
  <2> DEFINE t == [ts |-> Epoch + clock, mid |-> p]
             new == RingPush(RingCapacity, ring[v], t)
  <2>1. t \in Ticks
    BY ClockAssumption DEF TypeInv, Ticks
  <2> HIDE DEF t
  <2>2. v # "broker" /\ v \in Rings
    BY DEF Venues, Rings
  <2>3. ring[v] \in Seq(Ticks) /\ Len(ring[v]) < RingCapacity
    BY <2>2 DEF TypeInv
  <2>4. new \in Seq(Ticks) /\ Len(new) < RingCapacity
    BY <2>1, <2>3, RingPushType
  <2>5. new \in Seq(Ticks \cup Quotes)
    BY <2>4
  <2> HIDE DEF new
  <2>6. /\ ring' = [ring EXCEPT ![v] = new]
        /\ received' \in 0 .. MaxMessages
        /\ UNCHANGED <<clock, win, strat, spc, now, lead, emitted>>
    BY <1>4, ClockAssumption DEF ReceiveTick, Receive, t, new, TypeInv
  <2>7. QED
    BY <2>2, <2>4, <2>5, <2>6 DEF TypeInv
<1>5. ASSUME NEW q \in Quotes, ReceiveQuote(q)
      PROVE  TypeInv'
  <2> DEFINE old == ring["broker"]
             new == RingPush(RingCapacity, old, q)
  <2>1. old \in Seq(Quotes) /\ Len(old) < RingCapacity
    BY DEF TypeInv, Rings
  <2>2. new \in Seq(Quotes) /\ Len(new) < RingCapacity
    BY <2>1, RingPushType
  <2>3. /\ \/ ring' = [ring EXCEPT !["broker"] = new]
           \/ ring' = [ring EXCEPT !["broker"] = old]
        /\ received' \in 0 .. MaxMessages
        /\ UNCHANGED <<clock, win, strat, spc, now, lead, emitted>>
    <3>1. Receive("broker", <<q>>) \/ Receive("broker", <<>>)
      BY <1>5 DEF ReceiveQuote
    <3>2. <<q>> # <<>> /\ <<q>>[1] = q
      OBVIOUS
    <3>3. QED
      BY <3>1, <3>2, ClockAssumption DEF Receive, TypeInv
  <2> HIDE DEF old, new
  <2>4. PICK r \in Seq(Quotes) : ring' = [ring EXCEPT !["broker"] = r]
                               /\ Len(r) < RingCapacity
    BY <2>1, <2>2, <2>3
  <2>5. r \in Seq(Ticks \cup Quotes)
    OBVIOUS
  <2>6. QED
    BY <2>3, <2>4, <2>5 DEF TypeInv, Venues, Rings
<1>6. CASE StrategyStart
  <2>1. strat.lastSignal \in Nat /\ now \in Nat /\ clock \in Nat
    BY ClockAssumption DEF TypeInv, StrategyStates
  <2>2. strat.lastSignal <= clock /\ clock \in 0 .. clock
    BY <2>1 DEF TypeInv
  <2>3. QED
    BY <1>6, <2>2 DEF StrategyStart, TypeInv, Venues
<1>7. ASSUME NEW v \in Venues, StrategyPopTick(v)
      PROVE  TypeInv'
  <2>1. v # "broker" /\ v \in Rings
    BY DEF Venues, Rings
  <2>2. ring[v] \in Seq(Ticks) /\ ring[v] # <<>> /\ Len(ring[v]) < RingCapacity
    BY <1>7, <2>1 DEF TypeInv, StrategyPopTick
  <2>3. /\ Head(ring[v]) \in Ticks /\ Tail(ring[v]) \in Seq(Ticks)
        /\ Len(Tail(ring[v])) < RingCapacity
    BY <2>2, RingCapacityAssumption
  <2>4. Tail(ring[v]) \in Seq(Ticks \cup Quotes)
    BY <2>3
  <2>5. win[v] \in Seq(Ticks)
    BY DEF TypeInv
  <2>6. Ingest(win[v], Head(ring[v]), now) \in Seq(Ticks)
    <3>1. Ingest(win[v], Head(ring[v]), now) = Append(win[v], Head(ring[v]))
      BY <1>2, <2>3, <2>5, IngestAppends
    <3>2. QED
      BY <2>3, <2>5, <3>1, AppendProperties
  <2>7. PICK r, w : /\ r \in Seq(Ticks) /\ r \in Seq(Ticks \cup Quotes)
                    /\ Len(r) < RingCapacity /\ w \in Seq(Ticks)
                    /\ ring' = [ring EXCEPT ![v] = r]
                    /\ win' = [win EXCEPT ![v] = w]
    BY <1>7, <2>3, <2>4, <2>6 DEF StrategyPopTick
  <2>8. UNCHANGED <<clock, received, strat, spc, now, lead>>
    BY <1>7 DEF StrategyPopTick
  <2>9. QED
    BY <2>1, <2>7, <2>8 DEF TypeInv
<1>8. CASE StrategyFastDrained
  <2>1. win["fast"] \in Seq(Ticks)
    BY DEF TypeInv, Venues
  <2>2. PruneOld(win["fast"], now) = win["fast"]
    BY <1>2, <2>1, PruneKeepsWindow
  <2>3. QED
    BY <1>8, <2>2 DEF StrategyFastDrained, TypeInv, Venues
<1>9. CASE StrategyDeribitDrained
  <2>1. win["fast"] \in Seq(Ticks) /\ win["deribit"] \in Seq(Ticks)
    BY DEF TypeInv, Venues
  <2>2. PruneOld(win["deribit"], now) = win["deribit"]
    BY <1>2, <2>1, PruneKeepsWindow
  <2>3. win' = win
    BY <1>9, <2>2 DEF StrategyDeribitDrained, TypeInv
  <2>4. lead' \in Int
    BY <1>9, <2>1, <2>3, LatestMidIsNat, LeadPriceBounds
       DEF StrategyDeribitDrained
  <2>5. QED
    BY <1>9, <2>3, <2>4 DEF StrategyDeribitDrained, TypeInv
<1>10. CASE StrategyDecide
  <2>1. CASE ring["broker"] = <<>>
    BY <1>10, <2>1 DEF StrategyDecide, TypeInv
  <2>2. CASE ring["broker"] # <<>>
    <3> DEFINE new == Tail(ring["broker"])
    <3>1. ring["broker"] \in Seq(Quotes) /\ Len(ring["broker"]) < RingCapacity
      BY DEF TypeInv, Rings
    <3>2. new \in Seq(Quotes) /\ Len(new) < RingCapacity
      BY <2>2, <3>1, RingCapacityAssumption
    <3>3. new \in Seq(Ticks \cup Quotes)
      BY <3>2
    <3>4. ring' = [ring EXCEPT !["broker"] = new]
      BY <1>10, <2>2 DEF StrategyDecide
    <3>5. strat' = strat \/ strat' = AfterEmit(strat, now)
      BY <1>10, <2>2 DEF StrategyDecide
    <3>6. strat' \in StrategyStates /\ strat'.lastSignal <= now
      BY <1>2, <3>5 DEF AfterEmit, TypeInv, StrategyStates
    <3>7. UNCHANGED <<clock, received, win, now, lead>> /\ spc' = "top"
      BY <1>10 DEF StrategyDecide
    <3> HIDE DEF new
    <3>8. QED
      BY <3>2, <3>3, <3>4, <3>6, <3>7 DEF TypeInv, Venues, Rings
  <2>3. QED
    BY <2>1, <2>2
<1>11. CASE UNCHANGED vars
  BY <1>11 DEF vars, TypeInv
<1>12. QED
  BY <1>3, <1>4, <1>5, <1>6, <1>7, <1>8, <1>9, <1>10, <1>11
     DEF Next, StrategyThread


LEMMA SignalInvNext == LoopInv /\ [Next]_vars => SignalInv'
<1>1. SUFFICES ASSUME LoopInv, [Next]_vars PROVE SignalInv'
  OBVIOUS
<1>2. CASE UNCHANGED <<strat, emitted>>
  BY <1>1, <1>2 DEF LoopInv, SignalInv
<1>3. CASE StrategyDecide /\ ~UNCHANGED <<strat, emitted>>
  <2> DEFINE q == Head(ring["broker"])
             d == Evaluate(lead, q)
             e == SignalOf(d, lead, q, now)
  <2>1. /\ ring["broker"] # <<>> /\ MayEmit(strat, d, now)
        /\ strat' = AfterEmit(strat, now) /\ emitted' = Append(emitted, e)
    BY <1>3 DEF StrategyDecide
  <2>2. q \in Quotes
    BY <1>1, <2>1 DEF LoopInv, TypeInv
  <2>3. d \in {"long", "short"}
    BY <2>1 DEF MayEmit, Evaluate
  <2>4. lead \in Int /\ now \in Nat
    BY <1>1, ClockAssumption DEF LoopInv, TypeInv
  <2> HIDE DEF q, d
  <2>5. e \in Signals /\ e.ts = now
    BY <2>2, <2>3, <2>4, SignalType
  <2> HIDE DEF e
  <2>6. strat.lastSignal = 0 \/
          now - strat.lastSignal >= IntervalSeconds * MsPerSecond
    BY <2>1 DEF MayEmit, CooledDown
  <2>7. emitted \in Seq(Signals) /\ Gaps(emitted)
        /\ (emitted # <<>> => emitted[Len(emitted)].ts = strat.lastSignal)
    BY <1>1 DEF LoopInv, SignalInv
  <2>8. Gaps(Append(emitted, e))
    BY <2>5, <2>6, <2>7, AppendKeepsGaps
  <2>9. strat'.lastSignal = now
    BY <1>1, <2>1 DEF AfterEmit, LoopInv, TypeInv, StrategyStates
  <2>10. emitted' \in Seq(Signals) /\ emitted'[Len(emitted')] = e
    BY <2>1, <2>5, <2>7
  <2>11. QED
    BY <2>1, <2>5, <2>8, <2>9, <2>10 DEF SignalInv
<1>4. UNCHANGED <<strat, emitted>> \/ StrategyDecide
  BY <1>1 DEF Next, Tick, ReceiveTick, ReceiveQuote, Receive, StrategyThread,
     StrategyStart, StrategyPopTick, StrategyFastDrained,
     StrategyDeribitDrained, vars
<1>5. QED
  BY <1>2, <1>3, <1>4

LEMMA LeadWithinVenuesNext == LoopInv /\ [Next]_vars => LeadWithinVenues'
<1>1. SUFFICES ASSUME LoopInv, [Next]_vars PROVE LeadWithinVenues'
  OBVIOUS
<1>2. CASE UNCHANGED <<spc, lead, win>>
  BY <1>1, <1>2 DEF LoopInv, LeadWithinVenues
<1>3. CASE spc' # "decide"
  BY <1>3 DEF LeadWithinVenues
<1>4. CASE StrategyDeribitDrained /\ spc' = "decide"
  <2>1. PICK session \in Sessions :
          lead' = LeadPrice(win'["fast"], win'["deribit"], session)
    BY <1>4 DEF StrategyDeribitDrained
  <2>2. now \in 0 .. MaxTime
    BY <1>1, ClockAssumption DEF LoopInv, TypeInv
  <2>3. /\ win["fast"] \in Seq(Ticks) /\ win["deribit"] \in Seq(Ticks)
        /\ win \in [Venues -> Seq(Ticks)]
    BY <1>1 DEF LoopInv, TypeInv, Venues
  <2>4. win' = win
    BY <1>4, <2>2, <2>3, PruneKeepsWindow DEF StrategyDeribitDrained
  <2>5. /\ LatestMid(win'["fast"]) \in Nat
        /\ LatestMid(win'["deribit"]) \in Nat
    BY <2>3, <2>4, LatestMidIsNat
  <2>6. HasLead(win'["fast"], win'["deribit"])
    BY <1>4 DEF StrategyDeribitDrained
  <2>7. QED
    BY <2>1, <2>5, <2>6, LeadPriceBounds DEF LeadWithinVenues
<1>5. \/ UNCHANGED <<spc, lead, win>> \/ spc' # "decide"
      \/ StrategyDeribitDrained /\ spc' = "decide"
  BY <1>1 DEF Next, Tick, ReceiveTick, ReceiveQuote, Receive, StrategyThread,
     StrategyStart, StrategyPopTick, StrategyFastDrained, StrategyDecide,
     Venues, vars
<1>6. QED
  BY <1>2, <1>3, <1>4, <1>5

LEMMA SpecLoopInv == Spec => []LoopInv
<1>1. Init => LoopInv
  BY LoopInvInit
<1>2. LoopInv /\ [Next]_vars => LoopInv'
  BY TypeInvNext, SignalInvNext, LeadWithinVenuesNext DEF LoopInv
<1>3. QED
  BY <1>1, <1>2, PTL DEF Spec

(* strategy.cpp:81-85.  Successive signals are at least one interval       *)
(* apart, for every interval, configuration and order of the messages.     *)
THEOREM SignalsAreCooledDown == Spec => []CooldownBetweenSignals
<1>1. LoopInv => CooldownBetweenSignals
  <2>1. SUFFICES ASSUME LoopInv PROVE CooldownBetweenSignals
    OBVIOUS
  <2>2. DOMAIN ring = Rings /\ strat.lastSignal \in 0 .. now
    BY <2>1, ClockAssumption DEF LoopInv, TypeInv, StrategyStates
  <2>3. TypeOK
    BY <2>1, <2>2 DEF LoopInv, TypeInv, TypeOK
  <2>4. QED
    BY <2>1, <2>3 DEF CooldownBetweenSignals, LoopInv, SignalInv, Gaps
<1>2. QED
  BY <1>1, SpecLoopInv, PTL

(* aggregator.cpp:39-57, 94-105.  The lead a decision is taken on lies     *)
(* between the latest prices of the venues, for all prices and for all     *)
(* weights, negative ones and ones that cancel included, unless the        *)
(* weights of the session in force are not sane.                           *)
THEOREM LeadStaysWithinVenues == Spec => []LeadWithinVenues
BY SpecLoopInv, PTL DEF LoopInv

(* aggregator.cpp:18, 26-32.  While the engine has been up for less than   *)
(* the epoch, ingest() drops no tick and prune_old() removes none, at any  *)
(* maximal age: StaleTicksAreNeverUsed fails by more than a corner case.   *)
THEOREM NoTickEverExpires == Spec => NoTickIsStale
<1> DEFINE Kept(v) == win'[v] = IF received' = received /\ ring'[v] # ring[v]
                               THEN Append(win[v], Head(ring[v]))
                               ELSE win[v]
           Step == \A v \in Venues : Kept(v)
<1>1. LoopInv /\ [Next]_vars => [Step]_vars
  <2>1. SUFFICES ASSUME LoopInv, [Next]_vars, NEW v \in Venues
                 PROVE  Kept(v)
    OBVIOUS
  <2>2. /\ now \in 0 .. MaxTime /\ received \in Nat
        /\ win \in [Venues -> Seq(Ticks)] /\ win[v] \in Seq(Ticks)
        /\ ring[v] \in Seq(Ticks)
    BY <2>1, ClockAssumption DEF LoopInv, TypeInv
  <2>3. \A u \in Venues : PruneOld(win[u], now) = win[u]
    BY <2>2, PruneKeepsWindow
  <2>4. CASE UNCHANGED <<win, ring>>
    BY <2>4
  <2>5. CASE UNCHANGED win /\ received' # received
    BY <2>5
  <2>6. CASE StrategyFastDrained \/ StrategyDeribitDrained
    <3>1. win' = win /\ ring' = ring
      BY <2>2, <2>3, <2>6 DEF StrategyFastDrained, StrategyDeribitDrained, Venues
    <3>2. QED
      BY <3>1
  <2>7. CASE UNCHANGED win /\ StrategyDecide
    <3>1. ring'[v] = ring[v]
      BY <2>1, <2>7 DEF StrategyDecide, LoopInv, TypeInv, Venues, Rings
    <3>2. QED
      BY <2>7, <3>1
  <2>8. ASSUME NEW u \in Venues, StrategyPopTick(u)
        PROVE  Kept(v)
    <3>1. v \in DOMAIN ring /\ v \in DOMAIN win
      BY <2>1 DEF LoopInv, TypeInv, Rings
    <3>2. CASE u = v
      <4>1. Head(ring[v]) \in Ticks /\ ring[v] # <<>>
        BY <2>2, <2>8, <3>2 DEF StrategyPopTick
      <4>2. Ingest(win[v], Head(ring[v]), now) = Append(win[v], Head(ring[v]))
        BY <2>2, <4>1, IngestAppends
      <4>3. Tail(ring[v]) # ring[v]
        <5> DEFINE before == Len(ring[v])
                   after == Len(Tail(ring[v]))
        <5>1. after = before - 1 /\ before \in Nat
          BY <2>2, <4>1
        <5> HIDE DEF before, after
        <5>2. after # before
          BY <5>1
        <5>3. QED
          BY <5>2 DEF before, after
      <4>4. /\ ring'[v] = Tail(ring[v]) /\ received' = received
            /\ win'[v] = Ingest(win[v], Head(ring[v]), now)
        BY <2>8, <3>1, <3>2 DEF StrategyPopTick
      <4>5. QED
        BY <4>2, <4>3, <4>4
    <3>3. CASE u # v
      BY <2>8, <3>1, <3>3 DEF StrategyPopTick
    <3>4. QED
      BY <3>2, <3>3
  <2>9. \/ UNCHANGED <<win, ring>>
        \/ UNCHANGED win /\ received' # received
        \/ StrategyFastDrained \/ StrategyDeribitDrained
        \/ UNCHANGED win /\ StrategyDecide
        \/ \E u \in Venues : StrategyPopTick(u)
    <3>1. CASE Tick \/ StrategyStart \/ UNCHANGED vars
      BY <3>1 DEF Tick, StrategyStart, vars
    <3>2. ASSUME NEW r, NEW items, Receive(r, items)
          PROVE  UNCHANGED win /\ received' # received
      BY <2>2, <3>2 DEF Receive
    <3>3. CASE \E u \in Venues, p \in Prices : ReceiveTick(u, p)
      BY <3>2, <3>3 DEF ReceiveTick
    <3>4. CASE \E q \in Quotes : ReceiveQuote(q)
      BY <3>2, <3>4 DEF ReceiveQuote
    <3>5. CASE StrategyDecide
      BY <3>5 DEF StrategyDecide
    <3>6. QED
      BY <2>1, <3>1, <3>3, <3>4, <3>5 DEF Next, StrategyThread
  <2>10. QED
    BY <2>4, <2>5, <2>6, <2>7, <2>8, <2>9
<1>2. QED
  BY <1>1, SpecLoopInv, PTL DEF Spec, NoTickIsStale

-----------------------------------------------------------------------------
(* WsFeed: what keeps a reader connected, for all delays and any number of *)
(* failures.                                                               *)

Stages == {"resolve", "connect", "tls", "ws", "subscribe", "read", "gone"}
SessionSet == [stage : Stages, pong : BOOLEAN]

\* FeedTypeOK, and the Sessions as a sequence of any length.
FeedTypes ==
  /\ FeedTypeOK
  /\ sessions \in Seq(SessionSet)

(* There is nothing before run() has spawned the first Session, and the    *)
(* flag of stop() is down as long as nobody called it.                     *)
StartInv ==
  /\ ctl \in {"off", "up"} <=> ~stopped
  /\ ctl = "off" <=> rdr = "none"
  /\ rdr \in {"none", "init", "spawn"} =>
       sessions = <<>> /\ timers = 0 /\ forks = 0
  /\ feed # "bybit" => forks = 0

Failing == IF rdr = "fail" THEN 1 ELSE 0

\* A Session, a timer, or a failure that is about to set one.
ChainInv ==
  rdr \in {"loop", "fail"} /\ ~stopped =>
    Cardinality(Live) + timers + Failing = 1 + forks

FeedInv == FeedTypes /\ StartInv /\ ChainInv

LEMMA FeedInvInit ==
  FeedInit => FeedInv
<1>1. SUFFICES ASSUME FeedInit PROVE FeedInv
  OBVIOUS
<1>2. sessions = <<>> /\ sessions \in Seq(SessionSet) /\ Len(sessions) = 0
      /\ DOMAIN sessions = {}
  BY <1>1 DEF FeedInit
<1>3. delay \in BaseDelay .. MaxDelay /\ faults \in 0 .. MaxFaults
  BY <1>1, DelayAssumption, MaxFaultsAssumption DEF FeedInit
<1>4. FeedTypes
  <2>1. {running, stopped, io, ioStopped, guard} \subseteq BOOLEAN
    BY <1>1 DEF FeedInit
  <2>2. {current, cancelled} \subseteq 0 .. Len(sessions)
    BY <1>1, <1>2 DEF FeedInit
  <2>3. QED
    BY <1>1, <1>2, <1>3, <2>1, <2>2 DEF FeedInit, FeedTypes, FeedTypeOK
<1>5. StartInv /\ ChainInv
  BY <1>1 DEF FeedInit, StartInv, ChainInv
<1>6. QED
  BY <1>4, <1>5 DEF FeedInv

LEMMA StagesOf ==
  ASSUME NEW s \in Seq(SessionSet)
  PROVE  \A k \in DOMAIN s : s[k] \in SessionSet /\ s[k].stage \in Stages
<1>1. \A k \in DOMAIN s : s[k] \in SessionSet
  OBVIOUS
<1>2. QED
  BY <1>1 DEF SessionSet

LEMMA LiveFinite ==
  ASSUME FeedTypes
  PROVE  /\ Len(sessions) \in Nat /\ DOMAIN sessions = 1 .. Len(sessions)
         /\ IsFiniteSet(Live) /\ Cardinality(Live) \in Nat
         /\ timers \in Nat /\ forks \in Nat
         /\ \A i \in DOMAIN sessions : sessions[i] \in SessionSet
<1>1. /\ Len(sessions) \in Nat /\ DOMAIN sessions = 1 .. Len(sessions)
      /\ timers \in Nat /\ forks \in Nat
      /\ \A i \in DOMAIN sessions : sessions[i] \in SessionSet
  BY DEF FeedTypes, FeedTypeOK
<1>2. IsFiniteSet(1 .. Len(sessions))
  BY <1>1, FS_Interval
<1>3. Live \subseteq 1 .. Len(sessions)
  BY <1>1 DEF Live
<1>4. IsFiniteSet(Live)
  BY <1>2, <1>3, FS_Subset
<1>5. QED
  BY <1>1, <1>4, FS_CardinalityType

-----------------------------------------------------------------------------
(* What a handler does to the sessions.                                    *)

LEMMA StageChanges ==
  ASSUME FeedTypes, NEW i \in DOMAIN sessions, NEW s \in Stages,
         sessions' = [sessions EXCEPT ![i].stage = s]
  PROVE  /\ sessions' \in Seq(SessionSet) /\ Len(sessions') = Len(sessions)
         /\ DOMAIN sessions' = DOMAIN sessions
         /\ \A k \in DOMAIN sessions :
              /\ sessions'[k].pong = sessions[k].pong
              /\ sessions'[k].stage = IF k = i THEN s ELSE sessions[k].stage
         /\ Live' = IF s = "gone" THEN Live \ {i} ELSE Live \cup {i}
<1>1. sessions[i] \in SessionSet /\ DOMAIN sessions = 1 .. Len(sessions)
      /\ Len(sessions) \in Nat
  BY LiveFinite
<1>2. [sessions[i] EXCEPT !.stage = s] \in SessionSet
  BY <1>1 DEF SessionSet
<1>3. sessions' \in Seq(SessionSet) /\ Len(sessions') = Len(sessions)
      /\ DOMAIN sessions' = DOMAIN sessions
  BY <1>1, <1>2, ExceptSeq DEF FeedTypes
<1>4. \A k \in DOMAIN sessions :
              /\ sessions'[k].pong = sessions[k].pong
              /\ sessions'[k].stage = IF k = i THEN s ELSE sessions[k].stage
  BY <1>1, LiveFinite DEF SessionSet
<1>5. QED
  BY <1>3, <1>4 DEF Live

LEMMA PongChanges ==
  ASSUME FeedTypes, NEW i \in DOMAIN sessions, NEW b \in BOOLEAN,
         sessions' = [sessions EXCEPT ![i].pong = b]
  PROVE  /\ sessions' \in Seq(SessionSet) /\ Len(sessions') = Len(sessions)
         /\ DOMAIN sessions' = DOMAIN sessions
         /\ \A k \in DOMAIN sessions :
              /\ sessions'[k].pong = IF k = i THEN b ELSE sessions[k].pong
              /\ sessions'[k].stage = sessions[k].stage
         /\ Live' = Live
<1>1. sessions[i] \in SessionSet /\ DOMAIN sessions = 1 .. Len(sessions)
      /\ Len(sessions) \in Nat
  BY LiveFinite
<1>2. [sessions[i] EXCEPT !.pong = b] \in SessionSet
  BY <1>1 DEF SessionSet
<1>3. sessions' \in Seq(SessionSet) /\ Len(sessions') = Len(sessions)
      /\ DOMAIN sessions' = DOMAIN sessions
  BY <1>1, <1>2, ExceptSeq DEF FeedTypes
<1>4. \A k \in DOMAIN sessions :
              /\ sessions'[k].pong = IF k = i THEN b ELSE sessions[k].pong
              /\ sessions'[k].stage = sessions[k].stage
  BY <1>1, LiveFinite DEF SessionSet
<1>5. QED
  BY <1>3, <1>4 DEF Live

\* spawn_session() adds a live Session, unless stop() was called.
LEMMA Spawns ==
  ASSUME FeedTypes, Spawn, feed' = feed
  PROVE  /\ sessions' \in Seq(SessionSet)
         /\ current' \in 0 .. Len(sessions')
         /\ Len(sessions) <= Len(sessions')
         /\ \A i \in DOMAIN sessions' : sessions'[i].pong => feed = "bybit"
         /\ stopped => sessions' = sessions
         /\ ~stopped => Cardinality(Live') = Cardinality(Live) + 1
<1>1. CASE stopped
  BY <1>1, LiveFinite DEF Spawn, FeedTypes, FeedTypeOK
<1>2. CASE ~stopped
  <2> DEFINE new == [stage |-> "resolve", pong |-> FALSE]
             n == Len(sessions) + 1
  <2>1. sessions' = Append(sessions, new) /\ current' = n
    BY <1>2 DEF Spawn
  <2>2. new \in SessionSet
    BY DEF SessionSet, Stages
  <2>3. /\ sessions' \in Seq(SessionSet) /\ Len(sessions') = n
        /\ DOMAIN sessions' = 1 .. n
        /\ sessions'[n] = new
        /\ \A k \in DOMAIN sessions : sessions'[k] = sessions[k]
    BY <2>1, <2>2, AppendProperties, LiveFinite DEF FeedTypes
  <2>4. n \in Nat /\ n \notin DOMAIN sessions
        /\ DOMAIN sessions' = DOMAIN sessions \cup {n}
    BY <2>3, LiveFinite
  <2>5. Live' = Live \cup {n} /\ n \notin Live
    BY <2>3, <2>4 DEF Live
  <2>6. Cardinality(Live \cup {n}) = Cardinality(Live) + 1
    BY <2>5, LiveFinite, FS_AddElement
  <2>7. \A i \in DOMAIN sessions' : sessions'[i].pong => feed = "bybit"
    BY <2>3, <2>4 DEF FeedTypes, FeedTypeOK
  <2>8. current' \in 0 .. Len(sessions') /\ Len(sessions) <= Len(sessions')
    BY <2>1, <2>3, <2>4, LiveFinite
  <2>9. QED
    BY <1>2, <2>3, <2>5, <2>6, <2>7, <2>8
<1>3. QED
  BY <1>1, <1>2

-----------------------------------------------------------------------------
(* The steps.                                                              *)

LEMMA MainStep ==
  ASSUME FeedInv, Start \/ StopRaise \/ Main \/ GuardFires
  PROVE  FeedInv'
<1>1. FeedTypes /\ StartInv /\ Len(sessions) \in Nat
  BY LiveFinite DEF FeedInv
<1>2. CASE Start
  <2>1. FeedTypes' /\ StartInv'
    BY <1>1, <1>2 DEF Start, FeedTypes, FeedTypeOK, StartInv, ioVars, netVars
  <2>2. ChainInv'
    BY <1>2 DEF Start, ChainInv
  <2>3. QED
    BY <2>1, <2>2 DEF FeedInv
<1>3. CASE StopRaise \/ Main \/ GuardFires
  <2>1. /\ UNCHANGED <<feed, sessions, timers, forks, rdr, delay, faults, current>>
        /\ stopped => stopped'
    BY <1>3 DEF StopRaise, Main, StopLooks, StopTests, StopUses, StopIo, Join,
         GuardFires, ioVars, netVars, ctlVars
  <2>2. FeedTypes'
    <3>1. /\ ctl' \in {"off", "up", "told", "cancel", "use", "stopIo", "join",
                       "down", "crashed"}
          /\ {running', stopped', io', ioStopped', guard'} \subseteq BOOLEAN
          /\ cancelled' \in {cancelled, current}
      BY <1>1, <1>3 DEF StopRaise, Main, StopLooks, StopTests, StopUses, StopIo, Join,
           GuardFires, ioVars, netVars, ctlVars, FeedTypes, FeedTypeOK
    <3>2. QED
      BY <1>1, <2>1, <3>1 DEF FeedTypes, FeedTypeOK
  <2>3. StartInv'
    BY <1>1, <1>3, <2>1 DEF StopRaise, Main, StopLooks, StopTests, StopUses, StopIo,
         Join, GuardFires, ioVars, netVars, ctlVars, StartInv
  <2>4. ChainInv'
    <3>1. Live' = Live /\ Failing' = Failing
      BY <2>1 DEF Live, Failing
    <3>2. QED
      BY <2>1, <3>1 DEF FeedInv, ChainInv
  <2>5. QED
    BY <2>2, <2>3, <2>4 DEF FeedInv
<1>4. QED
  BY <1>2, <1>3

LEMMA BackoffBounds ==
  ASSUME NEW d \in BaseDelay .. MaxDelay
  PROVE  Backoff(d) \in BaseDelay .. MaxDelay
BY DelayAssumption DEF Backoff

\* run() itself, fail() and the reconnect timer.
LEMMA RunStep ==
  ASSUME FeedInv,
         RunInit \/ RunSpawn \/ RunReturns \/ FailRest \/ TimerFires
  PROVE  FeedInv'
<1>1. FeedTypes /\ StartInv /\ ChainInv /\ Len(sessions) \in Nat
      /\ Cardinality(Live) \in Nat /\ timers \in Nat /\ forks \in Nat
  BY LiveFinite DEF FeedInv
<1>2. CASE RunInit
  <2>1. FeedTypes' /\ StartInv'
    <3>1. BaseDelay \in BaseDelay .. MaxDelay
      BY DelayAssumption
    <3>2. QED
      BY <1>1, <1>2, <3>1 DEF RunInit, FeedTypes, FeedTypeOK, StartInv, ctlVars, netVars
  <2>2. ChainInv'
    BY <1>2 DEF RunInit, ChainInv
  <2>3. QED
    BY <2>1, <2>2 DEF FeedInv
<1>3. CASE RunSpawn \/ TimerFires
  <2>1. /\ Spawn /\ rdr' = "loop" /\ rdr \in {"spawn", "loop"}
        /\ UNCHANGED <<feed, ctl, running, stopped, io, ioStopped, cancelled, delay,
                       faults, forks>>
        /\ guard' \in {guard, TRUE}
        /\ \/ rdr = "spawn" /\ timers' = timers
           \/ rdr = "loop" /\ timers > 0 /\ timers' = timers - 1
    BY <1>3 DEF RunSpawn, TimerFires, HandlerRuns, ctlVars, ioVars, netVars
  <2>2. /\ sessions' \in Seq(SessionSet)
        /\ current' \in 0 .. Len(sessions')
        /\ Len(sessions) <= Len(sessions')
        /\ \A i \in DOMAIN sessions' : sessions'[i].pong => feed = "bybit"
        /\ ~stopped => Cardinality(Live') = Cardinality(Live) + 1
    BY <1>1, <2>1, Spawns
  <2>3. FeedTypes'
    <3>1. \A i \in DOMAIN sessions' : sessions'[i].stage \in Stages
      BY <2>2, StagesOf
    <3>2. cancelled \in 0 .. Len(sessions') /\ timers' \in Nat
      <4>1. cancelled \in 0 .. Len(sessions) /\ Len(sessions') \in Nat
        BY <1>1, <2>2 DEF FeedTypes, FeedTypeOK
      <4>2. QED
        BY <1>1, <2>1, <2>2, <4>1
    <3>4. {running', stopped', io', ioStopped', guard'} \subseteq BOOLEAN
      BY <1>1, <2>1 DEF FeedTypes, FeedTypeOK
    <3>3. QED
      BY <1>1, <2>1, <2>2, <3>1, <3>2, <3>4 DEF FeedTypes, FeedTypeOK, Stages
  <2>4. StartInv'
    BY <1>1, <2>1 DEF StartInv
  <2>5. ChainInv'
    <3>1. SUFFICES ASSUME ~stopped
                   PROVE  Cardinality(Live') + timers' + 0 = 1 + forks
      BY <2>1 DEF ChainInv, Failing
    <3>2. CASE rdr = "spawn"
      <4>1. sessions = <<>> /\ timers = 0 /\ forks = 0
        BY <1>1, <3>2 DEF StartInv
      <4>2. Cardinality(Live) = 0
        BY <4>1, FS_EmptySet DEF Live
      <4>3. QED
        BY <2>1, <2>2, <3>1, <3>2, <4>1, <4>2
    <3>3. CASE rdr = "loop"
      <4>1. Cardinality(Live) + timers + 0 = 1 + forks
        BY <1>1, <3>1, <3>3 DEF ChainInv, Failing
      <4>2. QED
        BY <1>1, <2>1, <2>2, <3>1, <3>3, <4>1
    <3>4. QED
      BY <2>1, <3>2, <3>3
  <2>6. QED
    BY <2>3, <2>4, <2>5 DEF FeedInv
<1>4. CASE RunReturns
  <2>1. FeedTypes' /\ StartInv'
    BY <1>1, <1>4 DEF RunReturns, FeedTypes, FeedTypeOK, StartInv, netVars
  <2>2. ChainInv'
    BY <1>4 DEF RunReturns, ChainInv
  <2>3. QED
    BY <2>1, <2>2 DEF FeedInv
<1>5. CASE FailRest
  <2>1. FeedTypes' /\ StartInv'
    <3>1. Backoff(delay) \in BaseDelay .. MaxDelay
      BY <1>1, BackoffBounds DEF FeedTypes, FeedTypeOK
    <3>2. timers' \in Nat /\ current' \in 0 .. Len(sessions)
      BY <1>1, <1>5 DEF FailRest
    <3>3. QED
      BY <1>1, <1>5, <3>1, <3>2 DEF FailRest, FeedTypes, FeedTypeOK, StartInv, ctlVars,
           ioVars, netVars
  <2>2. ChainInv'
    <3>1. Live' = Live /\ Failing = 1 /\ Failing' = 0
      BY <1>5 DEF FailRest, Live, Failing
    <3>2. QED
      BY <1>1, <1>5, <3>1 DEF FailRest, ChainInv, ctlVars, netVars
  <2>3. QED
    BY <2>1, <2>2 DEF FeedInv
<1>6. QED
  BY <1>2, <1>3, <1>4, <1>5

\* A Session goes on, or reads a ping, or has written its pong.
LEMMA SessionStep ==
  ASSUME FeedInv, NEW i \in DOMAIN sessions,
         OpDone(i) \/ ReadPing(i) \/ PongWritten(i)
  PROVE  FeedInv'
<1>1. FeedTypes /\ StartInv /\ ChainInv /\ Len(sessions) \in Nat
      /\ sessions[i] \in SessionSet
  BY LiveFinite DEF FeedInv
<1>2. /\ UNCHANGED <<feed, ctl, running, stopped, rdr, io, ioStopped, guard, current,
                     cancelled, timers, delay, faults, forks>>
      /\ rdr = "loop"
  BY DEF OpDone, ReadPing, PongWritten, HandlerRuns, ctlVars, ioVars, netVars
<1>3. /\ sessions' \in Seq(SessionSet) /\ Len(sessions') = Len(sessions)
      /\ \A k \in DOMAIN sessions' : sessions'[k].pong => feed = "bybit"
      /\ Live' = Live
  <2>1. CASE OpDone(i)
    <3>1. Follows(sessions[i].stage) \in Stages \ {"gone"} /\ i \in Live
      BY <2>1 DEF OpDone, Follows, Stages
    <3>2. sessions' = [sessions EXCEPT ![i].stage = Follows(sessions[i].stage)]
      BY <2>1 DEF OpDone
    <3>3. /\ sessions' \in Seq(SessionSet) /\ Len(sessions') = Len(sessions)
          /\ DOMAIN sessions' = DOMAIN sessions
          /\ \A k \in DOMAIN sessions : sessions'[k].pong = sessions[k].pong
          /\ Live' = Live \cup {i}
      BY <1>1, <3>1, <3>2, StageChanges
    <3>4. QED
      BY <1>1, <3>1, <3>3 DEF FeedTypes, FeedTypeOK
  <2>2. CASE ReadPing(i)
    <3>1. sessions' = [sessions EXCEPT ![i].pong = TRUE] /\ feed = "bybit"
      BY <2>2 DEF ReadPing
    <3>2. QED
      BY <1>1, <3>1, PongChanges DEF FeedTypes, FeedTypeOK
  <2>3. CASE PongWritten(i)
    <3>1. sessions' = [sessions EXCEPT ![i].pong = FALSE]
      BY <2>3 DEF PongWritten
    <3>2. QED
      BY <1>1, <3>1, PongChanges DEF FeedTypes, FeedTypeOK
  <2>4. QED
    BY <2>1, <2>2, <2>3
<1>4. FeedTypes'
  <2>1. \A k \in DOMAIN sessions' : sessions'[k].stage \in Stages
    BY <1>3, StagesOf
  <2>2. QED
    BY <1>1, <1>2, <1>3, <2>1 DEF FeedTypes, FeedTypeOK, Stages
<1>5. StartInv' /\ ChainInv'
  BY <1>1, <1>2, <1>3 DEF StartInv, ChainInv, Failing
<1>6. QED
  BY <1>4, <1>5 DEF FeedInv

\* A failed operation ends its chain and enters fail(); a failed pong enters
\* fail() and leaves the chain alone, which makes one more.
LEMMA FailStep ==
  ASSUME FeedInv, NEW i \in DOMAIN sessions,
         OpFails(i) \/ PongFails(i)
  PROVE  FeedInv'
<1>1. FeedTypes /\ StartInv /\ ChainInv /\ Len(sessions) \in Nat
      /\ IsFiniteSet(Live) /\ Cardinality(Live) \in Nat
      /\ timers \in Nat /\ forks \in Nat
  BY LiveFinite DEF FeedInv
<1>2. /\ UNCHANGED <<feed, ctl, running, stopped, io, ioStopped, guard, current,
                     cancelled, timers, delay>>
      /\ rdr = "loop" /\ rdr' = (IF stopped THEN "loop" ELSE "fail")
      /\ faults' \in {faults, faults + 1} /\ (faults' # faults => faults < MaxFaults)
  BY DEF OpFails, PongFails, Fault, EnterFail, HandlerRuns, ctlVars, ioVars
<1>3. /\ sessions' \in Seq(SessionSet) /\ Len(sessions') = Len(sessions)
      /\ \A k \in DOMAIN sessions' : sessions'[k].pong => feed = "bybit"
      /\ forks' \in Nat /\ (feed # "bybit" => forks' = forks)
      /\ Cardinality(Live') \in Int
      /\ ~stopped => Cardinality(Live') + 1 + forks = Cardinality(Live) + forks'
  <2>1. CASE OpFails(i)
    <3>1. /\ sessions' = [sessions EXCEPT ![i].stage = "gone"]
          /\ i \in Live /\ forks' = forks
      BY <2>1 DEF OpFails
    <3>2. "gone" \in Stages
      BY DEF Stages
    <3>3. Live' = Live \ {i}
      BY <1>1, <3>1, <3>2, StageChanges
    <3>4. Cardinality(Live \ {i}) = Cardinality(Live) - 1
      BY <1>1, <3>1, FS_RemoveElement
    <3>5. /\ sessions' \in Seq(SessionSet) /\ Len(sessions') = Len(sessions)
          /\ \A k \in DOMAIN sessions' : sessions'[k].pong => feed = "bybit"
      BY <1>1, <3>1, <3>2, StageChanges DEF FeedTypes, FeedTypeOK
    <3>6. /\ Cardinality(Live') \in Int
          /\ Cardinality(Live') + 1 + forks = Cardinality(Live) + forks'
      BY <1>1, <3>1, <3>3, <3>4
    <3>7. QED
      BY <1>1, <3>1, <3>5, <3>6
  <2>2. CASE PongFails(i)
    <3>1. /\ sessions' = [sessions EXCEPT ![i].pong = FALSE]
          /\ sessions[i].pong
          /\ forks' = (IF stopped THEN forks ELSE forks + 1)
      BY <2>2 DEF PongFails
    <3>2. feed = "bybit"
      BY <1>1, <3>1 DEF FeedTypes, FeedTypeOK
    <3>3. /\ sessions' \in Seq(SessionSet) /\ Len(sessions') = Len(sessions)
          /\ \A k \in DOMAIN sessions' : sessions'[k].pong => feed = "bybit"
          /\ Live' = Live
      BY <1>1, <3>1, <3>2, PongChanges
    <3>4. ~stopped => Cardinality(Live') + 1 + forks = Cardinality(Live) + forks'
      BY <1>1, <3>1, <3>3
    <3>5. QED
      BY <1>1, <3>1, <3>2, <3>3, <3>4
  <2>3. QED
    BY <2>1, <2>2
<1>4. FeedTypes'
  <2>1. \A k \in DOMAIN sessions' : sessions'[k].stage \in Stages
    BY <1>3, StagesOf
  <2>2. faults' \in 0 .. MaxFaults
    BY <1>1, <1>2, MaxFaultsAssumption DEF FeedTypes, FeedTypeOK
  <2>3. rdr' \in {"none", "init", "spawn", "loop", "fail", "exited"}
    BY <1>2
  <2>4. QED
    BY <1>1, <1>2, <1>3, <2>1, <2>2, <2>3 DEF FeedTypes, FeedTypeOK, Stages
<1>5. StartInv'
  BY <1>1, <1>2, <1>3 DEF StartInv
<1>6. ChainInv'
  <2>1. SUFFICES ASSUME ~stopped
                 PROVE  Cardinality(Live') + timers + 1 = 1 + forks'
    BY <1>2 DEF ChainInv, Failing
  <2>2. Cardinality(Live) + timers + 0 = 1 + forks
    BY <1>1, <1>2, <2>1 DEF ChainInv, Failing
  <2>3. QED
    BY <1>1, <1>3, <2>1, <2>2
<1>7. QED
  BY <1>4, <1>5, <1>6 DEF FeedInv

LEMMA FeedInvNext ==
  FeedInv /\ [FeedNext]_feedVars => FeedInv'
<1>1. SUFFICES ASSUME FeedInv, [FeedNext]_feedVars PROVE FeedInv'
  OBVIOUS
<1>2. CASE UNCHANGED feedVars
  BY <1>1, <1>2 DEF feedVars, ctlVars, ioVars, netVars, FeedInv, FeedTypes,
     FeedTypeOK, StartInv,
       ChainInv, Failing, Live
<1>3. CASE Start \/ StopRaise \/ Main \/ GuardFires
  BY <1>1, <1>3, MainStep
<1>4. CASE RunInit \/ RunSpawn \/ RunReturns \/ FailRest \/ TimerFires
  BY <1>1, <1>4, RunStep
<1>5. CASE \E i \in DOMAIN sessions : OpDone(i) \/ ReadPing(i) \/ PongWritten(i)
  BY <1>1, <1>5, SessionStep
<1>6. CASE \E i \in DOMAIN sessions : OpFails(i) \/ PongFails(i)
  BY <1>1, <1>6, FailStep
<1>7. QED
  BY <1>1, <1>2, <1>3, <1>4, <1>5, <1>6 DEF FeedNext, Progress, Thread

(* binance_ws.cpp:119-128, 192-205, bybit_ws.cpp:142-168.  Until stop() is *)
(* called a reader has exactly one Session, failure in hand or reconnect   *)
(* timer, and one more for each pong that Bybit's reader could not write:  *)
(* no failure goes without its timer and no timer spawns two Sessions, for *)
(* any delays and any number of failures.                                  *)
THEOREM FeedChainsAccounted ==
  FeedFairSpec => []ChainsAccounted
<1>1. FeedInit => FeedInv
  BY FeedInvInit
<1>2. FeedInv /\ [FeedNext]_feedVars => FeedInv'
  BY FeedInvNext
<1>3. FeedInv => ChainsAccounted
  BY DEF FeedInv, FeedTypes, StartInv, ChainInv, Failing, ChainsAccounted
<1>4. QED
  BY <1>1, <1>2, <1>3, PTL DEF FeedFairSpec

-----------------------------------------------------------------------------
(* SpscRing: the ring for every capacity, payload layout and number of     *)
(* pushes.  The safety properties share one inductive invariant,           *)
(* SafetyInv; its parts are proved preserved one lemma each.               *)

USE CapacityAssumption, MaxPushAssumption

(* The masked increment stays inside the slot array.                       *)
LEMMA AdvanceInSlots == \A i \in Slots : Advance(i) \in Slots /\ Advance(i) # i
BY DEF Slots, Advance

(* The occupancy of the ring lies between 0 and Capacity - 1, and is 0     *)
(* exactly when the indices meet.                                          *)
LEMMA SizeBounds ==
  ASSUME head \in Slots, tail \in Slots
  PROVE  Size \in 0 .. Capacity - 1 /\ (Size = 0 <=> head = tail)
BY DEF Slots, Size

(* Moving head grows the occupancy by one, or empties a full ring.         *)
LEMMA SizeAfterPush ==
  ASSUME RingTypeOK, head' = Advance(head), tail' = tail
  PROVE  IF Advance(head) = tail THEN Size' = 0 /\ Size = Capacity - 1
                                 ELSE Size' = Size + 1
BY DEF RingTypeOK, Slots, Size, Advance

(* Moving tail on a non-empty ring shrinks the occupancy by one.           *)
LEMMA SizeAfterPop ==
  ASSUME RingTypeOK, tail' = Advance(tail), head' = head, Size > 0
  PROVE  Size' = Size - 1
BY DEF RingTypeOK, Slots, Size, Advance

(* The empty ring satisfies the invariant.                                 *)
LEMMA InitSafetyInv == RingInit => SafetyInv
<1> SUFFICES ASSUME RingInit PROVE SafetyInv
  OBVIOUS
<1>1. RingTypeOK
  <2>1. slots \in [Slots -> [Words -> Nat]] /\ out \in [Words -> Nat]
        /\ last \in [Words -> Nat]
    BY DEF RingInit, Frame
  <2>2. head \in Slots /\ tail \in Slots /\ pushed \in 0 .. MaxPush
    BY DEF RingInit, Slots
  <2>3. QED
    BY <2>1, <2>2 DEF RingInit, RingTypeOK
<1>2. SlotsInv
  BY DEF RingInit, SlotsInv, Content, Slots, Frame
<1>3. Size = 0
  BY DEF RingInit, Size
<1>4. ReaderInv /\ LapsInv /\ LosslessUntilLapped /\ OverrunIsReported
  BY <1>3 DEF RingInit, ReaderInv, LapsInv, LosslessUntilLapped,
              OverrunIsReported, Frame
<1>5. QED
  BY <1>1, <1>2, <1>4 DEF SafetyInv

(* Every step keeps the variables in their types.                          *)
LEMMA TypeStep ==
  ASSUME RingTypeOK, SlotsInv, [RingNext]_ringVars
  PROVE  RingTypeOK'
<1>1. CASE PushBegin
  BY <1>1 DEF PushBegin, RingTypeOK, Slots
<1>2. ASSUME NEW w \in Words, PushWord(w) PROVE RingTypeOK'
  BY <1>2 DEF PushWord, RingTypeOK, Slots
<1>3. CASE PushPublish
  <2>1. Advance(head) \in Slots
    BY AdvanceInSlots DEF RingTypeOK
  <2>2. pushed + 1 \in 0 .. MaxPush
    BY <1>3 DEF PushPublish, RingTypeOK, SlotsInv
  <2>3. QED
    BY <1>3, <2>1, <2>2 DEF PushPublish, RingTypeOK, Slots
<1>4. CASE PopBegin
  BY <1>4 DEF PopBegin, RingTypeOK, Slots
<1>5. ASSUME NEW w \in Words, PopWord(w) PROVE RingTypeOK'
  BY <1>5 DEF PopWord, RingTypeOK, Slots
<1>6. CASE PopAdvance
  <2>1. Advance(tail) \in Slots
    BY AdvanceInSlots DEF RingTypeOK
  <2>2. QED
    BY <1>6, <2>1 DEF PopAdvance, RingTypeOK, Slots
<1>7. CASE UNCHANGED ringVars
  BY <1>7 DEF ringVars, RingTypeOK, Slots
<1>8. QED
  BY <1>1, <1>2, <1>3, <1>4, <1>5, <1>6, <1>7 DEF RingNext, Push, Pop

(* Only a push changes the slots, and it keeps their content predictable.  *)
LEMMA SlotsStep ==
  ASSUME RingTypeOK, SlotsInv, [RingNext]_ringVars
  PROVE  SlotsInv'
<1>1. CASE PushBegin
  BY <1>1 DEF PushBegin, RingTypeOK, SlotsInv, Content, Slots
<1>2. ASSUME NEW w \in Words, PushWord(w) PROVE SlotsInv'
  BY <1>2 DEF PushWord, RingTypeOK, SlotsInv, Content, Slots
<1>3. CASE PushPublish
  <2>1. \A i \in Slots : \A w \in Words :
          slots[i][w] = IF i = head THEN pushed + 1 ELSE Content(i)
    BY <1>3 DEF PushPublish, SlotsInv
  <2>2. \A i \in Slots : Content(i)' = IF i = head THEN pushed + 1 ELSE Content(i)
    BY <1>3 DEF PushPublish, RingTypeOK, SlotsInv, Content, Slots, Advance
  <2>3. pushed' = head' \/ pushed' >= head' + Capacity
    BY <1>3 DEF PushPublish, RingTypeOK, SlotsInv, Slots, Advance
  <2>4. QED
    BY <1>3, <2>1, <2>2, <2>3 DEF PushPublish, SlotsInv
<1>4. CASE PopBegin \/ PopAdvance \/ (\E w \in Words : PopWord(w)) \/ UNCHANGED ringVars
  BY <1>4 DEF PopBegin, PopAdvance, PopWord, ringVars, SlotsInv, Content
<1>5. QED
  BY <1>1, <1>2, <1>3, <1>4 DEF RingNext, Push, Pop

(* The word that pop copies: on a non-empty ring the slot under tail holds *)
(* the oldest of the Size newest frames, whole.                            *)
LEMMA FrontOfBacklog ==
  ASSUME RingTypeOK, SlotsInv, Size > 0, pushed >= Size, NEW w \in Words
  PROVE  slots[tail][w] = pushed - Size + 1
<1>1. tail # head
  BY SizeBounds DEF RingTypeOK
<1>2. slots[tail][w] = Content(tail)
  BY <1>1 DEF RingTypeOK, SlotsInv
<1>3. Content(tail) = pushed - Size + 1
  BY <1>1 DEF RingTypeOK, SlotsInv, Content, Size, Slots
<1>4. QED
  BY <1>2, <1>3

(* Until an overrun hits a pop in progress, the backlog is newer than what *)
(* was delivered and the pop copies its oldest frame.                      *)
LEMMA ReaderStep ==
  ASSUME RingTypeOK, SlotsInv, ReaderInv, [RingNext]_ringVars
  PROVE  ReaderInv'
<1> SUFFICES ASSUME ~raced' PROVE ReaderInv'
  BY DEF ReaderInv
<1>0. /\ Size \in 0 .. Capacity - 1 /\ (Size = 0 <=> head = tail)
      /\ pushed \in Nat
      /\ \A w \in Words : last[w] \in Nat /\ out[w] \in Nat
  BY SizeBounds DEF RingTypeOK
<1>1. CASE PushBegin
  BY <1>1 DEF PushBegin, ReaderInv, Size
<1>2. ASSUME NEW w \in Words, PushWord(w) PROVE ReaderInv'
  BY <1>2 DEF PushWord, ReaderInv, Size
<1>3. CASE PushPublish
  <2>1. ~raced /\ (Advance(head) = tail => reader # "copy")
    BY <1>3 DEF PushPublish
  <2>2. IF Advance(head) = tail THEN Size' = 0 /\ Size = Capacity - 1
                                ELSE Size' = Size + 1
    BY <1>3, SizeAfterPush DEF PushPublish
  <2>3. pushed' = pushed + 1
    BY <1>3 DEF PushPublish
  <2>4. last' = last /\ out' = out /\ reader' = reader /\ toread' = toread
    BY <1>3 DEF PushPublish
  <2>5. CASE Advance(head) = tail
    <3>1. Size' = 0 /\ reader' # "copy"
      BY <2>1, <2>2, <2>4, <2>5
    <3>2. \A w \in Words : last[w] <= pushed + 1
      BY <2>1, <1>0 DEF ReaderInv
    <3>3. QED
      BY <3>1, <3>2, <2>3, <2>4, <1>0 DEF ReaderInv
  <2>6. CASE Advance(head) # tail
    <3>1. Size' = Size + 1 /\ pushed' - Size' = pushed - Size
      BY <2>2, <2>3, <2>6, <1>0
    <3>2. QED
      BY <3>1, <2>1, <2>3, <2>4, <1>0 DEF ReaderInv
  <2>7. QED
    BY <2>5, <2>6
<1>4. CASE PopBegin
  BY <1>4, <1>0 DEF PopBegin, ReaderInv, Size
<1>5. ASSUME NEW w \in Words, PopWord(w) PROVE ReaderInv'
  <2>1. ~raced /\ reader = "copy" /\ Size' = Size /\ pushed' = pushed
    BY <1>5 DEF PopWord, Size
  <2>2. slots[tail][w] = pushed - Size + 1
    BY <2>1, FrontOfBacklog DEF ReaderInv
  <2>3. QED
    BY <1>5, <2>1, <2>2 DEF PopWord, ReaderInv, RingTypeOK
<1>6. CASE PopAdvance
  <2>1. ~raced /\ reader = "copy" /\ toread = {} /\ reader' = "idle"
        /\ last' = out /\ pushed' = pushed
    BY <1>6 DEF PopAdvance
  <2>2. Size > 0 /\ pushed >= Size /\ \A w \in Words : out[w] = pushed - Size + 1
    BY <2>1 DEF ReaderInv
  <2>3. Size' = Size - 1
    BY <1>6, <2>2, SizeAfterPop DEF PopAdvance
  <2>4. QED
    BY <2>1, <2>2, <2>3, <1>0 DEF ReaderInv
<1>7. CASE UNCHANGED ringVars
  BY <1>7 DEF ringVars, ReaderInv, Size
<1>8. QED
  BY <1>1, <1>2, <1>3, <1>4, <1>5, <1>6, <1>7 DEF RingNext, Push, Pop

(* A push that reaches tail, and a pop that passes head, come after the    *)
(* slot array was filled once.                                             *)
LEMMA LapsStep ==
  ASSUME RingTypeOK, SlotsInv, ReaderInv, LapsInv, [RingNext]_ringVars
  PROVE  LapsInv'
<1>1. CASE PushPublish
  <2>1. Advance(head) = tail => pushed + 1 >= Capacity
    BY DEF RingTypeOK, Slots, SlotsInv, LapsInv, Advance
  <2>2. head' < tail => pushed + 1 >= Capacity
    BY <1>1 DEF PushPublish, RingTypeOK, Slots, SlotsInv, LapsInv, Advance
  <2>3. lapped => pushed + 1 >= Capacity
    BY DEF RingTypeOK, LapsInv
  <2>4. raced' => lapped'
    BY <1>1 DEF PushPublish, LapsInv
  <2>5. QED
    BY <1>1, <2>1, <2>2, <2>3, <2>4 DEF PushPublish, LapsInv
<1>2. CASE PopAdvance
  <2>1. SUFFICES ASSUME head < Advance(tail), ~lapped, ~(head < tail)
                 PROVE  FALSE
    BY <1>2 DEF PopAdvance, LapsInv
  <2>2. head # tail
    BY <1>2, <2>1, SizeBounds DEF PopAdvance, ReaderInv, LapsInv, RingTypeOK
  <2>3. QED
    BY <2>1, <2>2 DEF RingTypeOK, Slots, Advance
<1>3. CASE PushBegin \/ PopBegin \/ (\E w \in Words : PushWord(w) \/ PopWord(w))
           \/ UNCHANGED ringVars
  BY <1>3 DEF PushBegin, PopBegin, PushWord, PopWord, ringVars, LapsInv
<1>4. QED
  BY <1>1, <1>2, <1>3 DEF RingNext, Push, Pop

(* Before the first overrun every frame is pop-able or delivered.          *)
LEMMA LosslessStep ==
  ASSUME RingTypeOK, ReaderInv, LapsInv, LosslessUntilLapped, [RingNext]_ringVars
  PROVE  LosslessUntilLapped'
<1> SUFFICES ASSUME ~lapped'
             PROVE  popped' + Size' = pushed' /\ \A w \in Words : last'[w] = popped'
  BY DEF LosslessUntilLapped
<1>0. Size \in 0 .. Capacity - 1 /\ pushed \in Nat /\ popped \in Nat
  BY SizeBounds DEF RingTypeOK
<1>1. CASE PushBegin \/ PopBegin \/ (\E w \in Words : PushWord(w) \/ PopWord(w))
           \/ UNCHANGED ringVars
  BY <1>1 DEF PushBegin, PopBegin, PushWord, PopWord, ringVars,
              LosslessUntilLapped, Size
<1>2. CASE PushPublish
  <2>1. ~lapped /\ Size' = Size + 1
    BY <1>2, SizeAfterPush DEF PushPublish
  <2>2. popped + Size = pushed /\ \A w \in Words : last[w] = popped
    BY <2>1 DEF LosslessUntilLapped
  <2>3. popped' = popped /\ last' = last /\ pushed' = pushed + 1
    BY <1>2 DEF PushPublish
  <2>4. QED
    BY <1>0, <2>1, <2>2, <2>3
<1>3. CASE PopAdvance
  <2>1. ~lapped /\ ~raced /\ popped + Size = pushed
    BY <1>3 DEF PopAdvance, LapsInv, LosslessUntilLapped
  <2>2. Size > 0 /\ \A w \in Words : out[w] = pushed - Size + 1
    BY <1>3, <2>1 DEF PopAdvance, ReaderInv
  <2>3. Size' = Size - 1
    BY <1>3, <2>2, SizeAfterPop DEF PopAdvance
  <2>4. popped' = popped + 1 /\ last' = out /\ pushed' = pushed
    BY <1>3 DEF PopAdvance
  <2>5. QED
    BY <1>0, <2>1, <2>2, <2>3, <2>4
<1>4. QED
  BY <1>1, <1>2, <1>3 DEF RingNext, Push, Pop

(* While a push copies, the reader cannot bring tail to the slot after     *)
(* head: it would have to pop the slot under head, i.e. an empty ring.     *)
LEMMA OverrunStep ==
  ASSUME RingTypeOK, ReaderInv, OverrunIsReported, [RingNext]_ringVars
  PROVE  OverrunIsReported'
<1>1. CASE PushBegin
  BY <1>1 DEF PushBegin, OverrunIsReported, Advance
<1>2. CASE PushPublish
  BY <1>2 DEF PushPublish, OverrunIsReported
<1>3. CASE PopAdvance
  <2>1. SUFFICES ASSUME ~raced PROVE Advance(tail) # Advance(head)
    BY <1>3, <2>1 DEF PopAdvance, OverrunIsReported, Advance
  <2>2. head # tail
    BY <1>3, <2>1, SizeBounds DEF PopAdvance, ReaderInv, RingTypeOK
  <2>3. QED
    BY <2>2 DEF RingTypeOK, Slots, Advance
<1>4. CASE PopBegin \/ (\E w \in Words : PushWord(w) \/ PopWord(w))
           \/ UNCHANGED ringVars
  BY <1>4 DEF PopBegin, PushWord, PopWord, ringVars, OverrunIsReported, Advance
<1>5. QED
  BY <1>1, <1>2, <1>3, <1>4 DEF RingNext, Push, Pop

(* The inductive invariant of the ring (ring.h:38-55), for every capacity. *)
THEOREM RingSafetyInv == RingSpec => []SafetyInv
<1>1. SafetyInv /\ [RingNext]_ringVars => SafetyInv'
  BY TypeStep, SlotsStep, ReaderStep, LapsStep, LosslessStep, OverrunStep
     DEF SafetyInv
<1>2. QED
  BY InitSafetyInv, <1>1, PTL DEF RingSpec

(* Every variable of the ring keeps its type: both indices stay inside the *)
(* slot array however often they wrap.                                     *)
THEOREM RingTypesHold == RingSpec => []RingTypeOK
<1>1. SafetyInv => RingTypeOK
  BY DEF SafetyInv
<1>2. QED
  BY RingSafetyInv, <1>1, PTL

(* The pop-able frames are the newest ones, whole and in order, overruns   *)
(* included (ring.h:40-44).                                                *)
THEOREM RingBacklogIsNewest == RingSpec => []BacklogIsNewest
<1>1. ASSUME SafetyInv PROVE BacklogIsNewest
  <2>1. RingTypeOK /\ SlotsInv /\ LapsInv
    BY <1>1 DEF SafetyInv
  <2>2. SUFFICES ASSUME NEW i \in Slots, NEW w \in Words, i # head,
                        i < head \/ head < tail
                 PROVE  slots[i][w] = IF i < head THEN pushed - head + i + 1
                                      ELSE pushed - head - Capacity + i + 1
    BY <2>1 DEF BacklogIsNewest, RingTypeOK, Slots
  <2>3. slots[i][w] = Content(i)
    BY <2>1, <2>2 DEF SlotsInv
  <2>4. QED
    BY <2>1, <2>2, <2>3 DEF Content, RingTypeOK, Slots, SlotsInv, LapsInv
<1>2. QED
  BY RingSafetyInv, <1>1, PTL

(* A pop delivers one whole frame, newer than all before it, unless an     *)
(* overrun hit a pop in progress (ring.h:48-55).                           *)
THEOREM RingWholeAndInOrder == RingSpec => []WholeAndInOrder
<1>1. ASSUME SafetyInv PROVE WholeAndInOrder
  <2>1. RingTypeOK /\ ReaderInv
    BY <1>1 DEF SafetyInv
  <2>2. SUFFICES ASSUME reader = "copy", toread = {}, ~raced,
                        NEW v \in Words, NEW w \in Words
                 PROVE  out[v] = out[w] /\ last[v] < out[w]
    BY DEF WholeAndInOrder
  <2>3. out[v] = pushed - Size + 1 /\ out[w] = pushed - Size + 1
        /\ last[v] <= pushed - Size
    BY <2>1, <2>2 DEF ReaderInv
  <2>4. Size \in Int /\ pushed \in Int /\ last[v] \in Int
    BY <2>1, SizeBounds DEF RingTypeOK
  <2>5. QED
    BY <2>3, <2>4
<1>2. QED
  BY RingSafetyInv, <1>1, PTL

(* The k-th pop delivers the k-th push until the first overrun.            *)
THEOREM RingLosslessUntilLapped == RingSpec => []LosslessUntilLapped
<1>1. SafetyInv => LosslessUntilLapped
  BY DEF SafetyInv
<1>2. QED
  BY RingSafetyInv, <1>1, PTL

(* push() returns false for every overrun, up to the first one that hits a *)
(* pop in progress (ring.h:41-45).                                         *)
THEOREM RingOverrunIsReported == RingSpec => []OverrunIsReported
<1>1. SafetyInv => OverrunIsReported
  BY DEF SafetyInv
<1>2. QED
  BY RingSafetyInv, <1>1, PTL

-----------------------------------------------------------------------------
(* The refinement.  The backlog is a run of consecutive frames, so that    *)
(* what a step does to it follows from what the step does to its ends.     *)

Frames == [Words -> Nat]
Run(first, n) == [k \in 1 .. n |-> Frame(first + k)]

LEMMA RunIsSeq ==
  ASSUME NEW a \in Nat, NEW n \in Nat
  PROVE  Run(a, n) \in Seq(Frames) /\ Len(Run(a, n)) = n
<1>1. \A k \in 1 .. n : Frame(a + k) \in Frames
  BY DEF Frame, Frames
<1>2. QED
  BY <1>1 DEF Run

(* An empty run is the empty queue.                                        *)
LEMMA EmptyRun == ASSUME NEW a \in Nat PROVE Run(a, 0) = <<>>
<1>1. Run(a, 0) \in Seq(Frames) /\ Len(Run(a, 0)) = 0
  BY RunIsSeq
<1>2. QED
  BY <1>1

LEMMA AppendToRun ==
  ASSUME NEW a \in Nat, NEW n \in Nat
  PROVE  Append(Run(a, n), Frame(a + n + 1)) = Run(a, n + 1)
<1> DEFINE r == Run(a, n)
           t == Run(a, n + 1)
           f == Frame(a + n + 1)
<1>1. /\ r \in Seq(Frames) /\ Len(r) = n
      /\ t \in Seq(Frames) /\ Len(t) = n + 1
      /\ f \in Frames
  BY RunIsSeq DEF Frame, Frames
<1>2. /\ \A k \in 1 .. n : r[k] = Frame(a + k)
      /\ \A k \in 1 .. n + 1 : t[k] = Frame(a + k)
  BY DEF Run
<1> HIDE DEF r, t
<1>3. /\ Append(r, f) \in Seq(Frames) /\ Len(Append(r, f)) = n + 1
      /\ \A k \in 1 .. n + 1 : Append(r, f)[k] = IF k <= n THEN r[k] ELSE f
  BY <1>1
<1>4. \A k \in 1 .. n + 1 : Append(r, f)[k] = t[k]
  BY <1>2, <1>3
<1>5. Append(r, f) = t
  BY <1>1, <1>3, <1>4
<1>6. QED
  BY <1>5 DEF r, t

LEMMA TailOfRun ==
  ASSUME NEW a \in Nat, NEW n \in Nat \ {0}
  PROVE  Run(a, n) # <<>> /\ Tail(Run(a, n)) = Run(a + 1, n - 1)
<1> DEFINE r == Run(a, n)
           t == Run(a + 1, n - 1)
<1>1. /\ r \in Seq(Frames) /\ Len(r) = n
      /\ t \in Seq(Frames) /\ Len(t) = n - 1
  BY RunIsSeq
<1>2. /\ \A k \in 1 .. n : r[k] = Frame(a + k)
      /\ \A k \in 1 .. n - 1 : t[k] = Frame(a + 1 + k)
  BY DEF Run
<1> HIDE DEF r, t
<1>3. /\ r # <<>> /\ Tail(r) \in Seq(Frames) /\ Len(Tail(r)) = n - 1
      /\ \A k \in 1 .. n - 1 : Tail(r)[k] = r[k + 1]
  BY <1>1
<1>4. \A k \in 1 .. n - 1 : Tail(r)[k] = t[k]
  <2>1. \A k \in 1 .. n - 1 : k + 1 \in 1 .. n /\ a + (k + 1) = a + 1 + k
    OBVIOUS
  <2>2. QED
    BY <1>2, <1>3, <2>1
<1>5. Tail(r) = t
  BY <1>1, <1>3, <1>4
<1>6. QED
  BY <1>3, <1>5 DEF r, t

(* Unless an overrun hit a pop, the backlog is the run of the newest       *)
(* frames.                                                                 *)
LEMMA BacklogIsRun ==
  ASSUME SafetyInv, ~raced
  PROVE  /\ Size \in 0 .. Capacity - 1 /\ pushed - Size \in Nat
         /\ Backlog = Run(pushed - Size, Size)
<1>1. RingTypeOK /\ SlotsInv /\ ReaderInv /\ LapsInv
  BY DEF SafetyInv
<1>2. Size \in 0 .. Capacity - 1 /\ pushed \in Nat /\ pushed >= Size
  BY <1>1, SizeBounds DEF RingTypeOK, ReaderInv
<1>3. ASSUME NEW k \in 1 .. Size
      PROVE  Backlog[k] = Frame(pushed - Size + k)
  <2> DEFINE i == IF tail + k > Capacity THEN tail + k - 1 - Capacity
                  ELSE tail + k - 1
  <2>1. /\ i \in Slots /\ i # head
        /\ Content(i) = pushed - Size + k
    BY <1>1, <1>2 DEF RingTypeOK, SlotsInv, LapsInv, Slots, Size, Content
  <2>2. Backlog[k] = slots[i]
    BY DEF Backlog
  <2> HIDE DEF i
  <2>3. \A w \in Words : slots[i][w] = pushed - Size + k
    BY <1>1, <2>1 DEF SlotsInv
  <2>4. slots[i] \in [Words -> Nat]
    BY <1>1, <2>1 DEF RingTypeOK
  <2>5. slots[i] = Frame(pushed - Size + k)
    BY <2>3, <2>4 DEF Frame
  <2>6. QED
    BY <2>2, <2>5
<1>4. Backlog = Run(pushed - Size, Size)
  BY <1>3 DEF Backlog, Run
<1>5. QED
  BY <1>2, <1>4

LEMMA SizeBoundsNext ==
  (head \in Slots /\ tail \in Slots => Size \in 0 .. Capacity - 1)'
<1>1. head \in Slots /\ tail \in Slots => Size \in 0 .. Capacity - 1
  BY SizeBounds
<1>2. QED
  BY <1>1, PTL

LEMMA BacklogIsRunNext ==
  (SafetyInv /\ ~raced => Backlog = Run(pushed - Size, Size))'
<1>1. SafetyInv /\ ~raced => Backlog = Run(pushed - Size, Size)
  BY BacklogIsRun
<1>2. QED
  BY <1>1, PTL

(* Every step of the ring is a step of the queue, or leaves it alone.      *)
LEMMA QueueStep ==
  ASSUME SafetyInv, SafetyInv', [RingNext]_ringVars
  PROVE  [Queue!Next]_<<Backlog, pushed, raced>>
<1> SUFFICES ASSUME ~raced' PROVE [Queue!Next]_<<Backlog, pushed, raced>>
  BY DEF Queue!Next, Queue!Break
<1>1. ~raced
  BY DEF RingNext, Push, Pop, PushBegin, PushWord, PushPublish, PopBegin, PopWord,
     PopAdvance, ringVars
<1>2. /\ RingTypeOK /\ pushed \in Nat
      /\ Size \in 0 .. Capacity - 1 /\ pushed - Size \in Nat
      /\ Backlog = Run(pushed - Size, Size)
  BY <1>1, BacklogIsRun DEF SafetyInv, RingTypeOK
<1>3. Backlog' = Run(pushed' - Size', Size')
  BY BacklogIsRunNext
<1>4. CASE PushBegin \/ PopBegin \/ (\E w \in Words : PushWord(w) \/ PopWord(w))
           \/ UNCHANGED ringVars
  <2>1. Size' = Size /\ pushed' = pushed
    BY <1>4 DEF PushBegin, PopBegin, PushWord, PopWord, ringVars, Size
  <2>2. Backlog' = Backlog /\ raced' = raced
    BY <1>1, <1>2, <1>3, <2>1, <1>4
    DEF PushBegin, PopBegin, PushWord, PopWord, ringVars
  <2>3. QED
    BY <2>1, <2>2
<1>5. CASE PushPublish
  <2>1. /\ pushed' = pushed + 1
        /\ IF Advance(head) = tail THEN Size' = 0 /\ Size = Capacity - 1
                                   ELSE Size' = Size + 1
    BY <1>2, <1>5, SizeAfterPush DEF PushPublish
  <2>2. Len(Backlog) = Size
    BY <1>2, RunIsSeq
  <2>3. Backlog' = RingPush(Capacity, Backlog, Frame(pushed + 1))
    <3>1. CASE Advance(head) = tail
      <4>1. Backlog' = <<>>
        BY <1>2, <1>3, <2>1, <3>1, EmptyRun
      <4>2. QED
        BY <2>1, <2>2, <3>1, <4>1 DEF RingPush
    <3>2. CASE Advance(head) # tail
      <4>1. /\ Size' = Size + 1 /\ Size' \in 0 .. Capacity - 1
            /\ pushed' - Size' = pushed - Size
        <5>1. head' \in Slots /\ tail' \in Slots
          BY DEF SafetyInv, RingTypeOK
        <5>2. Size' \in 0 .. Capacity - 1
          BY <5>1, SizeBoundsNext
        <5> DEFINE n == Size
        <5>3. n \in 0 .. Capacity - 1 /\ pushed' = pushed + 1 /\ n' = n + 1
          BY <1>2, <2>1, <3>2
        <5> HIDE DEF n
        <5>4. pushed' - n' = pushed - n
          BY <1>2, <5>3
        <5>5. QED
          BY <5>2, <5>3, <5>4 DEF n
      <4>2. Append(Run(pushed - Size, Size), Frame(pushed - Size + Size + 1))
              = Run(pushed - Size, Size + 1)
        <5> DEFINE a == pushed - Size
                   n == Size
        <5>1. a \in Nat /\ n \in Nat
          BY <1>2
        <5> HIDE DEF a, n
        <5>2. Append(Run(a, n), Frame(a + n + 1)) = Run(a, n + 1)
          BY <5>1, AppendToRun
        <5>3. QED
          BY <5>2 DEF a, n
      <4>3. pushed - Size + Size + 1 = pushed + 1
        BY <1>2
      <4>4. Backlog' = Append(Backlog, Frame(pushed + 1))
        BY <1>2, <1>3, <4>1, <4>2, <4>3
      <4>5. Size # Capacity - 1
        BY <1>2, <4>1
      <4>6. QED
        BY <2>2, <4>4, <4>5 DEF RingPush
    <3>3. QED
      BY <3>1, <3>2
  <2>4. Queue!Push
    BY <2>1, <2>3 DEF Queue!Push, Queue!RingPush, RingPush
  <2>5. QED
    BY <2>4 DEF Queue!Next
<1>6. CASE PopAdvance
  <2>1. Size > 0 /\ Size' = Size - 1 /\ pushed' = pushed
    <3>1. Size > 0
      BY <1>1, <1>6 DEF PopAdvance, SafetyInv, ReaderInv
    <3>2. Size' = Size - 1
      BY <1>2, <1>6, <3>1, SizeAfterPop DEF PopAdvance
    <3>3. QED
      BY <1>6, <3>1, <3>2 DEF PopAdvance
  <2>2. /\ Run(pushed - Size, Size) # <<>>
        /\ Tail(Run(pushed - Size, Size)) = Run(pushed - Size + 1, Size - 1)
    <3> DEFINE a == pushed - Size
               n == Size
    <3>1. a \in Nat /\ n \in Nat \ {0}
      BY <1>2, <2>1
    <3> HIDE DEF a, n
    <3>2. Run(a, n) # <<>> /\ Tail(Run(a, n)) = Run(a + 1, n - 1)
      BY <3>1, TailOfRun
    <3>3. QED
      BY <3>2 DEF a, n
  <2>3. pushed' - Size' = pushed - Size + 1
    BY <1>2, <2>1
  <2>4. Backlog # <<>> /\ Backlog' = Tail(Backlog)
    BY <1>2, <1>3, <2>1, <2>2, <2>3
  <2>5. Queue!Pop
    BY <2>1, <2>4 DEF Queue!Pop
  <2>6. QED
    BY <2>5 DEF Queue!Next
<1>7. QED
  BY <1>4, <1>5, <1>6 DEF RingNext, Push, Pop

(* ring.h:38-55.  To its two threads the ring is a queue of whole frames   *)
(* that loses its backlog when it overflows, for every capacity and every  *)
(* payload: the word copies are invisible.                                 *)
THEOREM RingImplementsFrameQueue == RingSpec => ImplementsFrameQueue
<1>1. RingInit => Queue!Init
  <2> SUFFICES ASSUME RingInit PROVE Queue!Init
    OBVIOUS
  <2>1. SafetyInv /\ ~raced
    BY InitSafetyInv DEF RingInit
  <2>2. Size = 0 /\ pushed = 0
    BY DEF RingInit, Size
  <2>3. Backlog = <<>>
    BY <2>1, <2>2, BacklogIsRun, EmptyRun
  <2>4. QED
    BY <2>3 DEF RingInit, Queue!Init
<1>2. SafetyInv /\ SafetyInv' /\ [RingNext]_ringVars
        => [Queue!Next]_<<Backlog, pushed, raced>>
  BY QueueStep
<1>3. QED
  BY <1>1, <1>2, RingSafetyInv, PTL DEF RingSpec, ImplementsFrameQueue, Queue!Spec
=============================================================================
