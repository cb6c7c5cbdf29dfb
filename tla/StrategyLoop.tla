---------------------------- MODULE StrategyLoop ----------------------------
(***************************************************************************)
(* The market side of the live engine (src/main.cpp): three reader threads *)
(* fill the rings and the strategy thread turns ticks and quotes into      *)
(* signals, which SignalPath takes on from ExecutionDispatcher::submit().  *)
(*                                                                         *)
(* There are two clocks, as in the code: now_ms() counts from process      *)
(* start and drives the strategy; the readers stamp ticks with the system  *)
(* clock, which is Epoch ahead of it.  The engine never calls              *)
(* on_order_placed() or on_order_closed(), so the risk state only ever     *)
(* changes by maybe_emit().                                                *)
(***************************************************************************)
EXTENDS Aggregator, Strategy, RingOps

CONSTANTS
  Epoch,        \* system clock at process start
  MaxTime,      \* bound: the model's uptime
  MaxMessages,  \* bound: ticks and quotes received by all readers
  Prices,       \* mid prices a venue reports
  Quotes,       \* quotes the broker publishes, malformed ones included
  RingCapacity  \* capacity of the rings

\* The engine has been up for less time than has passed since 1970.
ASSUME ClockAssumption ==
  /\ {Epoch, MaxTime, MaxMessages} \subseteq Nat
  /\ MaxTime <= Epoch
ASSUME MarketAssumption ==
  /\ Prices \subseteq Nat
  /\ Quotes \subseteq [bid : Int, ask : Int, spread : Int]
ASSUME RingCapacityAssumption == RingCapacity \in Nat /\ RingCapacity >= 2

Venues == {"deribit", "fast"}

VARIABLES
  clock,      \* now_ms()
  received,   \* bound: messages received
  ring,       \* pop-able contents of each reader's ring
  win,        \* the aggregator's windows, per venue
  strat,      \* the Strategy object's fields
  spc,        \* strategy thread: "top", the venue it drains, "decide"
  now,        \* strategy_loop's local now
  lead,       \* strategy_loop's local lead, when it has one
  emitted     \* the signals given to submit()

vars == <<clock, received, ring, win, strat, spc, now, lead, emitted>>

Init ==
  /\ clock = 0
  /\ received = 0
  /\ ring = [r \in Venues \cup {"broker"} |-> <<>>]
  /\ win = [v \in Venues |-> <<>>]
  /\ strat = FreshStrategy
  /\ spc = "top" /\ now = 0 /\ lead = 0
  /\ emitted = <<>>

Tick ==
  /\ clock < MaxTime
  /\ clock' = clock + 1
  /\ UNCHANGED <<received, ring, win, strat, spc, now, lead, emitted>>

-----------------------------------------------------------------------------
(* Readers.                                                                *)

Receive(r, items) ==
  /\ received < MaxMessages
  /\ received' = received + 1
  /\ ring' = [ring EXCEPT ![r] = IF items = <<>> THEN @
                                 ELSE RingPush(RingCapacity, @, items[1])]
  /\ UNCHANGED <<clock, win, strat, spc, now, lead, emitted>>

\* handle_message(): a tick stamped with the system clock.
ReceiveTick(v, p) == Receive(v, << [ts |-> Epoch + clock, mid |-> p] >>)

\* BrokerSub::run(): crossed and non-positive quotes are not pushed.
ReceiveQuote(q) ==
  Receive("broker", IF q.bid > 0 /\ q.ask > 0 /\ q.bid <= q.ask
                    THEN <<q>> ELSE <<>>)

-----------------------------------------------------------------------------
(* strategy_loop(): ticks are popped one at a time, so that the readers    *)
(* and the clock can move at any point of an iteration.                    *)

StrategyStart ==
  /\ spc = "top"
  /\ now' = clock
  /\ spc' = "fast"
  /\ UNCHANGED <<clock, received, ring, win, strat, lead, emitted>>

StrategyPopTick(v) ==
  /\ spc = v
  /\ ring[v] # <<>>
  /\ ring' = [ring EXCEPT ![v] = Tail(@)]
  /\ win' = [win EXCEPT ![v] = Ingest(@, Head(ring[v]), now)]
  /\ UNCHANGED <<clock, received, strat, spc, now, lead, emitted>>

StrategyFastDrained ==
  /\ spc = "fast"
  /\ ring["fast"] = <<>>
  /\ win' = [win EXCEPT !["fast"] = PruneOld(@, now)]
  /\ spc' = "deribit"
  /\ UNCHANGED <<clock, received, ring, strat, now, lead, emitted>>

\* The session depends on the local time of day; either may be in force.
StrategyDeribitDrained ==
  /\ spc = "deribit"
  /\ ring["deribit"] = <<>>
  /\ win' = [win EXCEPT !["deribit"] = PruneOld(@, now)]
  /\ \E session \in Sessions :
       lead' = LeadPrice(win'["fast"], win'["deribit"], session)
  /\ spc' = IF HasLead(win'["fast"], win'["deribit"]) THEN "decide" ELSE "top"
  /\ UNCHANGED <<clock, received, ring, strat, now, emitted>>

\* At most one quote is popped, evaluated and perhaps signalled.
StrategyDecide ==
  /\ spc = "decide"
  /\ spc' = "top"
  /\ IF ring["broker"] = <<>>
     THEN UNCHANGED <<ring, strat, emitted>>
     ELSE LET q == Head(ring["broker"])
              d == Evaluate(lead, q)
          IN  /\ ring' = [ring EXCEPT !["broker"] = Tail(@)]
              /\ IF MayEmit(strat, d, now)
                 THEN /\ strat' = AfterEmit(strat, now)
                      /\ emitted' = Append(emitted, SignalOf(d, lead, q, now))
                 ELSE UNCHANGED <<strat, emitted>>
  /\ UNCHANGED <<clock, received, win, now, lead>>

-----------------------------------------------------------------------------
StrategyThread ==
  \/ StrategyStart
  \/ \E v \in Venues : StrategyPopTick(v)
  \/ StrategyFastDrained
  \/ StrategyDeribitDrained
  \/ StrategyDecide

Next ==
  \/ Tick
  \/ \E v \in Venues, p \in Prices : ReceiveTick(v, p)
  \/ \E q \in Quotes : ReceiveQuote(q)
  \/ StrategyThread

Spec == Init /\ [][Next]_vars

-----------------------------------------------------------------------------
TypeOK ==
  /\ clock \in 0 .. MaxTime /\ now \in 0 .. clock
  /\ received \in 0 .. MaxMessages
  /\ \A r \in DOMAIN ring : Len(ring[r]) < RingCapacity
  /\ lead \in Int
  /\ spc \in {"top", "decide"} \cup Venues
  /\ strat.lastSignal \in 0 .. now

(* strategy.cpp:81-85, README.md:82.  Signals are at least one interval    *)
(* apart, however quotes and ticks arrive (a signal at time 0 counts as    *)
(* none: last_signal_ms_ == 0 means "never").                              *)
CooldownBetweenSignals ==
  /\ TypeOK
  /\ \A i \in 1 .. Len(emitted) - 1 :
       emitted[i].ts # 0 =>
         emitted[i + 1].ts - emitted[i].ts >= IntervalSeconds * MsPerSecond

(* aggregator.cpp:39-57, 94-105.  The lead lies between the latest prices  *)
(* of the venues that have one: the fallback and the normalised weights    *)
(* never invent a price outside the market.  The one way out is the        *)
(* configuration: both venues have a price and the weights of the session  *)
(* in force, which nothing validates, are negative or do not sum above 0;  *)
(* then the lead is what those weights give, 0 or a negative number        *)
(* included, and the decision is taken on it.                              *)
LeadWithinVenues ==
  spc = "decide" =>
    LET b == LatestMid(win["fast"])
        d == LatestMid(win["deribit"])
        mids == {b, d} \ {0}
    IN  \/ (\E m \in mids : m <= lead) /\ (\E m \in mids : lead <= m)
        \/ /\ b > 0 /\ d > 0
           /\ \E s \in Sessions : ~Sane(s) /\ lead = WeightedLead(b, d, s)

(* README.md:64-65, "dropping ticks older than a max-age (stale data never *)
(* pollutes the signal)"; aggregator.cpp:19.  A price that a decision is   *)
(* taken on was received at most MaxTickAge before the iteration began.    *)
StaleTicksAreNeverUsed ==
  spc = "decide" =>
    \A v \in Venues :
      win[v] # <<>> => Epoch + now - win[v][Len(win[v])].ts <= MaxTickAge

(* aggregator.cpp:18, 26-32, main.cpp:93, binance_ws.cpp:216.  Why the     *)
(* property above fails: the age of a tick is the difference of two        *)
(* clocks, and negative for as long as the engine has been up for less     *)
(* than the epoch; what is popped from a ring enters the window however    *)
(* old it is, and no tick ever leaves it.                                  *)
NoTickIsStale ==
  [][\A v \in Venues :
       win'[v] = IF received' = received /\ ring'[v] # ring[v]
                 THEN Append(win[v], Head(ring[v]))
                 ELSE win[v]]_vars
=============================================================================
