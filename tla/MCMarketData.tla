---------------------------- MODULE MCMarketData ----------------------------
(***************************************************************************)
(* The market-data side: the ring between a reader and the strategy loop,  *)
(* the WebSocket readers, and the loop with its aggregator.  They share no *)
(* variable, so that a behaviour is one of a single part, which its first  *)
(* state chooses.                                                          *)
(*                                                                         *)
(* Ring: four slots of two words; twice the capacity and two frames more   *)
(* let the writer lap the reader between pops and in the middle of one.    *)
(* Readers: two failures take the delay to its cap, and let a pong and the *)
(* read beside it both fail.  Loop: see MCStrategyLoop.                    *)
(***************************************************************************)
EXTENDS SpscRing, WsFeed, MCStrategyLoop

VARIABLE part

marketDataVars == <<part, ringVars, feedVars, vars>>

MarketDataInit ==
  /\ part \in {"ring", "feed", "loop"}
  /\ RingInit /\ FeedInit /\ Init
  /\ part # "feed" => feed = "bybit"

\* Every part but the chosen one stays as it is.
Ring == part = "ring" /\ UNCHANGED <<part, feedVars, vars>>
Feed == part = "feed" /\ UNCHANGED <<part, ringVars, vars>>
Loop == part = "loop" /\ UNCHANGED <<part, ringVars, feedVars>>

MarketDataNext ==
  \/ Ring /\ RingNext
  \/ Feed /\ FeedNext
  \/ Loop /\ Next

\* RingFairSpec, FeedFairSpec and Spec.
MarketDataSpec ==
  /\ MarketDataInit /\ [][MarketDataNext]_marketDataVars
  /\ WF_ringVars(part = "ring" /\ Pop)
  /\ WF_feedVars(part = "feed" /\ Thread) /\ WF_feedVars(part = "feed" /\ Main)
=============================================================================
