--------------------------- MODULE MCStrategyLoop ---------------------------
(***************************************************************************)
(* Constants for the strategy loop.  One quote is above and one below the  *)
(* venues' prices, so that both sides are signalled; one is crossed.  The  *)
(* weights of one session are mixed in sign, and their sum is below zero.  *)
(***************************************************************************)
EXTENDS StrategyLoop

MCWeights ==
  [us   |-> [deribit |-> 3, binance |-> 2],
   asia |-> [deribit |-> 2, binance |-> -3]]

MCQuotes ==
  {[bid |-> 19, ask |-> 20, spread |-> 0],
   [bid |-> 2, ask |-> 3, spread |-> 2],
   [bid |-> 9, ask |-> 8, spread |-> 1]}
=============================================================================
