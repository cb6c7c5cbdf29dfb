----------------------------- MODULE MCBacktest -----------------------------
(***************************************************************************)
(* Constants for the replay engine: both P/L models with and without       *)
(* delay; quotes on either side of the lead, a crossed one, one wider than *)
(* the spread cap, and one at which a sale has no price.                   *)
(***************************************************************************)
EXTENDS Backtest

MCParams ==
  LET base == [model |-> "hold", delay |-> 0, slippage |-> 0,
               slippageCap |-> 1, markup |-> 1, commission |-> 1,
               spreadCap |-> 4, holdTol |-> 1, holdMax |-> 0, exitCost |-> 0]
  IN  {base,
       [base EXCEPT !.delay = 2, !.holdMax = 2],
       [base EXCEPT !.delay = 2, !.model = "instant"],
       [base EXCEPT !.delay = 1, !.slippage = 2]}

MCQuotes ==
  {[bid |-> 4, ask |-> 5], [bid |-> 9, ask |-> 10], [bid |-> 5, ask |-> 4],
   [bid |-> 1, ask |-> 8], [bid |-> 0, ask |-> 2]}
=============================================================================
