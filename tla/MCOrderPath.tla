----------------------------- MODULE MCOrderPath ----------------------------
(***************************************************************************)
(* The way of an order: the path of a signal through the engine, the MT5   *)
(* bridge and the OANDA executor.  They share no variable, so that a       *)
(* behaviour is one of a single part, which its first state chooses.       *)
(*                                                                         *)
(* Engine: two signals, so that a batch of the FIX client can hold one     *)
(* order that is sent and one that is lost, and one failure; it may be     *)
(* told to stop at any point.  Bridge: four frames, the second malformed,  *)
(* for a socket that holds two, and three starts.  OANDA: three orders on  *)
(* a queue of two, and three faults, so that both attempts of one order    *)
(* fail beside one that succeeds.                                          *)
(***************************************************************************)
EXTENDS SignalPath, Mt5Bridge, OandaExecutor

VARIABLE part

orderVars == <<part, vars, bridgeVars, oandaVars>>

\* Every part but the chosen one stays as it is.
Engine == part = "engine" /\ UNCHANGED <<part, bridgeVars, oandaVars>>
Bridge == part = "bridge" /\ UNCHANGED <<part, vars, oandaVars>>
Oanda == part = "oanda" /\ UNCHANGED <<part, vars, bridgeVars>>

OrderPathInit ==
  /\ part \in {"engine", "bridge", "oanda"}
  /\ Init /\ BridgeInit /\ OandaInit
  /\ part # "bridge" => dll

OrderPathNext ==
  \/ Engine /\ Next
  \/ Bridge /\ BridgeNext
  \/ Oanda /\ OandaNext

\* FairSpec, BridgeSpec and OandaFairSpec.
OrderPathSpec ==
  /\ OrderPathInit /\ [][OrderPathNext]_orderVars
  /\ WF_vars(part = "engine" /\ StrategyThread)
  /\ WF_vars(part = "engine" /\ Dispatcher)
  /\ WF_vars(part = "engine" /\ FixThread)
  /\ WF_vars(part = "engine" /\ Publisher)
  /\ WF_vars(part = "engine" /\ Main)
  /\ WF_bridgeVars(part = "bridge" /\ Run)
  /\ WF_bridgeVars(part = "bridge" /\ StopReturns)
  /\ WF_oandaVars(part = "oanda" /\ ~InCall /\ Worker)
=============================================================================
