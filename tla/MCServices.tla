----------------------------- MODULE MCServices -----------------------------
(***************************************************************************)
(* The cTrader executor, the two halves of the telemetry (the event log    *)
(* and the benchmark ring) and the replay engine.  They share no variable, *)
(* but the halves of the telemetry main, so that a behaviour is one of a   *)
(* single part, which its first state chooses.                             *)
(*                                                                         *)
(* cTrader: two orders fill the queue, and a late event of the first can   *)
(* meet the second; two faults, so that an attempt and its reconnect can   *)
(* both fail.  Log: the second line does not fit behind the first in the   *)
(* small region, the third does; two attempts to map fail.  Ring: two      *)
(* threads, and a mark more than there are slots.  Replay: both P/L models *)
(* with and without delay; quotes on either side of the lead, a crossed    *)
(* one, one wider than the cap, and one at which a sale has no price.      *)
(***************************************************************************)
EXTENDS CTraderExecutor, MCTelemetry, MCBacktest

VARIABLE part

servicesVars == <<part, vars, telemetryVars, replayVars>>

\* Every part but the chosen one stays as it is.
CTrader == part = "ctrader" /\ UNCHANGED <<part, telemetryVars, replayVars>>
Log == part = "log" /\ UNCHANGED <<part, vars, benchVars, replayVars>>
Bench == part = "bench" /\ UNCHANGED <<part, vars, replayVars>>
Replay == part = "replay" /\ UNCHANGED <<part, vars, telemetryVars>>

\* The benchmark ring does not depend on the log file.
ServicesInit ==
  /\ part \in {"ctrader", "log", "bench", "replay"}
  /\ Init /\ TelemetryInit /\ ReplayInit
  /\ part # "log" => ~mmap
  /\ part # "replay" => params.delay = 0

ServicesNext ==
  \/ CTrader /\ Next
  \/ Log /\ TelemetryNext
  \/ Bench /\ TelemetryNext
  \/ Replay /\ ReplayNext

\* FairSpec, TelemetrySpec and ReplaySpec.
ServicesSpec ==
  /\ ServicesInit /\ [][ServicesNext]_servicesVars
  /\ WF_vars(part = "ctrader" /\ Worker) /\ WF_vars(part = "ctrader" /\ Server)
  /\ WF_logVars(part \in {"log", "bench"} /\ ~crashed /\ WriterThread)
  /\ WF_logVars(part \in {"log", "bench"} /\ ~crashed /\ MainThread)
=============================================================================
