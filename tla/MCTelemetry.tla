---------------------------- MODULE MCTelemetry ----------------------------
(***************************************************************************)
(* Constants for Telemetry: the second line does not fit behind the first  *)
(* in the small region, the third does.                                    *)
(***************************************************************************)
EXTENDS Telemetry

MCLineSize == <<1, 2, 1>>
=============================================================================
