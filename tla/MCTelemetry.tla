------------------------------ MODULE MCTelemetry ------------------------------
(* Instance of the telemetry for TLC.                                           *)
EXTENDS Telemetry
================================================================================
