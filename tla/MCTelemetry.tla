---------------------------- MODULE MCTelemetry ----------------------------
(***************************************************************************)
(* A node with two of its three sensors, and its transmission level, which *)
(* belongs to no sensor.                                                   *)
(***************************************************************************)
EXTENDS Telemetry

WaterAndCase == <<"WC", "XP", "CC">>
TwoSensors   == {"WC", "CC"}
=============================================================================
