----------------------------- MODULE MCReadings -----------------------------
(* A small instance of Readings, and of its inductive invariant, for TLC. *)
EXTENDS ReadingsProofs

\* One sensor with one metric, one with two that share a file.
TemperatureAndAir ==
    {[sensor |-> "temp-1", metric |-> "temperature"],
     [sensor |-> "air-1", metric |-> "co2"],
     [sensor |-> "air-1", metric |-> "humidity"]}
=============================================================================
