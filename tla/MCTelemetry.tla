---------------------------- MODULE MCTelemetry ----------------------------
(* Small instances of Telemetry for TLC. *)
EXTENDS Telemetry

CONSTANTS cloud, other

Both      == {cloud, other}
SomeNames == {"temp", "_loc_cell", "long"}
LocNames  == {"_loc_cell"}

(* One name does not fit. *)
SomeStored == [n \in SomeNames |-> IF n = "long" THEN "lon" ELSE n]
=============================================================================
