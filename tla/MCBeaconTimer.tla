--------------------------- MODULE MCBeaconTimer ---------------------------
(* BeaconTimer with short cycles, and with the IDs of main.cpp:53. *)
EXTENDS BeaconTimer

(* 50 + GetID(), where GetID reads seven pins. *)
ConfiguredIDs == 50 .. 177
=============================================================================
