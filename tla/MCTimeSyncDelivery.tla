------------------------- MODULE MCTimeSyncDelivery -------------------------
(* TimeSyncDelivery on small networks. *)
EXTENDS TimeSyncDelivery

(* Three beacons in a line, the lowest ID at one end. *)
Line == {<<1, 2>>, <<2, 1>>, <<2, 3>>, <<3, 2>>}

(* The same with the highest ID in the middle. *)
Line132 == {<<1, 3>>, <<3, 1>>, <<2, 3>>, <<3, 2>>}
=============================================================================
