----------------------------- MODULE MCTimeSync -----------------------------
(* TimeSync on small networks. *)
EXTENDS TimeSync

(* Three beacons in a line with the lowest ID at one end. *)
Line == {<<1, 2>>, <<2, 1>>, <<2, 3>>, <<3, 2>>}

(* Four beacons in a line, the second lowest ID in reach of the lowest only *)
(* over the two others.                                                    *)
Line4 == {<<1, 3>>, <<3, 1>>, <<3, 4>>, <<4, 3>>, <<4, 2>>, <<2, 4>>}

(* Three beacons that all hear each other. *)
Clique == {l \in Nodes \X Nodes : l[1] # l[2]}
=============================================================================
