-------------------------- MODULE TimeSyncDelivery --------------------------
(***************************************************************************)
(* TimeSync when packets get through often enough: of a neighbour that     *)
(* keeps its power a beacon misses at most SCYCLES_TO_KEEP_TIMESRC whole   *)
(* supercycles of its own in a row.  This is what the slot scheme is made  *)
(* for: a neighbour sends in every cycle, so it sends once in the cycle 0  *)
(* in which the beacon listens, and the constant says how many supercycles *)
(* without a packet are to be bridged.  Packets do not overlap.            *)
(***************************************************************************)
EXTENDS TimeSync

VARIABLE missed   \* missed[m][n]: supercycles of m ended since m heard n

dvars == <<vars, missed>>

Neighbours(m) == {n \in Nodes : Hears(m, n)}

DInit == Init /\ missed = [m \in Nodes |-> [n \in Neighbours(m) |-> 0]]

DTxSlot(n) == TxSlot(n) /\ Sending = {} /\ UNCHANGED missed

(* The listeners that may not miss the packet of n.                        *)
Overdue(n) == {m \in Listeners(n) : missed[m][n] = SCYCLES_TO_KEEP_TIMESRC}

DTxEnd(n, R) ==
  /\ Overdue(n) \subseteq R
  /\ TxEnd(n, R)
  /\ missed' = [m \in Nodes |-> [k \in Neighbours(m) |->
                  IF m \in R /\ k = n THEN 0 ELSE missed[m][k]]]

DNewSupercycle(m) ==
  /\ \A n \in On \cap Neighbours(m) : missed[m][n] < SCYCLES_TO_KEEP_TIMESRC
  /\ NewSupercycle(m)
  /\ missed' = [missed EXCEPT ![m] = [n \in Neighbours(m) |->
                  IF n \in On THEN missed[m][n] + 1 ELSE 0]]

(* A neighbour, or the beacon itself, that starts anew has nothing missed. *)
DPower(n) ==
  /\ PowerDown(n) \/ PowerUp(n)
  /\ missed' = [m \in Nodes |-> [k \in Neighbours(m) |->
                  IF m = n \/ k = n THEN 0 ELSE missed[m][k]]]

DNext ==
  \E n \in Nodes :
    \/ DTxSlot(n)
    \/ \E R \in SUBSET Listeners(n) : DTxEnd(n, R)
    \/ DNewSupercycle(n)
    \/ DPower(n)

(* The slots keep coming too: each supercycle has RCYCLE_CNT of them.      *)
DSpec ==
  /\ DInit /\ [][DNext]_dvars
  /\ \A n \in Nodes :
       /\ SF_dvars(DNewSupercycle(n))
       /\ SF_dvars(DTxSlot(n))
       /\ WF_dvars(\E R \in SUBSET Listeners(n) : DTxEnd(n, R))

-----------------------------------------------------------------------------
Lowest(l) == \A m \in On : l <= m

(* How many hops the beacons with power are from beacon s, beyond          *)
(* HOPS_CNT_MAX all alike: the only such function.                         *)
HopDistances(s) ==
  {d \in [On -> 0 .. HOPS_CNT_MAX + 1] :
     /\ d[s] = 0
     /\ \A m \in On \ {s} :
          /\ \A n \in On : Hears(m, n) => d[m] <= d[n] + 1
          /\ d[m] <= HOPS_CNT_MAX => \E n \in On : Hears(m, n) /\ d[m] = d[n] + 1}

(* Every beacon within HOPS_CNT_MAX hops of the lowest ID follows it on    *)
(* the shortest way, and they all share one time scale.                    *)
InSync ==
  \A l \in On : Lowest(l) =>
    \E d \in HopDistances(l) :
      \A n \in On : d[n] <= HOPS_CNT_MAX =>
        /\ TimeSrc[n] = l
        /\ HopCnt[n] = d[n]
        /\ base[n] = base[l]

(* Whatever was lost, and whoever crashed or came back with another time   *)
(* scale, the beacons end up in sync and stay so.                          *)
Converges == <>[]InSync
=============================================================================
