--------------------------- MODULE TimeSyncProofs ---------------------------
(***************************************************************************)
(* Proofs about TimeSync for any set of beacons, any network, any limits   *)
(* and any number of power cycles.                                         *)
(***************************************************************************)
EXTENDS TimeSyncDelivery, TLAPS

(* A beacon whose source has expired follows itself.                       *)
ExpiredIsSelf ==
  \A n \in Nodes : TimeSrcTimeout[n] > SCYCLES_TO_KEEP_TIMESRC => TimeSrc[n] = n

TInv == TypeOK /\ SourceTruthful /\ ExpiredIsSelf

-----------------------------------------------------------------------------
LEMMA RouteToSelf ==
  ASSUME NEW n \in Nodes
  PROVE  Route(n, n, 0)
<1> DEFINE p == [i \in 0 .. 0 |-> n]
<1>1. p \in [0 .. 0 -> Nodes] /\ p[0] = n
  OBVIOUS
<1>2. \A i \in 1 .. 0 : Hears(p[i], p[i - 1])
  OBVIOUS
<1> HIDE DEF p
<1>3. QED
  BY <1>1, <1>2 DEF Route

(* A route grows by one hop when the next beacon hears the last one.       *)
LEMMA RouteExtends ==
  ASSUME NEW s \in Nodes, NEW n \in Nodes, NEW m \in Nodes, NEW k \in Nat,
         Route(s, n, k), Hears(m, n)
  PROVE  Route(s, m, k + 1)
<1>1. PICK p \in [0 .. k -> Nodes] :
        /\ p[0] = s /\ p[k] = n
        /\ \A i \in 1 .. k : Hears(p[i], p[i - 1])
  BY DEF Route
<1> DEFINE r == [i \in 0 .. k + 1 |-> IF i <= k THEN p[i] ELSE m]
<1>2. r \in [0 .. k + 1 -> Nodes]
  OBVIOUS
<1>3. r[0] = s /\ r[k] = n /\ r[k + 1] = m
  BY <1>1
<1>4. ASSUME NEW i \in 1 .. k + 1
      PROVE  Hears(r[i], r[i - 1])
  <2>1. CASE i \in 1 .. k
    <3>1. r[i] = p[i] /\ r[i - 1] = p[i - 1]
      BY <2>1
    <3>2. QED
      BY <1>1, <2>1, <3>1
  <2>2. CASE i = k + 1
    <3>1. r[i] = m /\ r[i - 1] = n
      BY <1>3, <2>2
    <3>2. QED
      BY <3>1
  <2>3. QED
    BY <2>1, <2>2
<1>5. QED
  BY <1>2, <1>3, <1>4 DEF Route

-----------------------------------------------------------------------------
LEMMA InitInv == Init => TInv
<1> SUFFICES ASSUME Init PROVE TInv
  OBVIOUS
<1>1. TypeOK
  BY TAssumption DEF Init, TypeOK, TAssumption
<1>2. SourceTruthful
  BY RouteToSelf, TAssumption DEF Init, SourceTruthful, Truthful, Sending, TAssumption
<1>3. ExpiredIsSelf
  BY DEF Init, ExpiredIsSelf
<1>4. QED
  BY <1>1, <1>2, <1>3 DEF TInv

LEMMA TxSlotInv ==
  ASSUME TInv, NEW n \in Nodes, TxSlot(n)
  PROVE  TInv'
<1> DEFINE pkt == [TimeSrc |-> TimeSrc[n], HopCnt |-> HopCnt[n], base |-> base[n]]
<1>1. pkt \in Packets
  BY DEF TInv, TypeOK, Packets
<1>2. TypeOK'
  BY <1>1 DEF TxSlot, node, TInv, TypeOK
<1>3. SourceTruthful'
  <2>1. SUFFICES ASSUME NEW k \in Nodes
                 PROVE  /\ Truthful(k, TimeSrc[k], HopCnt[k])
                        /\ Air'[k] # Silence => Truthful(k, Air'[k].TimeSrc, Air'[k].HopCnt)
    BY DEF SourceTruthful, Sending, TxSlot, node
  <2>2. Truthful(k, TimeSrc[k], HopCnt[k])
    BY DEF TInv, SourceTruthful
  <2>3. CASE k = n
    BY <2>2, <2>3 DEF TxSlot, TInv, TypeOK
  <2>4. CASE k # n
    BY <2>2, <2>4 DEF TxSlot, TInv, TypeOK, SourceTruthful, Sending
  <2>5. QED
    BY <2>3, <2>4
<1>4. ExpiredIsSelf'
  BY DEF TxSlot, node, TInv, ExpiredIsSelf
<1>5. QED
  BY <1>2, <1>3, <1>4 DEF TInv

LEMMA TxEndInv ==
  ASSUME TInv, NEW n \in Nodes, NEW R \in SUBSET Listeners(n), TxEnd(n, R)
  PROVE  TInv'
<1> DEFINE pkt == Air[n]
           A == {m \in R : Better(m, pkt)}
<1>1. /\ pkt \in Packets
      /\ Truthful(n, pkt.TimeSrc, pkt.HopCnt)
  BY DEF TxEnd, Sending, TInv, TypeOK, SourceTruthful
<1>2. \A m \in A : m \in Nodes /\ Hears(m, n) /\ pkt.TimeSrc < m /\ pkt.HopCnt < HOPS_CNT_MAX
  BY DEF Listeners, Sending, Better, TInv, TypeOK
<1>3. /\ TimeSrc' = [m \in Nodes |-> IF m \in A THEN pkt.TimeSrc ELSE TimeSrc[m]]
      /\ HopCnt' = [m \in Nodes |-> IF m \in A THEN pkt.HopCnt + 1 ELSE HopCnt[m]]
      /\ TimeSrcTimeout' = [m \in Nodes |-> IF m \in A THEN 0 ELSE TimeSrcTimeout[m]]
      /\ base' = [m \in Nodes |-> IF m \in A THEN pkt.base ELSE base[m]]
      /\ Air' = [Air EXCEPT ![n] = Silence]
      /\ On' = On /\ starts' = starts
  BY DEF TxEnd, AdjustRadioTime
<1>4. pkt.TimeSrc \in Nodes /\ pkt.HopCnt \in 0 .. HOPS_CNT_MAX /\ pkt.base \in Nat
  BY <1>1 DEF Packets
<1> HIDE DEF pkt, A
<1>5. TypeOK'
  BY <1>2, <1>3, <1>4, TAssumption DEF TInv, TypeOK, TAssumption
<1>6. \A m \in A : Truthful(m, pkt.TimeSrc, pkt.HopCnt + 1)
  <2>1. TAKE m \in A
  <2>2. m \in Nodes /\ Hears(m, n) /\ pkt.TimeSrc < m
    BY <1>2
  <2>3. pkt.HopCnt \in Nat /\ Route(pkt.TimeSrc, n, pkt.HopCnt)
    BY <1>1, <1>4, TAssumption DEF Truthful, TAssumption
  <2>4. Route(pkt.TimeSrc, m, pkt.HopCnt + 1)
    BY <1>4, <2>2, <2>3, RouteExtends
  <2>5. pkt.TimeSrc < m /\ pkt.TimeSrc \in Nat /\ m \in Nat /\ pkt.HopCnt \in Nat
    BY <1>4, <2>2, <2>3, TAssumption DEF TAssumption
  <2>6. QED
    BY <2>4, <2>5 DEF Truthful
<1>7. SourceTruthful'
  <2>1. SUFFICES ASSUME NEW k \in Nodes
                 PROVE  /\ Truthful(k, TimeSrc'[k], HopCnt'[k])
                        /\ Air'[k] # Silence => Truthful(k, Air'[k].TimeSrc, Air'[k].HopCnt)
    BY DEF SourceTruthful, Sending, Truthful, Route
  <2>2. Truthful(k, TimeSrc'[k], HopCnt'[k])
    BY <1>3, <1>6 DEF TInv, SourceTruthful
  <2>3. Air'[k] # Silence => Air'[k] = Air[k]
    BY <1>3 DEF TInv, TypeOK
  <2>4. QED
    BY <2>2, <2>3 DEF TInv, SourceTruthful, Sending
<1>8. ExpiredIsSelf'
  BY <1>3, TAssumption DEF TInv, ExpiredIsSelf, TAssumption
<1>9. QED
  BY <1>5, <1>7, <1>8 DEF TInv

LEMMA NewSupercycleInv ==
  ASSUME TInv, NEW n \in Nodes, NewSupercycle(n)
  PROVE  TInv'
<1>1. TypeOK'
  BY TAssumption DEF NewSupercycle, TInv, TypeOK, TAssumption
<1>2. SourceTruthful'
  <2>1. SUFFICES ASSUME NEW k \in Nodes
                 PROVE  /\ Truthful(k, TimeSrc'[k], HopCnt'[k])
                        /\ Air[k] # Silence => Truthful(k, Air[k].TimeSrc, Air[k].HopCnt)
    BY DEF SourceTruthful, Sending, NewSupercycle, Truthful, Route
  <2>2. \/ TimeSrc'[k] = TimeSrc[k] /\ HopCnt'[k] = HopCnt[k]
        \/ TimeSrc'[k] = k /\ HopCnt'[k] = 0
    BY DEF NewSupercycle, TInv, TypeOK
  <2>3. Truthful(k, k, 0)
    BY RouteToSelf, TAssumption DEF Truthful, TAssumption
  <2>4. QED
    BY <2>2, <2>3 DEF TInv, SourceTruthful, Sending
<1>3. ExpiredIsSelf'
  BY TAssumption DEF NewSupercycle, TInv, TypeOK, ExpiredIsSelf, TAssumption
<1>4. QED
  BY <1>1, <1>2, <1>3 DEF TInv

LEMMA PowerInv ==
  ASSUME TInv, NEW n \in Nodes, PowerDown(n) \/ PowerUp(n)
  PROVE  TInv'
<1>1. TypeOK'
  <2>1. CASE PowerDown(n)
    BY <2>1 DEF PowerDown, node, TInv, TypeOK
  <2>2. CASE PowerUp(n)
    <3>1. starts \in Nat /\ starts < MaxStarts /\ n \in Nat
      BY <2>2, TAssumption DEF PowerUp, TInv, TypeOK, TAssumption
    <3>2. n + 1000 * (starts + 1) \in Nat /\ starts + 1 \in 0 .. MaxStarts
      BY <3>1, TAssumption DEF TAssumption
    <3>3. 0 \in 0 .. HOPS_CNT_MAX /\ 0 \in 0 .. SCYCLES_TO_KEEP_TIMESRC + 1
      BY TAssumption DEF TAssumption
    <3>4. QED
      BY <2>2, <3>2, <3>3 DEF PowerUp, TInv, TypeOK
  <2>3. QED
    BY <2>1, <2>2
<1>2. SourceTruthful'
  <2>1. SUFFICES ASSUME NEW k \in Nodes
                 PROVE  /\ Truthful(k, TimeSrc'[k], HopCnt'[k])
                        /\ Air'[k] # Silence => Truthful(k, Air'[k].TimeSrc, Air'[k].HopCnt)
    BY DEF SourceTruthful, Sending, Truthful, Route
  <2>2. /\ \/ TimeSrc'[k] = TimeSrc[k] /\ HopCnt'[k] = HopCnt[k]
           \/ TimeSrc'[k] = k /\ HopCnt'[k] = 0
        /\ Air'[k] # Silence => Air'[k] = Air[k]
    BY DEF PowerDown, PowerUp, node, TInv, TypeOK
  <2>3. Truthful(k, k, 0)
    BY RouteToSelf, TAssumption DEF Truthful, TAssumption
  <2>4. QED
    BY <2>2, <2>3 DEF TInv, SourceTruthful, Sending
<1>3. ExpiredIsSelf'
  BY TAssumption DEF PowerDown, PowerUp, node, TInv, TypeOK, ExpiredIsSelf, TAssumption
<1>4. QED
  BY <1>1, <1>2, <1>3 DEF TInv

LEMMA NextInv == TInv /\ [Next]_vars => TInv'
<1> SUFFICES ASSUME TInv, [Next]_vars PROVE TInv'
  OBVIOUS
<1>1. CASE UNCHANGED vars
  <2>1. TypeOK'
    BY <1>1 DEF vars, TInv, TypeOK
  <2>2. SourceTruthful'
    BY <1>1 DEF vars, TInv, SourceTruthful, Sending, Truthful, Route
  <2>3. ExpiredIsSelf'
    BY <1>1 DEF vars, TInv, ExpiredIsSelf
  <2>4. QED
    BY <2>1, <2>2, <2>3 DEF TInv
<1>2. QED
  BY <1>1, TxSlotInv, TxEndInv, NewSupercycleInv, PowerInv DEF Next

(* radio_lvl1.cpp: the inductive invariant of the beacons.                 *)
THEOREM BeaconInvariant == Spec => []TInv
  BY InitInv, NextInv, PTL DEF Spec

(* Every variable of the beacons keeps its type; in particular no hop      *)
(* count, kept or sent, exceeds HOPS_CNT_MAX.                              *)
THEOREM BeaconTypeOK == Spec => []TypeOK
<1>1. TInv => TypeOK
  BY DEF TInv
<1>2. QED
  BY <1>1, BeaconInvariant, PTL

(* AdjustRadioTimeI: on any network, whatever is lost and whoever          *)
(* restarts, nobody follows its own echo, and each claim about a source is *)
(* backed by a route of exactly that many hops.                            *)
THEOREM BeaconSourceTruthful == Spec => []SourceTruthful
<1>1. TInv => SourceTruthful
  BY DEF TInv
<1>2. QED
  BY <1>1, BeaconInvariant, PTL

-----------------------------------------------------------------------------
NeverWorseStep ==
  \A n \in Nodes : TimeSrc'[n] > TimeSrc[n]
                     => /\ TimeSrc'[n] = n
                        /\ n \in On => TimeSrcTimeout[n] = SCYCLES_TO_KEEP_TIMESRC

LEMMA StepNeverWorse == TInv /\ [Next]_vars => NeverWorseStep
<1> SUFFICES ASSUME TInv, [Next]_vars, NEW k \in Nodes, TimeSrc'[k] > TimeSrc[k]
             PROVE  /\ TimeSrc'[k] = k
                    /\ k \in On => TimeSrcTimeout[k] = SCYCLES_TO_KEEP_TIMESRC
  BY DEF NeverWorseStep
<1>1. /\ TimeSrc \in [Nodes -> Nodes]
      /\ TimeSrc[k] \in Nat
      /\ TimeSrcTimeout[k] \in 0 .. SCYCLES_TO_KEEP_TIMESRC + 1
      /\ ~(TimeSrc[k] > TimeSrc[k])
  <2>1. /\ TimeSrc \in [Nodes -> Nodes]
        /\ TimeSrcTimeout[k] \in 0 .. SCYCLES_TO_KEEP_TIMESRC + 1
    BY DEF TInv, TypeOK
  <2>2. TimeSrc[k] \in Nat
    BY <2>1, TAssumption DEF TAssumption
  <2>3. QED
    BY <2>1, <2>2
<1>2. ASSUME NEW n \in Nodes, NEW R \in SUBSET Listeners(n), TxEnd(n, R)
      PROVE  FALSE
  <2>1. \/ TimeSrc'[k] = TimeSrc[k]
        \/ TimeSrc'[k] = Air[n].TimeSrc /\ Better(k, Air[n])
    BY <1>2 DEF TxEnd, AdjustRadioTime
  <2>2. Air[n].TimeSrc \in Nat
    BY <1>2, TAssumption DEF TxEnd, Sending, TInv, TypeOK, Packets, TAssumption
  <2>3. QED
    BY <1>1, <2>1, <2>2 DEF Better
<1>3. ASSUME NEW n \in Nodes, NewSupercycle(n)
      PROVE  TimeSrc'[k] = k /\ TimeSrcTimeout[k] = SCYCLES_TO_KEEP_TIMESRC
  <2>1. k = n /\ TimeSrcTimeout[n] + 1 > SCYCLES_TO_KEEP_TIMESRC /\ TimeSrc'[n] = n
    BY <1>1, <1>3 DEF NewSupercycle
  <2>2. TimeSrc[k] # k
    BY <1>1, <2>1
  <2>3. ~(TimeSrcTimeout[k] > SCYCLES_TO_KEEP_TIMESRC)
    BY <2>2 DEF TInv, ExpiredIsSelf
  <2>4. QED
    BY <1>1, <2>1, <2>3, TAssumption DEF TAssumption
<1>4. ASSUME NEW n \in Nodes, PowerUp(n)
      PROVE  TimeSrc'[k] = k /\ k \notin On
  BY <1>1, <1>4 DEF PowerUp
<1>5. ASSUME NEW n \in Nodes, TxSlot(n) \/ PowerDown(n)
      PROVE  FALSE
  BY <1>1, <1>5 DEF TxSlot, PowerDown, node
<1>6. CASE UNCHANGED vars
  BY <1>1, <1>6 DEF vars
<1>7. QED
  BY <1>2, <1>3, <1>4, <1>5, <1>6 DEF Next

(* IOnNewSupercycleI and AdjustRadioTimeI: a beacon leaves its source for  *)
(* a higher ID only when the source has expired, and then only for itself. *)
THEOREM BeaconNeverWorse == Spec => NeverWorse
<1>1. TInv /\ [Next]_vars => [NeverWorseStep]_vars
  BY StepNeverWorse
<1>2. QED
  BY <1>1, BeaconInvariant, PTL DEF Spec, NeverWorse, NeverWorseStep

-----------------------------------------------------------------------------
(* The safety core of GhostFlushed.  While beacon s has no power, the time *)
(* of s is known only from copies of it, and each copy counts its hops.    *)
(* NoNearer(s, h): no beacon with power and no packet on the air claims    *)
(* the time of s at fewer than h hops.  Carriers(s, h) and Callers(s, h)   *)
(* are the beacons that follow it, and that are sending it, at exactly h.  *)
NoNearer(s, h) ==
  /\ \A n \in On : TimeSrc[n] = s => HopCnt[n] >= h
  /\ \A n \in Sending : Air[n].TimeSrc = s => Air[n].HopCnt >= h

Carriers(s, h) == {n \in On : TimeSrc[n] = s /\ HopCnt[n] = h}
Callers(s, h) == {n \in Sending : Air[n].TimeSrc = s /\ Air[n].HopCnt = h}

(* The measure of one step.  With s off before and after it and h the      *)
(* least hop count at which the time of s is still known: the least hop    *)
(* count does not fall; no beacon starts to follow s at h hops, and none   *)
(* that does has its timeout set back, while each of its own supercycles   *)
(* takes it nearer to the limit; a packet at h hops is started only by a   *)
(* beacon that follows s at h hops.                                        *)
GhostWanesStep ==
  \A s \in Nodes, h \in Nat :
    s \notin On /\ s \notin On' /\ NoNearer(s, h)
      => /\ NoNearer(s, h)'
         /\ \A n \in Carriers(s, h)' :
              /\ n \in Carriers(s, h)
              /\ TimeSrcTimeout'[n] >= TimeSrcTimeout[n]
              /\ NewSupercycle(n) => TimeSrcTimeout'[n] > TimeSrcTimeout[n]
         /\ Callers(s, h)' \subseteq Callers(s, h) \cup Carriers(s, h)

GhostWanes == [][GhostWanesStep]_vars

(* Where the measure starts and where it ends: without power for s nobody  *)
(* claims to be s itself, a beacon that follows s is not expired yet, the  *)
(* measure moves on to h + 1 when beacons and packets at h hops are gone,  *)
(* and behind HOPS_CNT_MAX nobody is left who knows of s.                  *)
GhostBounded ==
  \A s \in Nodes \ On :
    /\ NoNearer(s, 1)
    /\ \A n \in On : TimeSrc[n] = s => TimeSrcTimeout[n] <= SCYCLES_TO_KEEP_TIMESRC
    /\ \A h \in Nat : NoNearer(s, h) /\ Carriers(s, h) \cup Callers(s, h) = {}
                        => NoNearer(s, h + 1)
    /\ NoNearer(s, HOPS_CNT_MAX + 1) => \A n \in On : TimeSrc[n] # s

(* A beacon without power sends nothing.                                   *)
OnlyOnSends == Sending \subseteq On

LEMMA SendersHavePower == Spec => []OnlyOnSends
<1>1. Init => OnlyOnSends
  BY DEF Init, OnlyOnSends, Sending
<1>2. OnlyOnSends /\ TInv /\ [Next]_vars => OnlyOnSends'
  <2> SUFFICES ASSUME OnlyOnSends, TInv, [Next]_vars PROVE OnlyOnSends'
    OBVIOUS
  <2> USE DEF OnlyOnSends, Sending, TInv, TypeOK
  <2>1. ASSUME NEW n \in Nodes, TxSlot(n) PROVE OnlyOnSends'
    BY <2>1 DEF TxSlot
  <2>2. ASSUME NEW n \in Nodes, NEW R \in SUBSET Listeners(n), TxEnd(n, R)
        PROVE  OnlyOnSends'
    BY <2>2 DEF TxEnd
  <2>3. ASSUME NEW n \in Nodes, NewSupercycle(n) PROVE OnlyOnSends'
    BY <2>3 DEF NewSupercycle
  <2>4. ASSUME NEW n \in Nodes, PowerDown(n) PROVE OnlyOnSends'
    BY <2>4 DEF PowerDown
  <2>5. ASSUME NEW n \in Nodes, PowerUp(n) PROVE OnlyOnSends'
    BY <2>5 DEF PowerUp
  <2>6. CASE UNCHANGED vars
    BY <2>6 DEF vars
  <2>7. QED
    BY <2>1, <2>2, <2>3, <2>4, <2>5, <2>6 DEF Next
<1>3. QED
  BY <1>1, <1>2, BeaconInvariant, PTL DEF Spec

(* What one step does to a beacon n that has power after it, seen from the *)
(* time of a source s that has none: n gives s up or never had it, keeps   *)
(* what it knows with an older timeout, or takes it from a packet one hop  *)
(* further away.                                                           *)
LEMMA KnowledgeOfGhost ==
  ASSUME TInv, [Next]_vars, NEW s \in Nodes, s \notin On, s \notin On',
         NEW n \in Nodes, n \in On', TimeSrc'[n] = s
  PROVE  \/ /\ n \in On /\ TimeSrc[n] = s /\ HopCnt'[n] = HopCnt[n]
            /\ TimeSrcTimeout'[n] >= TimeSrcTimeout[n]
            /\ NewSupercycle(n) => TimeSrcTimeout'[n] > TimeSrcTimeout[n]
         \/ \E m \in Sending : Air[m].TimeSrc = s /\ HopCnt'[n] = Air[m].HopCnt + 1
<1>1. /\ TimeSrc \in [Nodes -> Nodes]
      /\ HopCnt \in [Nodes -> 0 .. HOPS_CNT_MAX]
      /\ TimeSrcTimeout \in [Nodes -> 0 .. SCYCLES_TO_KEEP_TIMESRC + 1]
      /\ TimeSrcTimeout[n] \in Int
      /\ s # n
  BY DEF TInv, TypeOK
<1>2. ASSUME NEW k \in Nodes, NewSupercycle(k)
      PROVE  /\ n \in On /\ TimeSrc[n] = s /\ HopCnt'[n] = HopCnt[n]
             /\ TimeSrcTimeout'[n] >= TimeSrcTimeout[n]
             /\ n = k => TimeSrcTimeout'[n] > TimeSrcTimeout[n]
  BY <1>1, <1>2 DEF NewSupercycle
<1>3. ASSUME NEW k \in Nodes, NEW R \in SUBSET Listeners(k), TxEnd(k, R)
      PROVE  \/ /\ n \in On /\ TimeSrc[n] = s /\ HopCnt'[n] = HopCnt[n]
                /\ TimeSrcTimeout'[n] = TimeSrcTimeout[n]
             \/ \E m \in Sending : Air[m].TimeSrc = s /\ HopCnt'[n] = Air[m].HopCnt + 1
  BY <1>1, <1>3 DEF TxEnd, AdjustRadioTime
<1>4. ASSUME NEW k \in Nodes, TxSlot(k) \/ PowerDown(k)
      PROVE  /\ n \in On /\ TimeSrc[n] = s /\ HopCnt'[n] = HopCnt[n]
             /\ TimeSrcTimeout'[n] = TimeSrcTimeout[n]
  BY <1>4 DEF TxSlot, PowerDown, node
<1>5. ASSUME NEW k \in Nodes, PowerUp(k)
      PROVE  /\ n \in On /\ TimeSrc[n] = s /\ HopCnt'[n] = HopCnt[n]
             /\ TimeSrcTimeout'[n] = TimeSrcTimeout[n]
  BY <1>1, <1>5 DEF PowerUp
<1>6. ASSUME UNCHANGED vars
      PROVE  /\ n \in On /\ TimeSrc[n] = s /\ HopCnt'[n] = HopCnt[n]
             /\ TimeSrcTimeout'[n] = TimeSrcTimeout[n]
  BY <1>6 DEF vars
<1>7. CASE NewSupercycle(n)
  BY <1>2, <1>7
<1>8. CASE ~NewSupercycle(n) /\ TimeSrcTimeout'[n] = TimeSrcTimeout[n]
  <2>1. TimeSrcTimeout'[n] >= TimeSrcTimeout[n]
    BY <1>1, <1>8
  <2>2. QED
    BY <1>2, <1>3, <1>4, <1>5, <1>6, <1>8, <2>1 DEF Next
<1>9. CASE ~NewSupercycle(n) /\ TimeSrcTimeout'[n] # TimeSrcTimeout[n]
  BY <1>2, <1>3, <1>4, <1>5, <1>6, <1>9 DEF Next
<1>10. QED
  BY <1>7, <1>8, <1>9

(* What one step does to the packets on the air: a packet is the one that  *)
(* was there before, or has just been filled in by a beacon with power.    *)
LEMMA PacketsOfStep ==
  ASSUME TInv, [Next]_vars, NEW n \in Nodes, Air'[n] # Silence
  PROVE  \/ Air'[n] = Air[n]
         \/ /\ n \in On
            /\ Air'[n].TimeSrc = TimeSrc[n] /\ Air'[n].HopCnt = HopCnt[n]
<1> USE DEF TInv, TypeOK
<1>1. ASSUME NEW k \in Nodes, TxSlot(k)
      PROVE  \/ Air'[n] = Air[n]
             \/ /\ n \in On
                /\ Air'[n].TimeSrc = TimeSrc[n] /\ Air'[n].HopCnt = HopCnt[n]
  BY <1>1 DEF TxSlot
<1>2. ASSUME NEW k \in Nodes,
             \/ \E R \in SUBSET Listeners(k) : TxEnd(k, R)
             \/ NewSupercycle(k) \/ PowerDown(k) \/ PowerUp(k)
      PROVE  Air'[n] = Air[n]
  BY <1>2 DEF TxEnd, NewSupercycle, PowerDown, PowerUp
<1>3. CASE UNCHANGED vars
  BY <1>3 DEF vars
<1>4. QED
  BY <1>1, <1>2, <1>3 DEF Next

LEMMA StepGhostWanes == TInv /\ [Next]_vars => GhostWanesStep
<1> SUFFICES ASSUME TInv, [Next]_vars, NEW s \in Nodes, NEW h \in Nat,
                    s \notin On, s \notin On', NoNearer(s, h)
             PROVE  /\ NoNearer(s, h)'
                    /\ \A n \in Carriers(s, h)' :
                         /\ n \in Carriers(s, h)
                         /\ TimeSrcTimeout'[n] >= TimeSrcTimeout[n]
                         /\ NewSupercycle(n) => TimeSrcTimeout'[n] > TimeSrcTimeout[n]
                    /\ Callers(s, h)' \subseteq Callers(s, h) \cup Carriers(s, h)
  BY DEF GhostWanesStep
<1>1. On' \subseteq Nodes
  BY NextInv DEF TInv, TypeOK
<1>2. /\ \A n \in Nodes : HopCnt[n] \in Nat
      /\ \A n \in Sending : Air[n].HopCnt \in Nat
  BY TAssumption DEF TInv, TypeOK, Sending, Packets, TAssumption
<1>3. ASSUME NEW n \in On', TimeSrc'[n] = s
      PROVE  /\ HopCnt'[n] >= h
             /\ HopCnt'[n] = h =>
                  /\ n \in Carriers(s, h)
                  /\ TimeSrcTimeout'[n] >= TimeSrcTimeout[n]
                  /\ NewSupercycle(n) => TimeSrcTimeout'[n] > TimeSrcTimeout[n]
  <2>1. CASE \E m \in Sending : Air[m].TimeSrc = s /\ HopCnt'[n] = Air[m].HopCnt + 1
    <3>1. PICK m \in Sending : Air[m].TimeSrc = s /\ HopCnt'[n] = Air[m].HopCnt + 1
      BY <2>1
    <3>2. Air[m].HopCnt \in Nat /\ Air[m].HopCnt >= h
      BY <1>2, <3>1 DEF NoNearer
    <3>3. HopCnt'[n] >= h /\ HopCnt'[n] # h
      BY <3>1, <3>2
    <3>4. QED
      BY <3>3
  <2>2. CASE ~\E m \in Sending : Air[m].TimeSrc = s /\ HopCnt'[n] = Air[m].HopCnt + 1
    <3>1. /\ n \in On /\ TimeSrc[n] = s /\ HopCnt'[n] = HopCnt[n]
          /\ TimeSrcTimeout'[n] >= TimeSrcTimeout[n]
          /\ NewSupercycle(n) => TimeSrcTimeout'[n] > TimeSrcTimeout[n]
      BY <1>1, <1>3, <2>2, KnowledgeOfGhost
    <3>2. HopCnt'[n] >= h
      BY <3>1 DEF NoNearer
    <3>3. QED
      BY <3>1, <3>2 DEF Carriers
  <2>3. QED
    BY <2>1, <2>2
<1>4. ASSUME NEW n \in Nodes, Air'[n] # Silence, Air'[n].TimeSrc = s
      PROVE  /\ Air'[n].HopCnt >= h
             /\ Air'[n].HopCnt = h => n \in Callers(s, h) \cup Carriers(s, h)
  <2>1. CASE Air'[n] = Air[n]
    BY <1>4, <2>1 DEF NoNearer, Sending, Callers
  <2>2. CASE Air'[n] # Air[n]
    <3>1. /\ n \in On
          /\ Air'[n].TimeSrc = TimeSrc[n] /\ Air'[n].HopCnt = HopCnt[n]
      BY <1>4, <2>2, PacketsOfStep
    <3>2. QED
      BY <1>4, <3>1 DEF NoNearer, Carriers
  <2>3. QED
    BY <2>1, <2>2
<1>5. NoNearer(s, h)'
  BY <1>3, <1>4 DEF NoNearer, Sending
<1>6. ASSUME NEW n \in Carriers(s, h)'
      PROVE  /\ n \in Carriers(s, h)
             /\ TimeSrcTimeout'[n] >= TimeSrcTimeout[n]
             /\ NewSupercycle(n) => TimeSrcTimeout'[n] > TimeSrcTimeout[n]
  <2>1. n \in On' /\ TimeSrc'[n] = s /\ HopCnt'[n] = h
    BY <1>6 DEF Carriers
  <2>2. QED
    BY <1>3, <2>1
<1>7. Callers(s, h)' \subseteq Callers(s, h) \cup Carriers(s, h)
  <2>1. ASSUME NEW n \in Callers(s, h)'
        PROVE  n \in Callers(s, h) \cup Carriers(s, h)
    <3>1. n \in Nodes /\ Air'[n] # Silence /\ Air'[n].TimeSrc = s /\ Air'[n].HopCnt = h
      BY <2>1 DEF Callers, Sending
    <3>2. QED
      BY <1>4, <3>1
  <2>2. QED
    BY <2>1
<1>8. QED
  BY <1>5, <1>6, <1>7

LEMMA InvGhostBounded == TInv /\ OnlyOnSends => GhostBounded
<1> SUFFICES ASSUME TInv, OnlyOnSends, NEW s \in Nodes \ On
             PROVE  /\ NoNearer(s, 1)
                    /\ \A n \in On : TimeSrc[n] = s
                                       => TimeSrcTimeout[n] <= SCYCLES_TO_KEEP_TIMESRC
                    /\ \A h \in Nat :
                         NoNearer(s, h) /\ Carriers(s, h) \cup Callers(s, h) = {}
                           => NoNearer(s, h + 1)
                    /\ NoNearer(s, HOPS_CNT_MAX + 1) => \A n \in On : TimeSrc[n] # s
  BY DEF GhostBounded
<1>1. /\ On \subseteq Nodes /\ Sending \subseteq On
      /\ \A n \in Nodes : HopCnt[n] \in 0 .. HOPS_CNT_MAX
      /\ \A n \in Nodes : TimeSrcTimeout[n] \in 0 .. SCYCLES_TO_KEEP_TIMESRC + 1
      /\ \A n \in Sending : Air[n].HopCnt \in 0 .. HOPS_CNT_MAX
  BY DEF TInv, TypeOK, OnlyOnSends, Sending, Packets
<1>2. HOPS_CNT_MAX \in Nat /\ SCYCLES_TO_KEEP_TIMESRC \in Nat
  BY TAssumption DEF TAssumption
<1>3. NoNearer(s, 1)
  <2>1. ASSUME NEW n \in On, TimeSrc[n] = s PROVE HopCnt[n] >= 1
    <3>1. HopCnt[n] # 0
      BY <1>1, <2>1 DEF TInv, SourceTruthful, Truthful
    <3>2. QED
      BY <1>1, <1>2, <3>1
  <2>2. ASSUME NEW n \in Sending, Air[n].TimeSrc = s PROVE Air[n].HopCnt >= 1
    <3>1. Air[n].HopCnt # 0
      BY <1>1, <2>2 DEF TInv, SourceTruthful, Truthful
    <3>2. QED
      BY <1>1, <1>2, <3>1
  <2>3. QED
    BY <2>1, <2>2 DEF NoNearer
<1>4. ASSUME NEW n \in On, TimeSrc[n] = s
      PROVE  TimeSrcTimeout[n] <= SCYCLES_TO_KEEP_TIMESRC
  <2>1. ~(TimeSrcTimeout[n] > SCYCLES_TO_KEEP_TIMESRC)
    BY <1>1, <1>4 DEF TInv, ExpiredIsSelf
  <2>2. QED
    BY <1>1, <1>2, <2>1
<1>5. ASSUME NEW h \in Nat, NoNearer(s, h), Carriers(s, h) \cup Callers(s, h) = {}
      PROVE  NoNearer(s, h + 1)
  <2>1. ASSUME NEW n \in On, TimeSrc[n] = s PROVE HopCnt[n] >= h + 1
    <3>1. HopCnt[n] # h /\ HopCnt[n] >= h
      BY <1>5, <2>1 DEF Carriers, NoNearer
    <3>2. QED
      BY <1>1, <1>2, <3>1
  <2>2. ASSUME NEW n \in Sending, Air[n].TimeSrc = s PROVE Air[n].HopCnt >= h + 1
    <3>1. Air[n].HopCnt # h /\ Air[n].HopCnt >= h
      BY <1>5, <2>2 DEF Callers, NoNearer
    <3>2. QED
      BY <1>1, <1>2, <3>1
  <2>3. QED
    BY <2>1, <2>2 DEF NoNearer
<1>6. NoNearer(s, HOPS_CNT_MAX + 1) => \A n \in On : TimeSrc[n] # s
  BY <1>1, <1>2 DEF NoNearer
<1>7. QED
  BY <1>3, <1>4, <1>5, <1>6

(* radio_lvl1.h:74, "required to avoid eternal loops adjustment", for any  *)
(* network: the time of a beacon without power is a ghost whose least hop  *)
(* count never falls, and at which no timeout is ever set back.            *)
THEOREM BeaconGhostWanes == Spec => GhostWanes
<1>1. TInv /\ [Next]_vars => [GhostWanesStep]_vars
  BY StepGhostWanes
<1>2. QED
  BY <1>1, BeaconInvariant, PTL DEF Spec, GhostWanes

(* The same, where that measure starts and ends: HOPS_CNT_MAX levels of at *)
(* most SCYCLES_TO_KEEP_TIMESRC + 1 supercycles each, behind which nobody  *)
(* follows the beacon that is gone.                                        *)
THEOREM BeaconGhostBounded == Spec => []GhostBounded
  BY InvGhostBounded, BeaconInvariant, SendersHavePower, PTL

-----------------------------------------------------------------------------
(* The safety core of Converges, while no beacon loses or regains power.   *)

(* No packet is ever behind its sender: who sends does not receive, and    *)
(* its supercycle does not end.                                            *)
PacketsAreCurrent ==
  \A n \in Sending : /\ Air[n].TimeSrc = TimeSrc[n]
                     /\ Air[n].HopCnt = HopCnt[n]
                     /\ Air[n].base = base[n]

NetInv == TInv /\ OnlyOnSends /\ PacketsAreCurrent

LEMMA PacketsStayCurrent ==
  ASSUME TInv, PacketsAreCurrent, OnlyOnSends, [Next]_vars
  PROVE  PacketsAreCurrent'
<1> USE DEF PacketsAreCurrent, Sending
<1>1. ASSUME NEW n \in Nodes, TxSlot(n) PROVE PacketsAreCurrent'
  BY <1>1 DEF TxSlot, node, TInv, TypeOK
<1>2. ASSUME NEW n \in Nodes, NEW R \in SUBSET Listeners(n), TxEnd(n, R)
      PROVE  PacketsAreCurrent'
  <2>1. ASSUME NEW k \in Nodes, Air'[k] # Silence
        PROVE  /\ k # n /\ Air'[k] = Air[k] /\ k \notin R
    BY <1>2, <2>1 DEF TxEnd, Listeners, TInv, TypeOK
  <2>2. ASSUME NEW k \in Nodes, k \notin R
        PROVE  TimeSrc'[k] = TimeSrc[k] /\ HopCnt'[k] = HopCnt[k] /\ base'[k] = base[k]
    BY <1>2, <2>2 DEF TxEnd, AdjustRadioTime
  <2>3. QED
    BY <2>1, <2>2
<1>3. ASSUME NEW n \in Nodes, NewSupercycle(n) PROVE PacketsAreCurrent'
  BY <1>3 DEF NewSupercycle, TInv, TypeOK
<1>4. ASSUME NEW n \in Nodes, PowerDown(n) PROVE PacketsAreCurrent'
  BY <1>4 DEF PowerDown, node, TInv, TypeOK
<1>5. ASSUME NEW n \in Nodes, PowerUp(n) PROVE PacketsAreCurrent'
  BY <1>5 DEF PowerUp, OnlyOnSends, TInv, TypeOK
<1>6. CASE UNCHANGED vars
  BY <1>6 DEF vars
<1>7. QED
  BY <1>1, <1>2, <1>3, <1>4, <1>5, <1>6 DEF Next

LEMMA NetInvariant == Spec => []NetInv
<1>1. Init => PacketsAreCurrent
  BY DEF Init, PacketsAreCurrent, Sending
<1>2. PacketsAreCurrent /\ TInv /\ OnlyOnSends /\ [Next]_vars => PacketsAreCurrent'
  BY PacketsStayCurrent
<1>3. TInv /\ OnlyOnSends /\ PacketsAreCurrent => NetInv
  BY DEF NetInv
<1>4. QED
  BY <1>1, <1>2, <1>3, BeaconInvariant, SendersHavePower, PTL DEF Spec

(* What n keeps when nothing happens to it.                                *)
Quiet(n) ==
  /\ TimeSrc'[n] = TimeSrc[n] /\ HopCnt'[n] = HopCnt[n]
  /\ TimeSrcTimeout'[n] = TimeSrcTimeout[n] /\ base'[n] = base[n]

(* What n becomes with a packet of u that is good enough.                  *)
Adopts(n, u) ==
  /\ u \in On /\ Hears(n, u) /\ u # n
  /\ TimeSrc[u] < n /\ HopCnt[u] < HOPS_CNT_MAX
  /\ \/ TimeSrc[u] < TimeSrc[n]
     \/ TimeSrc[u] = TimeSrc[n] /\ HopCnt[u] < HopCnt[n]
  /\ TimeSrc'[n] = TimeSrc[u] /\ HopCnt'[n] = HopCnt[u] + 1
  /\ TimeSrcTimeout'[n] = 0 /\ base'[n] = base[u]

(* A packet of u received by n is Better or changes nothing at n.          *)
LEMMA Reception ==
  ASSUME NetInv, NEW u \in Nodes, NEW R \in SUBSET Listeners(u), TxEnd(u, R),
         NEW n \in R
  PROVE  /\ n \in On /\ u \in On /\ Hears(n, u) /\ u # n
         /\ \/ Better(n, Air[u]) /\ Adopts(n, u)
            \/ ~Better(n, Air[u]) /\ Quiet(n)
         /\ /\ Air[u].TimeSrc = TimeSrc[u]
            /\ Air[u].HopCnt = HopCnt[u]
            /\ Air[u].base = base[u]
<1>1. /\ n \in On /\ n \in Nodes /\ u \in On /\ u \in Sending
      /\ Hears(n, u) /\ u # n
  BY DEF NetInv, OnlyOnSends, TInv, TypeOK, TxEnd, Listeners
<1>2. /\ Air[u].TimeSrc = TimeSrc[u]
      /\ Air[u].HopCnt = HopCnt[u]
      /\ Air[u].base = base[u]
  BY <1>1 DEF NetInv, PacketsAreCurrent
<1>3. CASE Better(n, Air[u])
  BY <1>1, <1>2, <1>3 DEF TxEnd, AdjustRadioTime, Better, Adopts
<1>4. CASE ~Better(n, Air[u])
  BY <1>1, <1>2, <1>4 DEF TxEnd, AdjustRadioTime, Quiet
<1>5. QED
  BY <1>1, <1>2, <1>3, <1>4

(* What one step does to a beacon n that has power all along.              *)
LEMMA StepOfBeacon ==
  ASSUME NetInv, [Next]_vars, NEW n \in On, n \in On'
  PROVE  Quiet(n) \/ NewSupercycle(n) \/ \E u \in On : Adopts(n, u)
<1> USE DEF NetInv, TInv, TypeOK
<1>1. ASSUME NEW k \in Nodes, TxSlot(k) \/ PowerDown(k) PROVE Quiet(n)
  BY <1>1 DEF TxSlot, PowerDown, node, Quiet
<1>2. ASSUME NEW k \in Nodes, NEW R \in SUBSET Listeners(k), TxEnd(k, R)
      PROVE  Quiet(n) \/ \E u \in On : Adopts(n, u)
  <2>1. CASE n \in R
    BY <1>2, <2>1, Reception
  <2>2. CASE n \notin R
    BY <1>2, <2>2 DEF TxEnd, AdjustRadioTime, Quiet
  <2>3. QED
    BY <2>1, <2>2
<1>3. ASSUME NEW k \in Nodes, NewSupercycle(k) PROVE Quiet(n) \/ NewSupercycle(n)
  BY <1>3 DEF NewSupercycle, Quiet
<1>4. ASSUME NEW k \in Nodes, PowerUp(k) PROVE Quiet(n)
  BY <1>4 DEF PowerUp, Quiet
<1>5. CASE UNCHANGED vars
  BY <1>5 DEF vars, Quiet
<1>6. QED
  BY <1>1, <1>2, <1>3, <1>4, <1>5 DEF Next

-----------------------------------------------------------------------------
(* Bounds that no distance from s falls short of, over the beacons with    *)
(* power: if s has none, also the bound that nobody is within reach.       *)
LeastHops(s) ==
  {e \in [On -> 0 .. HOPS_CNT_MAX + 1] :
     /\ s \in On => e[s] = 0
     /\ \A m \in On \ {s}, n \in On : Hears(m, n) => e[m] <= e[n] + 1}

(* n claims to be nearer to s than beacons with power can bring it.        *)
Lies(s, e, n) == TimeSrc[n] = s /\ HopCnt[n] < e[n]

NoLieBelow(s, e, h) == \A n \in On : Lies(s, e, n) => HopCnt[n] >= h
Liars(s, e, h) == {n \in On : Lies(s, e, n) /\ HopCnt[n] = h}

(* Power-downs leave such claims behind, of sources that are off and of    *)
(* ways that are cut.  One step, with the same beacons on before and after *)
(* it, and h the least hop count of a lie about s: it does not fall, no    *)
(* beacon comes to tell a lie at h hops, and none that does has its        *)
(* timeout set back, while each supercycle of its own takes it nearer to   *)
(* the limit.                                                              *)
LiesWaneStep ==
  On' = On =>
    \A s \in Nodes : \A e \in LeastHops(s) : \A h \in Nat :
      NoLieBelow(s, e, h)
        => /\ NoLieBelow(s, e, h)'
           /\ \A n \in Liars(s, e, h)' :
                /\ n \in Liars(s, e, h)
                /\ TimeSrcTimeout'[n] >= TimeSrcTimeout[n]
                /\ NewSupercycle(n) => TimeSrcTimeout'[n] > TimeSrcTimeout[n]

LiesWane == [][LiesWaneStep]_vars

(* Where the measure ends: a liar is not expired yet, the measure moves on *)
(* to h + 1 when nobody lies at h hops, and behind HOPS_CNT_MAX there is   *)
(* no lie.                                                                 *)
LiesBounded ==
  \A s \in Nodes : \A e \in LeastHops(s) :
    /\ NoLieBelow(s, e, 0)
    /\ \A n \in On : Lies(s, e, n) => TimeSrcTimeout[n] <= SCYCLES_TO_KEEP_TIMESRC
    /\ \A h \in Nat : NoLieBelow(s, e, h) /\ Liars(s, e, h) = {}
                        => NoLieBelow(s, e, h + 1)
    /\ NoLieBelow(s, e, HOPS_CNT_MAX + 1) => \A n \in On : ~Lies(s, e, n)

(* Who lies does not follow itself.                                        *)
LEMMA LiarIsNotSource ==
  ASSUME NetInv, NEW s \in Nodes, NEW e \in LeastHops(s), NEW n \in On, Lies(s, e, n)
  PROVE  s # n
<1>1. SUFFICES ASSUME s = n PROVE FALSE
  OBVIOUS
<1>2. e[n] = 0 /\ HopCnt[n] \in Nat
  BY <1>1, TAssumption DEF LeastHops, NetInv, TInv, TypeOK, TAssumption
<1>3. QED
  BY <1>2 DEF Lies

LEMMA StepLiesWane == NetInv /\ NetInv' /\ [Next]_vars => LiesWaneStep
<1> SUFFICES ASSUME NetInv, NetInv', [Next]_vars, On' = On,
                    NEW s \in Nodes, NEW e \in LeastHops(s), NEW h \in Nat,
                    NoLieBelow(s, e, h)
             PROVE  /\ NoLieBelow(s, e, h)'
                    /\ \A n \in Liars(s, e, h)' :
                         /\ n \in Liars(s, e, h)
                         /\ TimeSrcTimeout'[n] >= TimeSrcTimeout[n]
                         /\ NewSupercycle(n) => TimeSrcTimeout'[n] > TimeSrcTimeout[n]
  BY DEF LiesWaneStep
<1>1. /\ On \subseteq Nodes
      /\ \A n \in On : HopCnt[n] \in Nat /\ TimeSrcTimeout[n] \in Nat /\ e[n] \in Nat
      /\ SCYCLES_TO_KEEP_TIMESRC \in Nat
      /\ s \in Nat /\ Nodes \subseteq Nat
      /\ TimeSrc \in [Nodes -> Nodes] /\ HopCnt \in [Nodes -> 0 .. HOPS_CNT_MAX]
      /\ TimeSrcTimeout \in [Nodes -> 0 .. SCYCLES_TO_KEEP_TIMESRC + 1]
  BY TAssumption DEF NetInv, TInv, TypeOK, LeastHops, TAssumption
<1>2. ASSUME NEW n \in On, Lies(s, e, n)'
      PROVE  /\ HopCnt'[n] >= h
             /\ HopCnt'[n] = h =>
                  /\ n \in Liars(s, e, h)
                  /\ TimeSrcTimeout'[n] >= TimeSrcTimeout[n]
                  /\ NewSupercycle(n) => TimeSrcTimeout'[n] > TimeSrcTimeout[n]
  <2>1. /\ TimeSrc'[n] = s /\ HopCnt'[n] < e[n]
        /\ HopCnt'[n] \in Nat
    BY <1>2, TAssumption DEF Lies, NetInv, TInv, TypeOK, TAssumption
  <2>2. s # n
    <3>1. SUFFICES ASSUME s = n PROVE FALSE
      OBVIOUS
    <3>2. e[n] = 0
      BY <3>1 DEF LeastHops
    <3>3. QED
      BY <2>1, <3>2
  <2>3. CASE NewSupercycle(n)
    <3>1. /\ TimeSrc'[n] = TimeSrc[n] /\ HopCnt'[n] = HopCnt[n]
          /\ TimeSrcTimeout'[n] = TimeSrcTimeout[n] + 1
      BY <1>1, <2>1, <2>2, <2>3 DEF NewSupercycle
    <3>2. Lies(s, e, n) /\ HopCnt[n] >= h
      BY <2>1, <3>1 DEF Lies, NoLieBelow
    <3>3. TimeSrcTimeout'[n] > TimeSrcTimeout[n] /\ TimeSrcTimeout'[n] >= TimeSrcTimeout[n]
      BY <1>1, <3>1
    <3>4. QED
      BY <3>1, <3>2, <3>3 DEF Liars
  <2>4. CASE Quiet(n) /\ ~NewSupercycle(n)
    <3>1. Lies(s, e, n) /\ HopCnt[n] >= h /\ HopCnt'[n] = HopCnt[n]
      BY <2>1, <2>4 DEF Quiet, Lies, NoLieBelow
    <3>2. TimeSrcTimeout'[n] >= TimeSrcTimeout[n]
      BY <1>1, <2>4 DEF Quiet
    <3>3. QED
      BY <2>4, <3>1, <3>2 DEF Liars
  <2>5. CASE \E u \in On : Adopts(n, u)
    <3>1. PICK u \in On : Adopts(n, u)
      BY <2>5
    <3>2. /\ Hears(n, u) /\ TimeSrc[u] = s /\ HopCnt'[n] = HopCnt[u] + 1
      BY <2>1, <3>1 DEF Adopts
    <3>3. e[n] <= e[u] + 1
      BY <2>2, <3>2 DEF LeastHops
    <3>4. HopCnt[u] < e[u]
      BY <1>1, <2>1, <3>2, <3>3
    <3>5. HopCnt[u] >= h
      BY <3>2, <3>4 DEF Lies, NoLieBelow
    <3>6. HopCnt'[n] >= h /\ HopCnt'[n] # h
      BY <1>1, <3>2, <3>5
    <3>7. QED
      BY <3>6
  <2>6. QED
    BY <2>3, <2>4, <2>5, StepOfBeacon
<1>3. NoLieBelow(s, e, h)'
  BY <1>2 DEF NoLieBelow
<1>4. ASSUME NEW n \in Liars(s, e, h)'
      PROVE  /\ n \in Liars(s, e, h)
             /\ TimeSrcTimeout'[n] >= TimeSrcTimeout[n]
             /\ NewSupercycle(n) => TimeSrcTimeout'[n] > TimeSrcTimeout[n]
  <2>1. n \in On /\ Lies(s, e, n)' /\ HopCnt'[n] = h
    BY <1>4 DEF Liars
  <2>2. QED
    BY <1>2, <2>1
<1>5. QED
  BY <1>3, <1>4

LEMMA InvLiesBounded == NetInv => LiesBounded
<1> SUFFICES ASSUME NetInv, NEW s \in Nodes, NEW e \in LeastHops(s)
             PROVE  /\ NoLieBelow(s, e, 0)
                    /\ \A n \in On : Lies(s, e, n)
                                       => TimeSrcTimeout[n] <= SCYCLES_TO_KEEP_TIMESRC
                    /\ \A h \in Nat : NoLieBelow(s, e, h) /\ Liars(s, e, h) = {}
                                        => NoLieBelow(s, e, h + 1)
                    /\ NoLieBelow(s, e, HOPS_CNT_MAX + 1) => \A n \in On : ~Lies(s, e, n)
  BY DEF LiesBounded
<1>1. /\ On \subseteq Nodes
      /\ \A n \in On : HopCnt[n] \in 0 .. HOPS_CNT_MAX
      /\ \A n \in On : TimeSrcTimeout[n] \in 0 .. SCYCLES_TO_KEEP_TIMESRC + 1
      /\ HOPS_CNT_MAX \in Nat /\ SCYCLES_TO_KEEP_TIMESRC \in Nat
  BY TAssumption DEF NetInv, TInv, TypeOK, TAssumption
<1>2. NoLieBelow(s, e, 0)
  BY <1>1 DEF NoLieBelow
<1>3. ASSUME NEW n \in On, Lies(s, e, n)
      PROVE  TimeSrcTimeout[n] <= SCYCLES_TO_KEEP_TIMESRC
  <2>1. TimeSrc[n] # n
    BY <1>3, LiarIsNotSource DEF Lies
  <2>2. ~(TimeSrcTimeout[n] > SCYCLES_TO_KEEP_TIMESRC)
    BY <1>1, <2>1 DEF NetInv, TInv, ExpiredIsSelf
  <2>3. QED
    BY <1>1, <2>2
<1>4. ASSUME NEW h \in Nat, NoLieBelow(s, e, h), Liars(s, e, h) = {},
             NEW n \in On, Lies(s, e, n)
      PROVE  HopCnt[n] >= h + 1
  <2>1. HopCnt[n] >= h /\ HopCnt[n] # h
    BY <1>4 DEF NoLieBelow, Liars
  <2>2. QED
    BY <1>1, <2>1
<1>5. NoLieBelow(s, e, HOPS_CNT_MAX + 1) => \A n \in On : ~Lies(s, e, n)
  BY <1>1 DEF NoLieBelow
<1>6. QED
  BY <1>2, <1>3, <1>4, <1>5 DEF NoLieBelow

(* AdjustRadioTimeI and IOnNewSupercycleI, on any network: what power      *)
(* failures have left in the other beacons of sources that are gone, and   *)
(* of ways that are cut, is used up: HOPS_CNT_MAX + 1 levels, each of at   *)
(* most SCYCLES_TO_KEEP_TIMESRC + 1 supercycles, and no lie is left.       *)
THEOREM BeaconLiesWane == Spec => LiesWane /\ []LiesBounded
<1>1. NetInv /\ NetInv' /\ [Next]_vars => [LiesWaneStep]_vars
  BY StepLiesWane
<1>2. QED
  BY <1>1, NetInvariant, InvLiesBounded, PTL DEF Spec, LiesWane

-----------------------------------------------------------------------------
(* When packets get through often enough (TimeSyncDelivery).               *)
DSafe == DInit /\ [][DNext]_dvars

MissedOK ==
  /\ DOMAIN missed = Nodes
  /\ \A m \in Nodes : missed[m] \in [Neighbours(m) -> 0 .. SCYCLES_TO_KEEP_TIMESRC]

DInv == NetInv /\ MissedOK

LEMMA DeliveryIsTimeSync == DSafe => Spec
<1>1. DInit => Init
  BY DEF DInit
<1>2. [DNext]_dvars => [Next]_vars
  BY DEF DNext, DTxSlot, DTxEnd, DNewSupercycle, DPower, Next, dvars
<1>3. QED
  BY <1>1, <1>2, PTL DEF DSafe, Spec

LEMMA StepMissedOK == MissedOK /\ [DNext]_dvars => MissedOK'
<1> SUFFICES ASSUME MissedOK, [DNext]_dvars PROVE MissedOK'
  OBVIOUS
<1>1. SCYCLES_TO_KEEP_TIMESRC \in Nat
  BY TAssumption DEF TAssumption
<1>2. ASSUME NEW n \in Nodes, DTxSlot(n) PROVE MissedOK'
  BY <1>2 DEF DTxSlot, MissedOK, Neighbours
<1>3. ASSUME NEW n \in Nodes, NEW R \in SUBSET Listeners(n), DTxEnd(n, R)
      PROVE  MissedOK'
  <2>1. ASSUME NEW m \in Nodes
        PROVE  missed'[m] \in [Neighbours(m) -> 0 .. SCYCLES_TO_KEEP_TIMESRC]
    <3>1. missed'[m] = [k \in Neighbours(m) |-> IF m \in R /\ k = n THEN 0 ELSE missed[m][k]]
      BY <1>3 DEF DTxEnd
    <3>2. missed[m] \in [Neighbours(m) -> 0 .. SCYCLES_TO_KEEP_TIMESRC]
      BY DEF MissedOK
    <3>3. QED
      BY <1>1, <3>1, <3>2
  <2>2. DOMAIN missed' = Nodes
    BY <1>3 DEF DTxEnd
  <2>3. QED
    BY <2>1, <2>2 DEF MissedOK, Neighbours
<1>4. ASSUME NEW m \in Nodes, DNewSupercycle(m) PROVE MissedOK'
  <2>1. ASSUME NEW k \in Nodes PROVE missed'[k] \in [Neighbours(k) -> 0 .. SCYCLES_TO_KEEP_TIMESRC]
    <3>1. CASE k = m
      <4>1. /\ \A n \in On \cap Neighbours(m) : missed[m][n] < SCYCLES_TO_KEEP_TIMESRC
            /\ missed[m] \in [Neighbours(m) -> 0 .. SCYCLES_TO_KEEP_TIMESRC]
        BY <1>4 DEF DNewSupercycle, MissedOK
      <4>2. missed'[m] = [n \in Neighbours(m) |-> IF n \in On THEN missed[m][n] + 1 ELSE 0]
            \/ missed'[m] = missed[m]
        BY <1>4 DEF DNewSupercycle
      <4>3. \A n \in Neighbours(m) :
              (IF n \in On THEN missed[m][n] + 1 ELSE 0) \in 0 .. SCYCLES_TO_KEEP_TIMESRC
        BY <1>1, <4>1
      <4>4. QED
        BY <3>1, <4>1, <4>2, <4>3
    <3>2. CASE k # m
      BY <1>4, <3>2 DEF DNewSupercycle, MissedOK
    <3>3. QED
      BY <3>1, <3>2
  <2>2. DOMAIN missed' = Nodes
    BY <1>4 DEF DNewSupercycle, MissedOK
  <2>3. QED
    BY <2>1, <2>2 DEF MissedOK, Neighbours
<1>5. ASSUME NEW n \in Nodes, DPower(n) PROVE MissedOK'
  <2>1. ASSUME NEW m \in Nodes
        PROVE  missed'[m] \in [Neighbours(m) -> 0 .. SCYCLES_TO_KEEP_TIMESRC]
    <3>1. missed'[m] = [k \in Neighbours(m) |-> IF m = n \/ k = n THEN 0 ELSE missed[m][k]]
      BY <1>5 DEF DPower
    <3>2. missed[m] \in [Neighbours(m) -> 0 .. SCYCLES_TO_KEEP_TIMESRC]
      BY DEF MissedOK
    <3>3. QED
      BY <1>1, <3>1, <3>2
  <2>2. DOMAIN missed' = Nodes
    BY <1>5 DEF DPower
  <2>3. QED
    BY <2>1, <2>2 DEF MissedOK, Neighbours
<1>6. CASE UNCHANGED dvars
  BY <1>6 DEF dvars, MissedOK, Neighbours
<1>7. QED
  BY <1>2, <1>3, <1>4, <1>5, <1>6 DEF DNext

LEMMA DeliveryInvariant == DSafe => []DInv
<1>1. DInit => MissedOK
  BY TAssumption DEF DInit, MissedOK, Neighbours, TAssumption
<1>2. MissedOK /\ [DNext]_dvars => MissedOK'
  BY StepMissedOK
<1>3. NetInv /\ MissedOK => DInv
  BY DEF DInv
<1>4. QED
  BY <1>1, <1>2, <1>3, DeliveryIsTimeSync, NetInvariant, PTL DEF DSafe

-----------------------------------------------------------------------------
(* No beacon follows a source below l, the lowest one with power, and none *)
(* claims to be nearer to l than it is.  This is what BeaconLiesWane leaves*)
(* behind it, and what holds if nobody ever lost power.                    *)
Untangled(l, d) ==
  \A n \in On : TimeSrc[n] >= l /\ (TimeSrc[n] = l => HopCnt[n] >= d[n])

Feeds(d, u, n) == u \in On /\ Hears(n, u) /\ d[n] = d[u] + 1

(* n is in sync, and its time-out is not older than the last packet of any *)
(* beacon that is one hop nearer to l.                                     *)
Synced(l, d, n) ==
  /\ TimeSrc[n] = l /\ HopCnt[n] = d[n] /\ base[n] = base[l]
  /\ \A u \in On : Feeds(d, u, n) => TimeSrcTimeout[n] <= missed[n][u]

Hearing(n, u) == \E R \in SUBSET Listeners(u) : n \in R /\ DTxEnd(u, R)

(* One step, with the same beacons on before and after it.  Nothing gets   *)
(* tangled again.  A beacon within HOPS_CNT_MAX hops, when all nearer ones *)
(* are in sync, stays in sync, or comes to be with the first packet that   *)
(* it receives of one that is a hop nearer; until then each supercycle of  *)
(* its own counts, and missed is not allowed to grow for ever.             *)
SyncSpreadsStep ==
  \A l \in On : \A d \in HopDistances(l) :
    On' = On /\ Lowest(l) /\ Untangled(l, d) =>
      /\ Untangled(l, d)'
      /\ \A n \in On :
           d[n] <= HOPS_CNT_MAX /\ (\A m \in On : d[m] < d[n] => Synced(l, d, m)) =>
             /\ Synced(l, d, n) => Synced(l, d, n)'
             /\ \A u \in On : Feeds(d, u, n) =>
                  \/ Synced(l, d, n)'
                  \/ /\ ~Hearing(n, u)
                     /\ missed'[n][u] = IF DNewSupercycle(n) THEN missed[n][u] + 1
                                                             ELSE missed[n][u]

SyncSpreads == [][SyncSpreadsStep]_dvars

(* Where it starts and ends: without lies nothing is tangled; the lowest   *)
(* ID is in sync with itself, all others within reach have somebody to     *)
(* hear it from, of whom they cannot miss more than SCYCLES_TO_KEEP_TIMESRC*)
(* supercycles, and when all are in sync the network is.                   *)
NoLies == \A s \in Nodes : \A e \in LeastHops(s) : \A n \in On : ~Lies(s, e, n)

SyncBounded ==
  \A l \in On : \A d \in HopDistances(l) : Lowest(l) =>
    /\ NoLies => Untangled(l, d)
    /\ Untangled(l, d) =>
         /\ Synced(l, d, l)
         /\ \A n \in On \ {l} : d[n] <= HOPS_CNT_MAX => \E u \in On : Feeds(d, u, n)
         /\ \A n, u \in On : Feeds(d, u, n)
                               => missed[n][u] \in 0 .. SCYCLES_TO_KEEP_TIMESRC
         /\ (\A n \in On : d[n] <= HOPS_CNT_MAX => Synced(l, d, n)) => InSync

Rooted(l, d) == l \in On /\ d \in HopDistances(l) /\ Lowest(l) /\ Untangled(l, d)

LEMMA RootedFacts ==
  ASSUME DInv, NEW l, NEW d, Rooted(l, d)
  PROVE  /\ l \in On /\ On \subseteq Nodes /\ Nodes \subseteq Nat
         /\ HOPS_CNT_MAX \in Nat /\ SCYCLES_TO_KEEP_TIMESRC \in Nat
         /\ \A n \in On : /\ d[n] \in Nat /\ HopCnt[n] \in Nat
                          /\ TimeSrc[n] \in Nat /\ TimeSrcTimeout[n] \in Nat
                          /\ l <= n /\ TimeSrc[n] >= l
                          /\ TimeSrc[n] = l => HopCnt[n] >= d[n]
         /\ d[l] = 0 /\ TimeSrc[l] = l /\ HopCnt[l] = 0
         /\ \A n \in On \ {l} : /\ d[n] > 0
                                /\ \A m \in On : Hears(n, m) => d[n] <= d[m] + 1
                                /\ d[n] <= HOPS_CNT_MAX => \E u \in On : Feeds(d, u, n)
         /\ \A n, u \in On : Feeds(d, u, n) =>
              /\ n # l /\ d[u] < d[n]
              /\ u \in Neighbours(n) /\ missed[n][u] \in 0 .. SCYCLES_TO_KEEP_TIMESRC
<1>1. /\ l \in On /\ On \subseteq Nodes /\ Nodes \subseteq Nat
      /\ HOPS_CNT_MAX \in Nat /\ SCYCLES_TO_KEEP_TIMESRC \in Nat
  BY TAssumption DEF Rooted, DInv, NetInv, TInv, TypeOK, TAssumption
<1>2. ASSUME NEW n \in On
      PROVE  /\ d[n] \in Nat /\ HopCnt[n] \in Nat
             /\ TimeSrc[n] \in Nat /\ TimeSrcTimeout[n] \in Nat
  <2>1. d[n] \in 0 .. HOPS_CNT_MAX + 1
    BY DEF Rooted, HopDistances
  <2>2. /\ n \in Nodes /\ TimeSrc[n] \in Nodes /\ HopCnt[n] \in 0 .. HOPS_CNT_MAX
        /\ TimeSrcTimeout[n] \in 0 .. SCYCLES_TO_KEEP_TIMESRC + 1
    BY <1>1 DEF DInv, NetInv, TInv, TypeOK
  <2>3. TimeSrc[n] \in Nat
    BY <1>1, <2>2
  <2>4. d[n] \in Nat /\ HopCnt[n] \in Nat /\ TimeSrcTimeout[n] \in Nat
    BY <2>1, <2>2
  <2>5. QED
    BY <2>3, <2>4
<1>3. ASSUME NEW n \in On
      PROVE  l <= n /\ TimeSrc[n] >= l /\ (TimeSrc[n] = l => HopCnt[n] >= d[n])
  BY DEF Rooted, Lowest, Untangled
<1>4. d[l] = 0
  BY DEF Rooted, HopDistances
<1>5. TimeSrc[l] = l /\ HopCnt[l] = 0
  <2>1. l \in Nodes /\ TimeSrc[l] <= l /\ (HopCnt[l] = 0 <=> TimeSrc[l] = l)
    BY <1>1 DEF DInv, NetInv, TInv, SourceTruthful, Truthful
  <2>2. QED
    BY <1>1, <1>2, <1>3, <2>1
<1>6. ASSUME NEW n \in On \ {l}
      PROVE  /\ \A m \in On : Hears(n, m) => d[n] <= d[m] + 1
             /\ d[n] <= HOPS_CNT_MAX => \E u \in On : Feeds(d, u, n)
  BY DEF Rooted, HopDistances, Feeds
<1>7. ASSUME NEW n \in On \ {l} PROVE d[n] > 0
  <2>1. SUFFICES ASSUME d[n] = 0 PROVE FALSE
    BY <1>2
  <2>2. PICK u \in On : Feeds(d, u, n)
    BY <1>1, <1>6, <2>1
  <2>3. QED
    BY <1>2, <2>1, <2>2 DEF Feeds
<1>8. ASSUME NEW n \in On, NEW u \in On, Feeds(d, u, n)
      PROVE  /\ n # l /\ d[u] < d[n]
             /\ u \in Neighbours(n) /\ missed[n][u] \in 0 .. SCYCLES_TO_KEEP_TIMESRC
  <2>1. n # l /\ d[u] < d[n]
    BY <1>2, <1>4, <1>8 DEF Feeds
  <2>2. n \in Nodes /\ u \in Neighbours(n)
    BY <1>1, <1>8 DEF Feeds, Neighbours
  <2>3. missed[n] \in [Neighbours(n) -> 0 .. SCYCLES_TO_KEEP_TIMESRC]
    BY <2>2 DEF DInv, MissedOK
  <2>4. QED
    BY <2>1, <2>2, <2>3
<1>9. QED
  BY <1>1, <1>2, <1>3, <1>4, <1>5, <1>6, <1>7, <1>8

(* The root keeps its time, and nothing gets tangled again.                *)
LEMMA RootKeepsTime ==
  ASSUME DInv, [Next]_vars, On' = On, NEW l, NEW d, Rooted(l, d)
  PROVE  base'[l] = base[l] /\ TimeSrc'[l] = l /\ HopCnt'[l] = 0
<1>1. CASE Quiet(l)
  BY <1>1, RootedFacts DEF Quiet
<1>2. CASE NewSupercycle(l)
  BY <1>2, RootedFacts DEF NewSupercycle, DInv, NetInv, TInv, TypeOK
<1>3. ASSUME NEW u \in On, Adopts(l, u) PROVE FALSE
  <2>1. TimeSrc[u] < l /\ TimeSrc[u] >= l /\ TimeSrc[u] \in Nat /\ l \in Nat
    BY <1>3, RootedFacts DEF Adopts
  <2>2. QED
    BY <2>1
<1>4. l \in On /\ l \in On'
  BY DEF Rooted
<1>5. QED
  BY <1>1, <1>2, <1>3, <1>4, StepOfBeacon DEF DInv

LEMMA StaysUntangled ==
  ASSUME DInv, [Next]_vars, On' = On, NEW l, NEW d, Rooted(l, d)
  PROVE  Untangled(l, d)'
<1>1. ASSUME NEW n \in On
      PROVE  TimeSrc'[n] >= l /\ (TimeSrc'[n] = l => HopCnt'[n] >= d[n])
  <2>1. CASE n = l
    BY <2>1, RootKeepsTime, RootedFacts
  <2>2. CASE n # l /\ Quiet(n)
    BY <2>2, RootedFacts DEF Quiet
  <2>3. CASE n # l /\ NewSupercycle(n)
    <3>1. \/ TimeSrc'[n] = TimeSrc[n] /\ HopCnt'[n] = HopCnt[n]
          \/ TimeSrc'[n] = n
      BY <2>3, RootedFacts DEF NewSupercycle, DInv, NetInv, TInv, TypeOK
    <3>2. QED
      BY <2>3, <3>1, RootedFacts
  <2>4. ASSUME n # l, NEW u \in On, Adopts(n, u)
        PROVE  TimeSrc'[n] >= l /\ (TimeSrc'[n] = l => HopCnt'[n] >= d[n])
    <3>1. Hears(n, u) /\ TimeSrc'[n] = TimeSrc[u] /\ HopCnt'[n] = HopCnt[u] + 1
      BY <2>4 DEF Adopts
    <3>2. d[n] <= d[u] + 1
      BY <2>4, <3>1, RootedFacts
    <3>3. /\ TimeSrc[u] >= l /\ (TimeSrc[u] = l => HopCnt[u] >= d[u])
          /\ HopCnt[u] \in Nat /\ d[u] \in Nat /\ d[n] \in Nat
      BY RootedFacts
    <3>4. QED
      BY <3>1, <3>2, <3>3
  <2>5. n \in On'
    OBVIOUS
  <2>6. QED
    BY <2>1, <2>2, <2>3, <2>4, <2>5, StepOfBeacon DEF DInv
<1>2. QED
  BY <1>1 DEF Untangled

(* What one step does to a beacon with power in TimeSyncDelivery.          *)
LEMMA StepOfDelivery ==
  ASSUME DInv, [DNext]_dvars, On' = On, NEW n \in On
  PROVE  \/ DNewSupercycle(n)
         \/ Quiet(n) /\ missed'[n] = missed[n]
         \/ \E u \in On : Hearing(n, u)
<1> USE DEF DInv, NetInv, TInv, TypeOK
<1>1. n \in Nodes /\ missed[n] = [k \in Neighbours(n) |-> missed[n][k]]
  BY DEF MissedOK
<1>2. ASSUME NEW k \in Nodes, DTxSlot(k) PROVE Quiet(n) /\ missed'[n] = missed[n]
  BY <1>2 DEF DTxSlot, TxSlot, node, Quiet
<1>3. ASSUME NEW k \in Nodes, NEW R \in SUBSET Listeners(k), DTxEnd(k, R)
      PROVE  \/ Quiet(n) /\ missed'[n] = missed[n]
             \/ \E u \in On : Hearing(n, u)
  <2>1. CASE n \in R
    <3>1. k \in On
      BY <1>3 DEF DTxEnd, TxEnd, OnlyOnSends
    <3>2. QED
      BY <1>3, <2>1, <3>1 DEF Hearing
  <2>2. CASE n \notin R
    <3>1. Quiet(n)
      BY <1>3, <2>2 DEF DTxEnd, TxEnd, AdjustRadioTime, Quiet
    <3>2. missed'[n] = [j \in Neighbours(n) |-> missed[n][j]]
      BY <1>1, <1>3, <2>2 DEF DTxEnd
    <3>3. QED
      BY <1>1, <3>1, <3>2
  <2>3. QED
    BY <2>1, <2>2
<1>4. ASSUME NEW k \in Nodes, DNewSupercycle(k), k # n
      PROVE  Quiet(n) /\ missed'[n] = missed[n]
  BY <1>1, <1>4 DEF DNewSupercycle, NewSupercycle, Quiet
<1>5. ASSUME NEW k \in Nodes, DPower(k) PROVE FALSE
  BY <1>5 DEF DPower, PowerDown, PowerUp
<1>6. CASE UNCHANGED dvars
  BY <1>6 DEF dvars, vars, Quiet
<1>7. QED
  BY <1>2, <1>3, <1>4, <1>5, <1>6 DEF DNext

(* A packet of a synced beacon that is one hop nearer to l is good enough. *)
LEMMA FeederIsBetter ==
  ASSUME DInv, NEW l, NEW d, Rooted(l, d), NEW n \in On, NEW u \in On,
         Feeds(d, u, n), Synced(l, d, u), d[n] <= HOPS_CNT_MAX,
         Air[u].TimeSrc = TimeSrc[u], Air[u].HopCnt = HopCnt[u]
  PROVE  Better(n, Air[u])
<1>1. /\ TimeSrc[u] = l /\ HopCnt[u] = d[u] /\ d[n] = d[u] + 1 /\ n # l
      /\ d[u] \in Nat /\ d[n] \in Nat /\ TimeSrc[n] \in Nat /\ HopCnt[n] \in Nat
      /\ l \in Nat /\ n \in Nat /\ l <= n /\ TimeSrc[n] >= l
      /\ TimeSrc[n] = l => HopCnt[n] >= d[n]
      /\ HOPS_CNT_MAX \in Nat
  BY RootedFacts DEF Synced, Feeds
<1>2. QED
  BY <1>1 DEF Better

(* The first packet from one hop nearer brings a beacon into sync.         *)
LEMMA HearingSyncs ==
  ASSUME DInv, DInv', [DNext]_dvars, On' = On, NEW l, NEW d, Rooted(l, d),
         NEW n \in On, NEW u \in On, Feeds(d, u, n), Synced(l, d, u),
         d[n] <= HOPS_CNT_MAX, Hearing(n, u)
  PROVE  Synced(l, d, n)'
<1>1. PICK R \in SUBSET Listeners(u) : n \in R /\ TxEnd(u, R)
  BY DEF Hearing, DTxEnd
<1>2. u \in Nodes
  BY RootedFacts
<1>3. Adopts(n, u)
  <2>1. /\ Air[u].TimeSrc = TimeSrc[u] /\ Air[u].HopCnt = HopCnt[u]
        /\ Better(n, Air[u]) => Adopts(n, u)
    BY <1>1, <1>2, Reception DEF DInv
  <2>2. QED
    BY <2>1, FeederIsBetter
<1>4. [Next]_vars
  BY DEF DNext, DTxSlot, DTxEnd, DNewSupercycle, DPower, Next, dvars
<1>5. base'[l] = base[l]
  BY <1>4, RootKeepsTime
<1>6. TimeSrc'[n] = l /\ HopCnt'[n] = d[n] /\ base'[n] = base'[l] /\ TimeSrcTimeout'[n] = 0
  BY <1>3, <1>5 DEF Adopts, Synced, Feeds
<1>7. ASSUME NEW v \in On, Feeds(d, v, n) PROVE TimeSrcTimeout'[n] <= missed'[n][v]
  <2>1. n \in Nodes /\ v \in Neighbours(n)
    BY <1>7, RootedFacts
  <2>2. missed'[n] \in [Neighbours(n) -> 0 .. SCYCLES_TO_KEEP_TIMESRC]
    BY <2>1 DEF DInv, MissedOK, Neighbours
  <2>3. missed'[n][v] \in 0 .. SCYCLES_TO_KEEP_TIMESRC
    BY <2>1, <2>2
  <2>4. QED
    BY <1>6, <2>3, RootedFacts
<1>8. QED
  BY <1>6, <1>7 DEF Synced, Feeds, Hears

(* A beacon in sync stays so, if those nearer to l are in sync too.        *)
LEMMA StaysSynced ==
  ASSUME DInv, DInv', [DNext]_dvars, On' = On, NEW l, NEW d, Rooted(l, d),
         NEW n \in On, d[n] <= HOPS_CNT_MAX, Synced(l, d, n),
         \A m \in On : d[m] < d[n] => Synced(l, d, m)
  PROVE  Synced(l, d, n)'
<1>1. [Next]_vars
  BY DEF DNext, DTxSlot, DTxEnd, DNewSupercycle, DPower, Next, dvars
<1>2. base'[l] = base[l] /\ TimeSrc'[l] = l /\ HopCnt'[l] = 0
  BY <1>1, RootKeepsTime
<1>3. CASE n = l
  <2>1. d[l] = 0 /\ \A u \in On : ~Feeds(d, u, l)
    BY RootedFacts
  <2>2. QED
    BY <1>2, <1>3, <2>1 DEF Synced, Feeds, Hears
<1>4. CASE n # l /\ Quiet(n) /\ missed'[n] = missed[n]
  BY <1>2, <1>4 DEF Quiet, Synced, Feeds, Hears
<1>5. CASE n # l /\ DNewSupercycle(n)
  <2>1. PICK u \in On : Feeds(d, u, n)
    BY <1>5, RootedFacts
  <2>2. missed[n][u] < SCYCLES_TO_KEEP_TIMESRC
    BY <1>5, <2>1, RootedFacts DEF DNewSupercycle
  <2>3. /\ TimeSrcTimeout[n] + 1 <= SCYCLES_TO_KEEP_TIMESRC
        /\ TimeSrcTimeout[n] \in Nat
    <3>1. TimeSrcTimeout[n] <= missed[n][u] /\ missed[n][u] \in Int
          /\ TimeSrcTimeout[n] \in Nat /\ SCYCLES_TO_KEEP_TIMESRC \in Nat
      BY <2>1, RootedFacts DEF Synced
    <3>2. QED
      BY <2>2, <3>1
  <2>4. ~(TimeSrcTimeout[n] + 1 > SCYCLES_TO_KEEP_TIMESRC)
    BY <2>3, RootedFacts
  <2>5. /\ TimeSrc'[n] = TimeSrc[n] /\ HopCnt'[n] = HopCnt[n] /\ base'[n] = base[n]
        /\ TimeSrcTimeout'[n] = TimeSrcTimeout[n] + 1
    BY <1>5, <2>4 DEF DNewSupercycle, NewSupercycle, DInv, NetInv, TInv, TypeOK
  <2>6. ASSUME NEW v \in On, Feeds(d, v, n) PROVE TimeSrcTimeout'[n] <= missed'[n][v]
    <3>1. /\ n \in Nodes /\ v \in Neighbours(n) /\ missed[n][v] \in Int
          /\ TimeSrcTimeout[n] <= missed[n][v]
      BY <2>6, RootedFacts DEF Synced
    <3>2. missed'[n][v] = missed[n][v] + 1
      BY <1>5, <2>6, <3>1 DEF DNewSupercycle, DInv, MissedOK
    <3>3. QED
      BY <2>3, <2>5, <3>1, <3>2
  <2>7. QED
    BY <1>2, <2>5, <2>6 DEF Synced, Feeds, Hears
<1>6. ASSUME n # l, NEW u \in On, Hearing(n, u)
      PROVE  Synced(l, d, n)'
  <2>1. PICK R \in SUBSET Listeners(u) : n \in R /\ DTxEnd(u, R)
    BY <1>6 DEF Hearing
  <2>2. u \in Nodes /\ n \in Nodes /\ TxEnd(u, R)
    BY <2>1, RootedFacts DEF DTxEnd
  <2>3. CASE Feeds(d, u, n)
    <3>1. Synced(l, d, u)
      BY <2>3, RootedFacts
    <3>2. QED
      BY <1>6, <2>3, <3>1, HearingSyncs
  <2>4. CASE ~Feeds(d, u, n)
    <3>1. ~Adopts(n, u)
      <4>1. SUFFICES ASSUME Adopts(n, u) PROVE FALSE
        OBVIOUS
      <4>2. /\ Hears(n, u) /\ TimeSrc[u] = l /\ HopCnt[u] < HopCnt[n]
        BY <4>1, RootedFacts DEF Adopts, Synced
      <4>3. /\ d[n] <= d[u] + 1 /\ HopCnt[u] >= d[u] /\ HopCnt[n] = d[n]
            /\ d[n] \in Nat /\ d[u] \in Nat /\ HopCnt[u] \in Nat
        BY <1>6, <4>2, RootedFacts DEF Synced
      <4>4. d[n] = d[u] + 1
        BY <4>2, <4>3
      <4>5. QED
        BY <2>4, <4>2, <4>4 DEF Feeds
    <3>2. Quiet(n)
      BY <2>1, <2>2, <3>1, Reception DEF DInv
    <3>3. ASSUME NEW v \in On, Feeds(d, v, n) PROVE TimeSrcTimeout'[n] <= missed'[n][v]
      <4>1. v \in Neighbours(n) /\ v # u
        BY <2>4, <3>3, RootedFacts
      <4>2. missed'[n][v] = missed[n][v]
        BY <2>1, <2>2, <4>1 DEF DTxEnd
      <4>3. QED
        BY <3>2, <3>3, <4>2 DEF Quiet, Synced
    <3>4. QED
      BY <1>2, <3>2, <3>3 DEF Quiet, Synced, Feeds, Hears
  <2>5. QED
    BY <2>3, <2>4
<1>7. QED
  BY <1>3, <1>4, <1>5, <1>6, StepOfDelivery

LEMMA StepSyncSpreads == DInv /\ DInv' /\ [DNext]_dvars => SyncSpreadsStep
<1> SUFFICES ASSUME DInv, DInv', [DNext]_dvars, NEW l \in On, NEW d \in HopDistances(l),
                    On' = On, Lowest(l), Untangled(l, d)
             PROVE  /\ Untangled(l, d)'
                    /\ \A n \in On :
                         d[n] <= HOPS_CNT_MAX /\ (\A m \in On : d[m] < d[n] => Synced(l, d, m)) =>
                           /\ Synced(l, d, n) => Synced(l, d, n)'
                           /\ \A u \in On : Feeds(d, u, n) =>
                                \/ Synced(l, d, n)'
                                \/ /\ ~Hearing(n, u)
                                   /\ missed'[n][u] = IF DNewSupercycle(n) THEN missed[n][u] + 1
                                                                           ELSE missed[n][u]
  BY DEF SyncSpreadsStep
<1>1. [Next]_vars
  BY DEF DNext, DTxSlot, DTxEnd, DNewSupercycle, DPower, Next, dvars
<1>2. Rooted(l, d)
  BY DEF Rooted
<1>3. Untangled(l, d)'
  BY <1>1, <1>2, StaysUntangled
<1>4. ASSUME NEW n \in On, d[n] <= HOPS_CNT_MAX,
             \A m \in On : d[m] < d[n] => Synced(l, d, m), Synced(l, d, n)
      PROVE  Synced(l, d, n)'
  BY <1>2, <1>4, StaysSynced
<1>5. ASSUME NEW n \in On, d[n] <= HOPS_CNT_MAX,
             \A m \in On : d[m] < d[n] => Synced(l, d, m),
             NEW u \in On, Feeds(d, u, n), ~Synced(l, d, n)'
      PROVE  /\ ~Hearing(n, u)
             /\ missed'[n][u] = IF DNewSupercycle(n) THEN missed[n][u] + 1
                                                     ELSE missed[n][u]
  <2>1. n \in Nodes /\ u \in Neighbours(n) /\ Synced(l, d, u)
    BY <1>2, <1>5, RootedFacts
  <2>2. ~Hearing(n, u)
    BY <1>2, <1>5, <2>1, HearingSyncs
  <2>3. CASE DNewSupercycle(n)
    BY <2>1, <2>2, <2>3 DEF DNewSupercycle, DInv, MissedOK
  <2>4. CASE ~DNewSupercycle(n) /\ missed'[n] = missed[n]
    BY <2>2, <2>4
  <2>5. ASSUME ~DNewSupercycle(n), NEW v \in On, Hearing(n, v)
        PROVE  missed'[n][u] = missed[n][u]
    <3>1. PICK R \in SUBSET Listeners(v) : n \in R /\ DTxEnd(v, R)
      BY <2>5 DEF Hearing
    <3>2. v # u
      BY <2>2, <2>5
    <3>3. QED
      BY <2>1, <3>1, <3>2 DEF DTxEnd
  <2>6. QED
    BY <2>2, <2>3, <2>4, <2>5, StepOfDelivery
<1>6. QED
  BY <1>3, <1>4, <1>5

LEMMA NoLiesUntangled ==
  ASSUME DInv, NEW l \in On, NEW d \in HopDistances(l), Lowest(l), NoLies
  PROVE  Untangled(l, d)
<1> SUFFICES ASSUME NEW n \in On
             PROVE  TimeSrc[n] >= l /\ (TimeSrc[n] = l => HopCnt[n] >= d[n])
  BY DEF Untangled
<1>1. /\ n \in Nodes /\ l \in Nodes /\ TimeSrc[n] \in Nodes
      /\ HopCnt[n] \in 0 .. HOPS_CNT_MAX
      /\ d \in [On -> 0 .. HOPS_CNT_MAX + 1] /\ d[n] \in 0 .. HOPS_CNT_MAX + 1
  BY DEF DInv, NetInv, TInv, TypeOK, HopDistances
<1>2. HOPS_CNT_MAX \in Nat /\ l \in Nat /\ TimeSrc[n] \in Nat
  BY <1>1, TAssumption DEF TAssumption
<1>3. CASE TimeSrc[n] < l
  <2> DEFINE e == [m \in On |-> HOPS_CNT_MAX + 1]
  <2>1. TimeSrc[n] \notin On
    BY <1>2, <1>3 DEF Lowest
  <2>2. e \in LeastHops(TimeSrc[n])
    BY <1>2, <2>1 DEF LeastHops
  <2>3. Lies(TimeSrc[n], e, n)
    BY <1>1, <1>2 DEF Lies
  <2>4. QED
    BY <1>1, <2>2, <2>3 DEF NoLies
<1>4. CASE TimeSrc[n] = l
  <2>1. d \in LeastHops(l)
    BY <1>1 DEF HopDistances, LeastHops
  <2>2. ~(HopCnt[n] < d[n])
    BY <1>1, <1>4, <2>1 DEF NoLies, Lies
  <2>3. QED
    BY <1>1, <1>2, <1>4, <2>2
<1>5. CASE TimeSrc[n] > l
  BY <1>2, <1>5
<1>6. QED
  BY <1>2, <1>3, <1>4, <1>5

LEMMA InvSyncBounded == DInv => SyncBounded
<1> SUFFICES ASSUME DInv, NEW l \in On, NEW d \in HopDistances(l), Lowest(l),
                    Untangled(l, d)
             PROVE  /\ Synced(l, d, l)
                    /\ \A n \in On \ {l} : d[n] <= HOPS_CNT_MAX => \E u \in On : Feeds(d, u, n)
                    /\ \A n, u \in On : Feeds(d, u, n)
                                          => missed[n][u] \in 0 .. SCYCLES_TO_KEEP_TIMESRC
                    /\ (\A n \in On : d[n] <= HOPS_CNT_MAX => Synced(l, d, n)) => InSync
  BY NoLiesUntangled DEF SyncBounded
<1>1. Rooted(l, d)
  BY DEF Rooted
<1>2. Synced(l, d, l)
  BY <1>1, RootedFacts DEF Synced
<1>3. ASSUME \A n \in On : d[n] <= HOPS_CNT_MAX => Synced(l, d, n)
      PROVE  InSync
  <2>1. ASSUME NEW k \in On, Lowest(k) PROVE k = l
    <3>1. k <= l /\ l <= k /\ k \in Nat /\ l \in Nat
      BY <1>1, <2>1, RootedFacts DEF Lowest
    <3>2. QED
      BY <3>1
  <2>2. QED
    BY <1>3, <2>1 DEF InSync, Synced
<1>4. QED
  BY <1>1, <1>2, <1>3, RootedFacts

(* The beacons of the shortest ways from the lowest ID come into sync one  *)
(* hop after the other, and stay in sync, on any network in which a beacon *)
(* misses no neighbour for more than SCYCLES_TO_KEEP_TIMESRC supercycles:  *)
(* with BeaconLiesWane, what Converges needs besides fairness.             *)
THEOREM BeaconSyncSpreads == DSafe => SyncSpreads /\ []SyncBounded
<1>1. DInv /\ DInv' /\ [DNext]_dvars => [SyncSpreadsStep]_dvars
  BY StepSyncSpreads
<1>2. QED
  BY <1>1, DeliveryInvariant, InvSyncBounded, PTL DEF DSafe, SyncSpreads
=============================================================================
