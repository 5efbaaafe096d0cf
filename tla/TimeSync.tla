------------------------------ MODULE TimeSync ------------------------------
(***************************************************************************)
(* The common time of the beacons (Tx2_fw/Radio/radio_lvl1.cpp).  Each     *)
(* beacon sends, in its slot, the ID of the beacon whose time it follows   *)
(* (TimeSrc) and how many hops that time has travelled (HopCnt).  A beacon *)
(* follows the lowest ID it hears; a source not heard of for more than     *)
(* SCYCLES_TO_KEEP_TIMESRC supercycles is forgotten; a time that has       *)
(* travelled HOPS_CNT_MAX hops is not passed on.                           *)
(*                                                                         *)
(* Every interrupt handler is one step.  A packet is on the air between    *)
(* the slot handler that fills it in and the reception at the listeners,   *)
(* and carries the values of the moment it was filled in.  Beacons lose    *)
(* power and start again at any moment.  What the timer of a beacon shows  *)
(* is abstracted to whose time scale it shows (base): two beacons agree    *)
(* about the slots when their bases are equal.                             *)
(***************************************************************************)
EXTENDS Integers, FiniteSets

CONSTANTS Nodes,                    \* the beacons, by their Cfg.ID
          Links,                    \* <<m, n>> when m can hear n
          HOPS_CNT_MAX,
          SCYCLES_TO_KEEP_TIMESRC,
          MaxStarts                 \* bound: power-ups after the first one

ASSUME TAssumption ==
  /\ Nodes \subseteq Nat
  /\ Links \subseteq Nodes \X Nodes
  /\ HOPS_CNT_MAX \in Nat
  /\ SCYCLES_TO_KEEP_TIMESRC \in Nat
  /\ MaxStarts \in Nat

VARIABLES
  On,               \* the beacons that have power
  TimeSrc,          \* statics of radio_lvl1.cpp, of every beacon
  HopCnt,
  TimeSrcTimeout,
  base,             \* time scale shown by the timer RADIO_TIM
  Air,              \* packet that the beacon is sending, or Silence
  starts            \* power-ups so far; each starts a time scale of its own

node == <<TimeSrc, HopCnt, TimeSrcTimeout, base>>
vars == <<On, TimeSrc, HopCnt, TimeSrcTimeout, base, Air, starts>>

Silence == [TimeSrc |-> -1, HopCnt |-> 0, base |-> 0]
Packets == [TimeSrc : Nodes, HopCnt : 0 .. HOPS_CNT_MAX, base : Nat]
Hears(m, n) == <<m, n>> \in Links
Sending == {n \in Nodes : Air[n] # Silence}

-----------------------------------------------------------------------------
(* rLevel1_t::Init.  All beacons start unsynchronised.                     *)
Init ==
  /\ On = Nodes
  /\ TimeSrc = [n \in Nodes |-> n]
  /\ HopCnt = [n \in Nodes |-> 0]
  /\ TimeSrcTimeout = [n \in Nodes |-> 0]
  /\ base = [n \in Nodes |-> n]
  /\ Air = [n \in Nodes |-> Silence]
  /\ starts = 0

(* Variants: the limit is taken one hop too far; fewer hops are enough.    *)
BetterAtLimit(m, pkt) ==
  /\ pkt.TimeSrc < m
  /\ pkt.HopCnt <= HOPS_CNT_MAX
  /\ \/ pkt.TimeSrc < TimeSrc[m]
     \/ pkt.TimeSrc = TimeSrc[m] /\ pkt.HopCnt < HopCnt[m]

BetterByHops(m, pkt) ==
  /\ pkt.TimeSrc < m
  /\ pkt.HopCnt < HOPS_CNT_MAX
  /\ pkt.TimeSrc < TimeSrc[m] \/ pkt.HopCnt < HopCnt[m]

(* The condition of AdjustRadioTimeI on a received packet.                 *)
Better(m, pkt) ==
  /\ pkt.TimeSrc < m
  /\ pkt.HopCnt < HOPS_CNT_MAX
  /\ \/ pkt.TimeSrc < TimeSrc[m]
     \/ pkt.TimeSrc = TimeSrc[m] /\ pkt.HopCnt < HopCnt[m]

(* A variant that forgets to count the hop.                                *)
AdjustWithoutHop(R, pkt) ==
  LET A == {m \in R : Better(m, pkt)}
  IN  /\ TimeSrc' = [m \in Nodes |-> IF m \in A THEN pkt.TimeSrc ELSE TimeSrc[m]]
      /\ HopCnt' = [m \in Nodes |-> IF m \in A THEN pkt.HopCnt ELSE HopCnt[m]]
      /\ TimeSrcTimeout' = [m \in Nodes |-> IF m \in A THEN 0 ELSE TimeSrcTimeout[m]]
      /\ base' = [m \in Nodes |-> IF m \in A THEN pkt.base ELSE base[m]]

(* AdjustRadioTimeI at the beacons R that received pkt: follow a better    *)
(* time, one hop further away, and set the timer to it.                    *)
AdjustRadioTime(R, pkt) ==
  LET A == {m \in R : Better(m, pkt)}
  IN  /\ TimeSrc' = [m \in Nodes |-> IF m \in A THEN pkt.TimeSrc ELSE TimeSrc[m]]
      /\ HopCnt' = [m \in Nodes |-> IF m \in A THEN pkt.HopCnt + 1 ELSE HopCnt[m]]
      /\ TimeSrcTimeout' = [m \in Nodes |-> IF m \in A THEN 0 ELSE TimeSrcTimeout[m]]
      /\ base' = [m \in Nodes |-> IF m \in A THEN pkt.base ELSE base[m]]

(* IOnTxSlotI: the slot of n has come.  TransmitCcaX sends only when the   *)
(* channel is clear, i.e. when n hears nobody else sending; otherwise the  *)
(* slot passes without a packet, which changes nothing here.               *)
TxSlot(n) ==
  /\ n \in On \ Sending
  /\ \A m \in Sending : ~Hears(n, m)
  /\ Air' = [Air EXCEPT ![n] = [TimeSrc |-> TimeSrc[n], HopCnt |-> HopCnt[n],
                                base |-> base[n]]]
  /\ UNCHANGED <<On, node, starts>>

(* Who could receive the packet of n: beacons with power that hear n and   *)
(* do not send themselves.                                                 *)
Listeners(n) == {m \in On \ Sending : Hears(m, n)}

(* The packet of n ends, and the beacons R receive it (RxCallback).  The   *)
(* others are asleep outside their cycle 0, or the packet did not pass its *)
(* CRC, or their radio was put to idle by a failed channel check.          *)
TxEnd(n, R) ==
  /\ n \in Sending
  /\ AdjustRadioTime(R, Air[n])
  /\ Air' = [Air EXCEPT ![n] = Silence]
  /\ UNCHANGED <<On, starts>>

(* A variant that forgets the source one supercycle early.                 *)
NewSupercycleEarly(n) ==
  LET t == TimeSrcTimeout[n] + 1
      expired == t >= SCYCLES_TO_KEEP_TIMESRC
  IN  /\ n \in On \ Sending
      /\ TimeSrcTimeout' = [TimeSrcTimeout EXCEPT
           ![n] = IF expired THEN SCYCLES_TO_KEEP_TIMESRC + 1 ELSE t]
      /\ TimeSrc' = [TimeSrc EXCEPT ![n] = IF expired THEN n ELSE @]
      /\ HopCnt' = [HopCnt EXCEPT ![n] = IF expired THEN 0 ELSE @]
      /\ UNCHANGED <<On, base, Air, starts>>

(* IOnNewSupercycleI, never while the beacon's own packet is on the air    *)
(* (the last slot ends before the supercycle does).  The counter is        *)
(* stopped at the value behind its limit.                                  *)
NewSupercycle(n) ==
  LET t == TimeSrcTimeout[n] + 1
      expired == t > SCYCLES_TO_KEEP_TIMESRC
  IN  /\ n \in On \ Sending
      /\ TimeSrcTimeout' = [TimeSrcTimeout EXCEPT
           ![n] = IF expired THEN SCYCLES_TO_KEEP_TIMESRC + 1 ELSE t]
      /\ TimeSrc' = [TimeSrc EXCEPT ![n] = IF expired THEN n ELSE @]
      /\ HopCnt' = [HopCnt EXCEPT ![n] = IF expired THEN 0 ELSE @]
      /\ UNCHANGED <<On, base, Air, starts>>

(* Power is lost, also in the middle of a packet.                          *)
PowerDown(n) ==
  /\ n \in On
  /\ starts < MaxStarts
  /\ On' = On \ {n}
  /\ Air' = [Air EXCEPT ![n] = Silence]
  /\ UNCHANGED <<node, starts>>

(* Power-up or watchdog reset: statics and timer start anew.               *)
PowerUp(n) ==
  /\ n \in Nodes \ On
  /\ starts < MaxStarts
  /\ On' = On \cup {n}
  /\ starts' = starts + 1
  /\ TimeSrc' = [TimeSrc EXCEPT ![n] = n]
  /\ HopCnt' = [HopCnt EXCEPT ![n] = 0]
  /\ TimeSrcTimeout' = [TimeSrcTimeout EXCEPT ![n] = 0]
  /\ base' = [base EXCEPT ![n] = n + 1000 * (starts + 1)]
  /\ UNCHANGED Air

Next ==
  \E n \in Nodes :
    \/ TxSlot(n)
    \/ \E R \in SUBSET Listeners(n) : TxEnd(n, R)
    \/ NewSupercycle(n)
    \/ PowerDown(n)
    \/ PowerUp(n)

Spec == Init /\ [][Next]_vars

-----------------------------------------------------------------------------
TypeOK ==
  /\ On \subseteq Nodes
  /\ TimeSrc \in [Nodes -> Nodes]
  /\ HopCnt \in [Nodes -> 0 .. HOPS_CNT_MAX]
  /\ TimeSrcTimeout \in [Nodes -> 0 .. SCYCLES_TO_KEEP_TIMESRC + 1]
  /\ base \in [Nodes -> Nat]
  /\ Air \in [Nodes -> Packets \cup {Silence}]
  /\ starts \in 0 .. MaxStarts

(* A time can travel from s to n in k hops.                                *)
Route(s, n, k) ==
  \E p \in [0 .. k -> Nodes] :
    /\ p[0] = s /\ p[k] = n
    /\ \A i \in 1 .. k : Hears(p[i], p[i - 1])

(* What a beacon, or a packet of it, says about its source is true: the    *)
(* source is the beacon itself exactly when the hop count is zero (no      *)
(* beacon ever follows the echo of its own time), otherwise it has a lower *)
(* ID and there is a route of exactly HopCnt hops from it.  So a time never*)
(* travels more than HOPS_CNT_MAX hops and the hop count never understates *)
(* the way, whatever beacons crash, restart or miss packets meanwhile.     *)
Truthful(n, s, h) ==
  /\ s <= n
  /\ h = 0 <=> s = n
  /\ Route(s, n, h)

SourceTruthful ==
  \A n \in Nodes :
    /\ Truthful(n, TimeSrc[n], HopCnt[n])
    /\ n \in Sending => Truthful(n, Air[n].TimeSrc, Air[n].HopCnt)

(* A beacon that gives up its source for a higher one has heard nothing    *)
(* usable during SCYCLES_TO_KEEP_TIMESRC whole supercycles, and the higher *)
(* one is itself: nobody ever moves from one neighbour's source to a worse *)
(* one of another neighbour.                                               *)
NeverWorse ==
  [][\A n \in Nodes : TimeSrc'[n] > TimeSrc[n]
                        => /\ TimeSrc'[n] = n
                           /\ n \in On => TimeSrcTimeout[n] = SCYCLES_TO_KEEP_TIMESRC]_vars

-----------------------------------------------------------------------------
(* Fairness: a packet on the air ends, and the timer of a beacon with      *)
(* power keeps running, so its supercycles keep ending however often it    *)
(* sends (strong fairness: it sends RCYCLE_CNT times in each).             *)
FairSpec ==
  /\ Spec
  /\ \A n \in Nodes :
       /\ SF_vars(NewSupercycle(n))
       /\ WF_vars(\E R \in SUBSET Listeners(n) : TxEnd(n, R))

(* radio_lvl1.h:74, HOPS_CNT_MAX is "required to avoid eternal loops       *)
(* adjustment": the time of a beacon that is off for good does not circle  *)
(* among the others for ever, although each of them keeps offering it to   *)
(* the others and nothing is assumed about which packets arrive.           *)
GhostFlushed ==
  \A s \in Nodes :
    <>[](s \notin On) => <>[](\A n \in On : TimeSrc[n] # s)
=============================================================================
