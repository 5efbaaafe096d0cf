-------------------------- MODULE BeaconTimerProofs --------------------------
(***************************************************************************)
(* Proofs about BeaconTimer for any slot scheme: any length of a slot that *)
(* has room for a packet and the latency, any number of slots and cycles,  *)
(* any set of IDs.                                                         *)
(***************************************************************************)
EXTENDS BeaconTimer, TLAPS

-----------------------------------------------------------------------------
(* Arithmetic of the slot scheme.                                          *)
LEMMA ProductNat == \A a, b \in Nat : a * b \in Nat
  OBVIOUS

LEMMA Distribute == \A a, b, c \in Int : (a + b) * c = a * c + b * c
  OBVIOUS

LEMMA Associate == \A a, b, c \in Int : (a * b) * c = a * (b * c) /\ a * b = b * a
  OBVIOUS

(* A smaller multiple of c is smaller by c at least.                       *)
LEMMA MultipleRoom ==
  ASSUME NEW a \in Nat, NEW b \in Nat, NEW c \in Nat, a * c < b * c
  PROVE  a * c + c <= b * c /\ a < b
<1>1. a < b
  <2> SUFFICES ASSUME b <= a PROVE FALSE
    OBVIOUS
  <2>1. PICK d \in Nat : a = b + d
    OBVIOUS
  <2>2. a * c = b * c + d * c
    BY <2>1, Distribute
  <2>3. d * c \in Nat /\ b * c \in Int
    BY ProductNat
  <2> QED
    BY <2>2, <2>3
<1>2. PICK d \in Nat : b = (a + 1) + d
  BY <1>1
<1>3. b * c = (a + 1) * c + d * c
  BY <1>2, Distribute
<1>4. (a + 1) * c = a * c + c
  BY Distribute
<1>5. d * c \in Nat /\ a * c \in Nat
  BY ProductNat
<1> QED
  BY <1>1, <1>3, <1>4, <1>5

LEMMA Quotient ==
  ASSUME NEW a \in Nat, NEW c \in Nat \ {0}
  PROVE  /\ a \div c \in Nat
         /\ (a \div c) * c <= a
         /\ a < (a \div c) * c + c
  OBVIOUS
-----------------------------------------------------------------------------
(* Slots, cycles and the supercycle.                                       *)
LEMMA Durations ==
  /\ TIMESLOT_DUR_TICKS \in Nat /\ TX_DUR_TICS \in Nat /\ Latency \in Nat
  /\ Latency + TX_DUR_TICS + 1 < TIMESLOT_DUR_TICKS
  /\ CYCLE_DUR_TICKS \in Nat /\ TIMESLOT_DUR_TICKS <= CYCLE_DUR_TICKS
  /\ SUPERCYCLE_DUR_TICKS \in Nat /\ CYCLE_DUR_TICKS <= SUPERCYCLE_DUR_TICKS
  /\ CYCLE_DUR_TICKS + TIMESLOT_DUR_TICKS <= SUPERCYCLE_DUR_TICKS
<1>1. /\ TIMESLOT_DUR_TICKS \in Nat /\ RSLOT_CNT \in Nat \ {0} /\ RCYCLE_CNT \in Nat \ {0, 1}
      /\ TX_DUR_TICS \in Nat /\ Latency \in Nat
      /\ Latency + TX_DUR_TICS + 1 < TIMESLOT_DUR_TICKS
  BY BAssumption DEF BAssumption
<1>2. ASSUME NEW a \in Nat, NEW n \in Nat \ {0} PROVE a * n \in Nat /\ a <= a * n
  <2>1. PICK d \in Nat : n = 1 + d
    BY <1>2
  <2>2. n * a = 1 * a + d * a /\ n * a = a * n
    BY <2>1, Distribute, Associate
  <2>3. d * a \in Nat /\ 1 * a = a
    BY ProductNat
  <2> QED
    BY <2>2, <2>3
<1>3. CYCLE_DUR_TICKS \in Nat /\ TIMESLOT_DUR_TICKS <= CYCLE_DUR_TICKS
  BY <1>1, <1>2 DEF CYCLE_DUR_TICKS
<1>4. /\ SUPERCYCLE_DUR_TICKS \in Nat
      /\ CYCLE_DUR_TICKS + TIMESLOT_DUR_TICKS <= SUPERCYCLE_DUR_TICKS
  <2>1. PICK d \in Nat : RCYCLE_CNT = 2 + d
    <3>1. RCYCLE_CNT - 2 \in Nat /\ RCYCLE_CNT = 2 + (RCYCLE_CNT - 2)
      BY <1>1
    <3> QED
      BY <3>1
  <2>2. SUPERCYCLE_DUR_TICKS = 2 * CYCLE_DUR_TICKS + d * CYCLE_DUR_TICKS
    <3>1. SUPERCYCLE_DUR_TICKS = RCYCLE_CNT * CYCLE_DUR_TICKS
      BY <1>1, <1>3, Associate DEF SUPERCYCLE_DUR_TICKS
    <3> QED
      BY <1>3, <2>1, <3>1, Distribute
  <2>3. d * CYCLE_DUR_TICKS \in Nat
    BY <1>3, ProductNat
  <2> QED
    BY <1>1, <1>3, <2>2, <2>3
<1> QED
  BY <1>1, <1>3, <1>4

LEMMA SlotFacts ==
  ASSUME NEW id \in Nat
  PROVE  /\ \A k \in Nat : SlotOf(id, k) \in Nat
         /\ \A k \in Nat : SlotOf(id, k + 1) = SlotOf(id, k) + CYCLE_DUR_TICKS
         /\ \A k \in Nat : TIMESLOT_DUR_TICKS <= SlotOf(id, k)
         /\ SlotOf(id, 0) = SlotStart(id)
<1>1. ZERO_ID_INCREMENT \in Nat \ {0} /\ TIMESLOT_DUR_TICKS \in Nat
  BY BAssumption DEF BAssumption
<1>2. SlotStart(id) \in Nat /\ TIMESLOT_DUR_TICKS <= SlotStart(id)
  <2>1. PICK d \in Nat : id + ZERO_ID_INCREMENT = 1 + d
    BY <1>1
  <2>2. SlotStart(id) = 1 * TIMESLOT_DUR_TICKS + d * TIMESLOT_DUR_TICKS
    BY <1>1, <2>1, Distribute DEF SlotStart
  <2>3. d * TIMESLOT_DUR_TICKS \in Nat /\ 1 * TIMESLOT_DUR_TICKS = TIMESLOT_DUR_TICKS
    BY <1>1, ProductNat
  <2> QED
    BY <1>1, <2>2, <2>3
<1>3. \A k \in Nat : k * CYCLE_DUR_TICKS \in Nat
  BY Durations, ProductNat
<1>4. \A k \in Nat : (k + 1) * CYCLE_DUR_TICKS = k * CYCLE_DUR_TICKS + CYCLE_DUR_TICKS
  <2> TAKE k \in Nat
  <2>1. (k + 1) * CYCLE_DUR_TICKS = k * CYCLE_DUR_TICKS + 1 * CYCLE_DUR_TICKS
    BY Durations, Distribute
  <2>2. 1 * CYCLE_DUR_TICKS = CYCLE_DUR_TICKS
    BY Durations
  <2> QED
    BY <2>1, <2>2
<1>5. 0 * CYCLE_DUR_TICKS = 0
  BY Durations
<1> QED
  BY <1>1, <1>2, <1>3, <1>4, <1>5, Durations DEF SlotOf

(* Every slot and every cycle begins at a multiple of the slot length.     *)
LEMMA SlotGrid ==
  ASSUME NEW id \in Nat, NEW k \in Nat
  PROVE  /\ (id + ZERO_ID_INCREMENT) + k * RSLOT_CNT \in Nat
         /\ SlotOf(id, k) = ((id + ZERO_ID_INCREMENT) + k * RSLOT_CNT) * TIMESLOT_DUR_TICKS
         /\ CYCLE_DUR_TICKS = RSLOT_CNT * TIMESLOT_DUR_TICKS
<1>1. TIMESLOT_DUR_TICKS \in Nat /\ RSLOT_CNT \in Nat /\ ZERO_ID_INCREMENT \in Nat
  BY BAssumption DEF BAssumption
<1>2. k * RSLOT_CNT \in Nat /\ (id + ZERO_ID_INCREMENT) + k * RSLOT_CNT \in Nat
  <2>1. k * RSLOT_CNT \in Nat
    BY <1>1, ProductNat
  <2> QED
    BY <1>1, <2>1
<1>3. CYCLE_DUR_TICKS = RSLOT_CNT * TIMESLOT_DUR_TICKS
  BY <1>1, Associate DEF CYCLE_DUR_TICKS
<1>4. k * CYCLE_DUR_TICKS = (k * RSLOT_CNT) * TIMESLOT_DUR_TICKS
  BY <1>1, <1>3, Associate
<1>5. ((id + ZERO_ID_INCREMENT) + k * RSLOT_CNT) * TIMESLOT_DUR_TICKS
        = (id + ZERO_ID_INCREMENT) * TIMESLOT_DUR_TICKS + (k * RSLOT_CNT) * TIMESLOT_DUR_TICKS
  BY <1>1, <1>2, Distribute
<1> QED
  BY <1>2, <1>3, <1>4, <1>5 DEF SlotOf, SlotStart

(* A slot of any beacon does not straddle the end of cycle 0.              *)
LEMMA SlotBesideCycle0End ==
  ASSUME NEW id \in Nat, NEW k \in Nat
  PROVE  /\ SlotOf(id, k) < CYCLE_DUR_TICKS
             => SlotOf(id, k) + TIMESLOT_DUR_TICKS <= CYCLE_DUR_TICKS
         /\ CYCLE_DUR_TICKS < SlotOf(id, k)
             => CYCLE_DUR_TICKS + TIMESLOT_DUR_TICKS <= SlotOf(id, k)
<1>1. TIMESLOT_DUR_TICKS \in Nat /\ RSLOT_CNT \in Nat
  BY BAssumption DEF BAssumption
<1>2. PICK a \in Nat : SlotOf(id, k) = a * TIMESLOT_DUR_TICKS
  BY SlotGrid
<1>3. CYCLE_DUR_TICKS = RSLOT_CNT * TIMESLOT_DUR_TICKS
  BY SlotGrid
<1> QED
  BY <1>1, <1>2, <1>3, MultipleRoom

(* A slot that starts in the supercycle lies in it.                        *)
LEMMA SlotRoom ==
  ASSUME NEW id \in Nat, NEW k \in Nat, SlotOf(id, k) < SUPERCYCLE_DUR_TICKS
  PROVE  SlotOf(id, k) + TIMESLOT_DUR_TICKS <= SUPERCYCLE_DUR_TICKS /\ k < RCYCLE_CNT
<1>1. /\ TIMESLOT_DUR_TICKS \in Nat /\ RSLOT_CNT \in Nat /\ RCYCLE_CNT \in Nat
      /\ ZERO_ID_INCREMENT \in Nat
  BY BAssumption DEF BAssumption
<1> DEFINE a == (id + ZERO_ID_INCREMENT) + k * RSLOT_CNT
           b == RSLOT_CNT * RCYCLE_CNT
<1>2. a \in Nat /\ b \in Nat
  BY <1>1, ProductNat, SlotGrid
<1>3. SlotOf(id, k) = a * TIMESLOT_DUR_TICKS
  BY SlotGrid
<1>4. SUPERCYCLE_DUR_TICKS = b * TIMESLOT_DUR_TICKS
  <2>1. SUPERCYCLE_DUR_TICKS = TIMESLOT_DUR_TICKS * (RSLOT_CNT * RCYCLE_CNT)
    BY <1>1, Associate DEF CYCLE_DUR_TICKS, SUPERCYCLE_DUR_TICKS
  <2> QED
    BY <1>1, <1>2, <2>1, Associate
<1>5. SlotOf(id, k) + TIMESLOT_DUR_TICKS <= SUPERCYCLE_DUR_TICKS
  <2> HIDE DEF a, b
  <2> QED
    BY <1>1, <1>2, <1>3, <1>4, MultipleRoom
<1>6. k < RCYCLE_CNT
  <2>1. SlotStart(id) \in Nat
    BY SlotFacts
  <2>2. k * CYCLE_DUR_TICKS < RCYCLE_CNT * CYCLE_DUR_TICKS
    <3>1. SUPERCYCLE_DUR_TICKS = RCYCLE_CNT * CYCLE_DUR_TICKS
      BY <1>1, Durations, Associate DEF SUPERCYCLE_DUR_TICKS
    <3>2. k * CYCLE_DUR_TICKS \in Nat
      BY Durations, ProductNat
    <3> QED
      BY <2>1, <3>1, <3>2 DEF SlotOf
  <2> QED
    BY <1>1, <2>2, Durations, MultipleRoom
<1> QED
  BY <1>5, <1>6

(* An ID with a slot in a cycle has one in every cycle and no more.        *)
LEMMA SlotsOfCycles ==
  ASSUME NEW id \in Nat, SlotStart(id) < CYCLE_DUR_TICKS, NEW k \in Nat
  PROVE  SlotOf(id, k) < SUPERCYCLE_DUR_TICKS <=> k < RCYCLE_CNT
<1>1. RCYCLE_CNT \in Nat /\ CYCLE_DUR_TICKS \in Nat
  BY Durations, BAssumption DEF BAssumption
<1>2. ASSUME k < RCYCLE_CNT PROVE SlotOf(id, k) < SUPERCYCLE_DUR_TICKS
  <2>1. PICK d \in Nat : RCYCLE_CNT = (k + 1) + d
    BY <1>1, <1>2
  <2>2. /\ RCYCLE_CNT * CYCLE_DUR_TICKS = (k + 1) * CYCLE_DUR_TICKS + d * CYCLE_DUR_TICKS
        /\ (k + 1) * CYCLE_DUR_TICKS = k * CYCLE_DUR_TICKS + 1 * CYCLE_DUR_TICKS
    BY <1>1, <2>1, Distribute
  <2>3. /\ d * CYCLE_DUR_TICKS \in Nat /\ k * CYCLE_DUR_TICKS \in Nat
        /\ 1 * CYCLE_DUR_TICKS = CYCLE_DUR_TICKS
    BY <1>1, ProductNat
  <2>4. SUPERCYCLE_DUR_TICKS = RCYCLE_CNT * CYCLE_DUR_TICKS
    BY <1>1, Associate DEF SUPERCYCLE_DUR_TICKS
  <2>5. SlotStart(id) \in Nat
    BY SlotFacts
  <2> QED
    BY <1>1, <2>2, <2>3, <2>4, <2>5 DEF SlotOf
<1> QED
  BY <1>1, <1>2, SlotRoom

LEMMA SlotsGrow ==
  ASSUME NEW id \in Nat, NEW j \in Nat, NEW k \in Nat, j < k
  PROVE  SlotOf(id, j) + CYCLE_DUR_TICKS <= SlotOf(id, k)
<1>1. CYCLE_DUR_TICKS \in Nat /\ SlotStart(id) \in Nat
  BY Durations, SlotFacts
<1>2. PICK d \in Nat : k = (j + 1) + d
  OBVIOUS
<1>3. /\ k * CYCLE_DUR_TICKS = (j + 1) * CYCLE_DUR_TICKS + d * CYCLE_DUR_TICKS
      /\ (j + 1) * CYCLE_DUR_TICKS = j * CYCLE_DUR_TICKS + 1 * CYCLE_DUR_TICKS
  BY <1>1, <1>2, Distribute
<1>4. /\ d * CYCLE_DUR_TICKS \in Nat /\ j * CYCLE_DUR_TICKS \in Nat
      /\ 1 * CYCLE_DUR_TICKS = CYCLE_DUR_TICKS
  BY <1>1, ProductNat
<1> QED
  BY <1>1, <1>3, <1>4 DEF SlotOf

(* PrepareNextTx finds a slot, and it is the first one after t.            *)
LEMMA TxAfterIsSlot ==
  ASSUME ID \in Nat, NEW t \in Nat
  PROVE  \E k \in Nat : /\ TxTimeAfter(t) = SlotOf(ID, k) /\ t < SlotOf(ID, k)
                        /\ k # 0 => SlotOf(ID, k) <= t + CYCLE_DUR_TICKS
<1>1. /\ CYCLE_DUR_TICKS \in Nat \ {0} /\ SlotStart(ID) \in Nat
      /\ SlotOf(ID, 0) = SlotStart(ID)
  BY Durations, SlotFacts
<1>2. CASE t < SlotStart(ID)
  <2>1. TxTimeAfter(t) = SlotOf(ID, 0)
    BY <1>1, <1>2 DEF TxTimeAfter
  <2> QED
    BY <1>1, <1>2, <2>1
<1>3. CASE ~(t < SlotStart(ID))
  <2> DEFINE q == (t - SlotStart(ID)) \div CYCLE_DUR_TICKS
  <2>1. /\ q \in Nat /\ q * CYCLE_DUR_TICKS <= t - SlotStart(ID)
        /\ t - SlotStart(ID) < q * CYCLE_DUR_TICKS + CYCLE_DUR_TICKS
    <3>1. t - SlotStart(ID) \in Nat
      BY <1>1, <1>3
    <3> QED
      BY <1>1, <3>1, Quotient
  <2>2. TxTimeAfter(t) = SlotStart(ID) + (q + 1) * CYCLE_DUR_TICKS
    BY <1>3 DEF TxTimeAfter
  <2> HIDE DEF q
  <2>3. TxTimeAfter(t) = SlotOf(ID, q + 1)
    BY <2>2 DEF SlotOf
  <2>4. /\ q * CYCLE_DUR_TICKS \in Nat
        /\ (q + 1) * CYCLE_DUR_TICKS = q * CYCLE_DUR_TICKS + CYCLE_DUR_TICKS
    <3>1. (q + 1) * CYCLE_DUR_TICKS = q * CYCLE_DUR_TICKS + 1 * CYCLE_DUR_TICKS
      BY <1>1, <2>1, Distribute
    <3> QED
      BY <1>1, <2>1, <3>1, ProductNat
  <2>5. t < SlotOf(ID, q + 1) /\ SlotOf(ID, q + 1) <= t + CYCLE_DUR_TICKS
    BY <1>1, <2>1, <2>4 DEF SlotOf
  <2> QED
    BY <2>1, <2>3, <2>5
<1> QED
  BY <1>2, <1>3

LEMMA TxAfter ==
  ASSUME ID \in Nat, NEW t \in Nat, NEW k \in Nat, t < SlotOf(ID, k),
         k # 0 => SlotOf(ID, k) <= t + CYCLE_DUR_TICKS
  PROVE  TxTimeAfter(t) = SlotOf(ID, k)
<1>1. PICK j \in Nat : /\ TxTimeAfter(t) = SlotOf(ID, j) /\ t < SlotOf(ID, j)
                       /\ j # 0 => SlotOf(ID, j) <= t + CYCLE_DUR_TICKS
  BY TxAfterIsSlot
<1>2. CYCLE_DUR_TICKS \in Nat /\ SlotOf(ID, j) \in Nat /\ SlotOf(ID, k) \in Nat
  BY Durations, SlotFacts
<1>3. ~(j < k)
  <2> SUFFICES ASSUME j < k PROVE FALSE
    OBVIOUS
  <2>1. SlotOf(ID, j) + CYCLE_DUR_TICKS <= SlotOf(ID, k) /\ k # 0
    BY SlotsGrow
  <2> QED
    BY <1>1, <1>2, <2>1
<1>4. ~(k < j)
  <2> SUFFICES ASSUME k < j PROVE FALSE
    OBVIOUS
  <2>1. SlotOf(ID, k) + CYCLE_DUR_TICKS <= SlotOf(ID, j) /\ j # 0
    BY SlotsGrow
  <2> QED
    BY <1>1, <1>2, <2>1
<1>5. j = k
  BY <1>3, <1>4
<1> QED
  BY <1>1, <1>5

-----------------------------------------------------------------------------
(* What the invariants say, part by part.                                  *)
Pending == SR \cup todo

(* The time of a received packet leaves room for the packet.               *)
PacketInSupercycle == fifo = NoTime \/ fifo + TX_DUR_TICS < SUPERCYCLE_DUR_TICKS

(* The flags.  A pending flag is as young as the handlers are late, so no   *)
(* flag of its kind comes twice, and none comes while the timer handler is *)
(* between reading SR and clearing it.                                     *)
IsSlot(t) == t < SUPERCYCLE_DUR_TICKS /\ \E k \in Nat : t = SlotOf(ID, k)
Preparing == pc \in {"Prepare", "SetCompare"}
InRxCallback == pc \in {"RxPrepare", "RxSetCompare", "RxEnd"}

RestedHandler == pc = "None" \/ InRxCallback => todo = {}
Jumping == pc \in {"RxPrepare", "RxSetCompare"} => adjusted
Clearing == pc = "Clear" => todo # {} /\ todo \subseteq SR /\ SR \cap Enabled \subseteq todo
OneSupercycle == pc # "Clear" /\ "UPD" \in todo => "UPD" \notin SR
YoungSupercycle == "UPD" \in Pending => CNT <= busy
YoungCycle0End ==
  "CC2" \in Pending => CYCLE_DUR_TICKS <= CNT /\ CNT <= CYCLE_DUR_TICKS + busy
BeforeFirst ==
  ~CC1IE => /\ CCR1 = 0 /\ "CC1" \notin todo /\ ICallback = "None"
            /\ ~Preparing /\ ~InRxCallback
            /\ "CC1" \in SR => "UPD" \in SR
CompareInTime == CCR1 = 0 \/ IsSlot(CCR1)
NextInTime == pc \in {"SetCompare", "RxSetCompare"} => \E k \in Nat : next = SlotOf(ID, k)
YoungCompare ==
  CC1IE /\ "CC1" \in Pending
    => \E s \in Nat : (s = 0 \/ IsSlot(s)) /\ s <= CNT /\ CNT <= s + busy

(* What the chip does while a flag or an edge waits.                       *)
Listening == chip = "Rx" => IsInZeroCycle(CNT) \/ "CC2" \in Pending \/ InRxCallback
Idling ==
  chip = "Idle" /\ ~deaf /\ IsInZeroCycle(CNT) => gdo0 \/ "UPD" \in Pending \/ InRxCallback

(* When every ID has a slot in the supercycle, the compare register holds  *)
(* the start of one, but for the first PrepareNextTx, and a pending        *)
(* compare flag is that of a slot.                                         *)
CompareIsSlot == CC1IE => IsSlot(CCR1) \/ (CCR1 = 0 /\ Preparing /\ CNT <= busy)
NextIsSlot == pc = "SetCompare" /\ CCR1 = 0 => next = SlotOf(ID, 0)
FlagIsYoung ==
  CC1IE /\ "CC1" \in Pending => \E s \in Nat : IsSlot(s) /\ s <= CNT /\ CNT <= s + busy

(* In a supercycle without a jump the next slot is that of cycle slots.    *)
Slot == SlotOf(ID, slots)
SlotAhead ==
  /\ "CC1" \notin Pending => CNT < Slot
  /\ "CC1" \in Pending => Slot <= CNT /\ CNT <= Slot + busy /\ slots < RCYCLE_CNT
  /\ pc # "Clear" /\ "CC1" \in todo => "CC1" \notin SR
SlotBehind == slots # 0 => Slot <= CNT + CYCLE_DUR_TICKS \/ "UPD" \in Pending
CompareAhead ==
  ~Preparing => CCR1 = IF slots < RCYCLE_CNT THEN Slot ELSE Slot - CYCLE_DUR_TICKS
Prepared ==
  Preparing => /\ "CC1" \notin Pending
               /\ \/ slots = 0 /\ CNT <= busy
                  \/ /\ slots # 0 /\ CCR1 = Slot - CYCLE_DUR_TICKS
                     /\ CCR1 <= CNT /\ CNT <= CCR1 + busy
NextAhead == pc = "SetCompare" => next = Slot
SupercycleOver == "UPD" \in Pending => slots = RCYCLE_CNT /\ "CC1" \notin Pending
Serving ==
  ~adjusted => /\ CC1IE /\ SlotAhead /\ SlotBehind /\ CompareAhead
               /\ Prepared /\ NextAhead /\ SupercycleOver

-----------------------------------------------------------------------------
LEMMA LatePacket ==
  ASSUME NEW id \in Nat, NEW k \in Nat, NEW late \in 0 .. Latency,
         SlotOf(id, k) < SUPERCYCLE_DUR_TICKS
  PROVE  /\ SlotOf(id, k) + late \in 0 .. SUPERCYCLE_DUR_TICKS - 1
         /\ SlotOf(id, k) + late + TX_DUR_TICS < SUPERCYCLE_DUR_TICKS
<1>1. SlotOf(id, k) \in Nat
  BY SlotFacts
<1>2. SlotOf(id, k) + TIMESLOT_DUR_TICKS <= SUPERCYCLE_DUR_TICKS
  BY SlotRoom
<1> QED
  BY <1>1, <1>2, Durations

TypeInv == TypeOK /\ PacketInSupercycle

LEMMA TypeInit == Init => TypeInv
<1> SUFFICES ASSUME Init PROVE TypeInv
  OBVIOUS
<1>1. PacketInSupercycle
  BY DEF Init, PacketInSupercycle
<1>2. /\ 0 \in 0 .. SUPERCYCLE_DUR_TICKS /\ 0 \in 0 .. SUPERCYCLE_DUR_TICKS - 1
      /\ 0 \in 0 .. Latency /\ 0 \in 0 .. TX_DUR_TICS
  BY Durations
<1>3. TypeOK
  BY <1>2 DEF Init, TypeOK
<1> QED
  BY <1>1, <1>3 DEF TypeInv

(* The time a jump sets.                                                   *)
LEMMA JumpTime ==
  ASSUME TypeInv, fifo # NoTime
  PROVE  fifo + TX_DUR_TICS \in 0 .. SUPERCYCLE_DUR_TICKS
<1>1. fifo \in Nat
  BY Durations DEF TypeInv, TypeOK
<1> QED
  BY <1>1, Durations DEF TypeInv, PacketInSupercycle

LEMMA TypeNext == TypeInv /\ [Next]_vars => TypeInv'
<1> SUFFICES ASSUME TypeInv, [Next]_vars PROVE TypeInv'
  OBVIOUS
<1> USE DEF TypeInv, timer, handler, cc, ghosts
<1>1. CASE Tick
  <2>1. CNT \in Nat /\ SUPERCYCLE_DUR_TICKS \in Nat /\ TX_DUR_TICS \in Nat /\ Latency \in Nat
    BY Durations DEF TypeOK
  <2>2. CNT' \in 0 .. SUPERCYCLE_DUR_TICKS
    BY <1>1, <2>1 DEF Tick, Count, TypeOK
  <2>3. SR' \subseteq {"CC1", "CC2", "UPD"}
    BY <1>1 DEF Tick, Flags, TypeOK
  <2>4. busy' \in 0 .. Latency
    BY <1>1, <2>1 DEF Tick, TypeOK
  <2>5. air' \in 0 .. TX_DUR_TICS
    BY <1>1, <2>1 DEF Tick, TypeOK
  <2> QED
    BY <1>1, <2>2, <2>3, <2>4, <2>5 DEF Tick, TypeOK, PacketInSupercycle
<1>2. CASE ReadFlags \/ ClearFlags
  BY <1>2 DEF ReadFlags, ClearFlags, TypeOK, PacketInSupercycle
<1>3. CASE OnTxSlot
  <2>1. slots' \in Nat /\ PacketInSupercycle'
    BY <1>3 DEF OnTxSlot, TypeOK, PacketInSupercycle
  <2>3. air' \in 0 .. TX_DUR_TICS
    <3>1. 0 \in 0 .. TX_DUR_TICS /\ air \in 0 .. TX_DUR_TICS
      BY Durations DEF TypeOK
    <3> QED
      BY <1>3, <3>1 DEF OnTxSlot
  <2>2. /\ chip' \in {"Idle", "Rx", "Tx"} /\ ICallback' \in {"None", "Rx", "Tx"}
        /\ gdo0' \in BOOLEAN /\ deaf' \in BOOLEAN
    BY <1>3 DEF OnTxSlot, EdgeOfIdle, TypeOK
  <2> QED
    BY <1>3, <2>1, <2>2, <2>3 DEF OnTxSlot, TypeOK
<1>4. CASE OnCycle0End
  BY <1>4 DEF OnCycle0End, Continue, EdgeOfIdle, TypeOK, PacketInSupercycle
<1>5. CASE OnNewSupercycle
  BY <1>5 DEF OnNewSupercycle, EdgeOfIdle, TypeOK, PacketInSupercycle
<1>6. CASE ReadCounter
  <2>1. ID \in Nat /\ CNT \in Nat
    BY BAssumption, Durations DEF TypeOK, BAssumption
  <2>2. PICK k \in Nat : TxTimeAfter(CNT) = SlotOf(ID, k)
    BY <2>1, TxAfterIsSlot
  <2>3. next' \in Nat
    BY <1>6, <2>1, <2>2, SlotFacts DEF ReadCounter
  <2> QED
    BY <1>6, <2>3 DEF ReadCounter, TypeOK, PacketInSupercycle
<1>7. CASE SetCompare
  <2>1. CCR1' \in 0 .. SUPERCYCLE_DUR_TICKS - 1
    BY <1>7, Durations DEF SetCompare, TypeOK
  <2> QED
    BY <1>7, <2>1 DEF SetCompare, PrepareEnds, Continue, TypeOK, PacketInSupercycle
<1>8. CASE PacketEnds
  <2>1. /\ fifo' \in {NoTime} \cup 0 .. SUPERCYCLE_DUR_TICKS - 1
        /\ PacketInSupercycle'
    <3>1. CASE fifo' = NoTime
      BY <3>1 DEF PacketInSupercycle
    <3>2. CASE fifo' # NoTime
      <4>1. PICK id \in Heard, k \in 0 .. RCYCLE_CNT - 1, late \in 0 .. Latency :
              SlotOf(id, k) < SUPERCYCLE_DUR_TICKS /\ fifo' = SlotOf(id, k) + late
        BY <1>8, <3>2 DEF PacketEnds
      <4>2. id \in Nat /\ k \in Nat
        BY BAssumption DEF BAssumption
      <4>3. /\ SlotOf(id, k) + late \in 0 .. SUPERCYCLE_DUR_TICKS - 1
            /\ SlotOf(id, k) + late + TX_DUR_TICS < SUPERCYCLE_DUR_TICKS
        BY <4>1, <4>2, LatePacket
      <4>4. /\ fifo' \in 0 .. SUPERCYCLE_DUR_TICKS - 1
            /\ fifo' + TX_DUR_TICS < SUPERCYCLE_DUR_TICKS
        BY <4>1, <4>3
      <4> QED
        BY <4>4 DEF PacketInSupercycle
    <3> QED
      BY <3>1, <3>2
  <2> QED
    BY <1>8, <2>1 DEF PacketEnds, TypeOK
<1>9. CASE TxEnds
  BY <1>9 DEF TxEnds, TypeOK, PacketInSupercycle
<1>10. CASE RxCallback
  <2>1. /\ CNT' \in 0 .. SUPERCYCLE_DUR_TICKS /\ CCR1' \in 0 .. SUPERCYCLE_DUR_TICKS - 1
        /\ CC1IE' \in BOOLEAN /\ SR' \subseteq {"CC1", "CC2", "UPD"} /\ adjusted' \in BOOLEAN
    <3>1. CASE fifo # NoTime /\ AdjustRadioTime
      <4>1. CNT' \in 0 .. SUPERCYCLE_DUR_TICKS
        BY <3>1, JumpTime DEF AdjustRadioTime
      <4>2. CCR1' = CCR1 /\ CC1IE' = TRUE /\ adjusted' = TRUE
        BY <3>1 DEF AdjustRadioTime
      <4>3. SR' \subseteq {"CC1", "CC2", "UPD"}
        BY <3>1 DEF AdjustRadioTime, Flags
      <4> QED
        BY <4>1, <4>2, <4>3 DEF TypeOK
    <3>2. CASE UNCHANGED <<timer, adjusted>>
      BY <3>2 DEF TypeOK
    <3> QED
      BY <1>10, <3>1, <3>2 DEF RxCallback
  <2> QED
    BY <1>10, <2>1 DEF RxCallback, TypeOK, PacketInSupercycle
<1>13. CASE RxCallbackEnd
  BY <1>13 DEF RxCallbackEnd, EdgeOfIdle, TypeOK, PacketInSupercycle
<1>11. CASE TxCallback
  BY <1>11 DEF TxCallback, TypeOK, PacketInSupercycle
<1>12. CASE UNCHANGED vars
  BY <1>12 DEF vars, TypeOK, PacketInSupercycle
<1> QED
  BY <1>1, <1>2, <1>3, <1>4, <1>5, <1>6, <1>7, <1>8, <1>9, <1>10, <1>11, <1>12,
     <1>13 DEF Next

(* TypeOK: whatever the slot scheme, the IDs heard and the latency, also   *)
(* when the timer ticks inside AdjustRadioTimeI, the compare register and  *)
(* the counter keep within the supercycle, a jump included.                *)
THEOREM TypeCorrect == Spec => []TypeOK
<1>1. TypeInv => TypeOK
  BY DEF TypeInv
<1> QED
  BY TypeInit, TypeNext, <1>1, PTL DEF Spec

-----------------------------------------------------------------------------
(* The flags of the timer, whatever the IDs.                               *)
FlagInv ==
  /\ RestedHandler /\ Clearing /\ OneSupercycle /\ YoungSupercycle /\ YoungCycle0End
  /\ BeforeFirst /\ CompareInTime /\ NextInTime /\ YoungCompare

LEMMA Numbers ==
  ASSUME TypeInv
  PROVE  /\ CNT \in Nat /\ CNT <= SUPERCYCLE_DUR_TICKS
         /\ CCR1 \in Nat /\ CCR1 < SUPERCYCLE_DUR_TICKS
         /\ busy \in Nat /\ busy <= Latency /\ ID \in Nat
  BY Durations, BAssumption DEF TypeInv, TypeOK, BAssumption

(* A slot begins no earlier than a supercycle is ready for it, and leaves  *)
(* room for a late handler.                                                *)
LEMMA IsSlotRoom ==
  ASSUME TypeInv, NEW s \in Nat, IsSlot(s)
  PROVE  /\ TIMESLOT_DUR_TICKS <= s /\ s + TIMESLOT_DUR_TICKS <= SUPERCYCLE_DUR_TICKS
         /\ \E k \in 0 .. RCYCLE_CNT - 1 : s = SlotOf(ID, k)
<1>1. ID \in Nat
  BY Numbers
<1>2. PICK k \in Nat : s = SlotOf(ID, k) /\ SlotOf(ID, k) < SUPERCYCLE_DUR_TICKS
  BY DEF IsSlot
<1>3. k < RCYCLE_CNT /\ SlotOf(ID, k) + TIMESLOT_DUR_TICKS <= SUPERCYCLE_DUR_TICKS
  BY <1>1, <1>2, SlotRoom
<1>4. TIMESLOT_DUR_TICKS <= SlotOf(ID, k)
  BY <1>1, SlotFacts
<1>5. k \in 0 .. RCYCLE_CNT - 1
  BY <1>3, BAssumption DEF BAssumption
<1> QED
  BY <1>2, <1>3, <1>4, <1>5

LEMMA FlagInit == Init => FlagInv
<1> SUFFICES ASSUME Init PROVE FlagInv
  OBVIOUS
<1>1. SR = {} /\ todo = {} /\ pc = "None" /\ CC1IE = FALSE /\ CCR1 = 0 /\ ICallback = "None"
  BY DEF Init
<1> QED
  BY <1>1 DEF FlagInv, RestedHandler, InRxCallback, Clearing, OneSupercycle, YoungSupercycle,
     YoungCycle0End, BeforeFirst, CompareInTime, NextInTime, YoungCompare, Pending, Preparing

(* What a tick does to the counter and to the flags.                       *)
LEMMA TickFacts ==
  ASSUME TypeInv, RestedHandler, Tick
  PROVE  /\ \/ CNT = SUPERCYCLE_DUR_TICKS /\ CNT' = 0
            \/ CNT < SUPERCYCLE_DUR_TICKS /\ CNT' = CNT + 1
         /\ "UPD" \in SR' <=> "UPD" \in SR \/ CNT' = 0
         /\ "CC2" \in SR' <=> "CC2" \in SR \/ CNT' = CYCLE_DUR_TICKS
         /\ "CC1" \in SR' <=> "CC1" \in SR \/ CNT' = CCR1
         /\ SR \subseteq SR' /\ SR' \subseteq {"CC1", "CC2", "UPD"}
         /\ busy' = IF Due THEN busy + 1 ELSE 0
         /\ Due => busy < Latency
         /\ pc # "None" => Due
         /\ "UPD" \in Pending \/ "CC2" \in Pending => Due
         /\ CC1IE /\ "CC1" \in Pending => Due
         /\ UNCHANGED <<ID, CCR1, CC1IE, todo, pc, next, chip, ICallback, gdo0, fifo,
                        slots, adjusted, deaf, lost>>
<1>1. CNT \in Nat /\ CNT <= SUPERCYCLE_DUR_TICKS /\ SUPERCYCLE_DUR_TICKS \in Nat
  BY Numbers, Durations
<1>2. \/ CNT = SUPERCYCLE_DUR_TICKS /\ CNT' = 0
      \/ CNT < SUPERCYCLE_DUR_TICKS /\ CNT' = CNT + 1
  BY <1>1 DEF Tick, Count
<1>3. /\ "UPD" \in SR' <=> "UPD" \in SR \/ CNT' = 0
      /\ "CC2" \in SR' <=> "CC2" \in SR \/ CNT' = CYCLE_DUR_TICKS
      /\ "CC1" \in SR' <=> "CC1" \in SR \/ CNT' = CCR1
      /\ SR \subseteq SR' /\ SR' \subseteq {"CC1", "CC2", "UPD"}
  BY DEF Tick, Flags, TypeInv, TypeOK
<1>4. /\ pc # "None" => Due
      /\ "UPD" \in Pending \/ "CC2" \in Pending => Due
      /\ CC1IE /\ "CC1" \in Pending => Due
  BY DEF Due, Enabled, Pending, RestedHandler, InRxCallback
<1>5. /\ busy' = IF Due THEN busy + 1 ELSE 0
      /\ Due => busy < Latency
      /\ UNCHANGED <<ID, CCR1, CC1IE, todo, pc, next, chip, ICallback, gdo0, fifo,
                     slots, adjusted, deaf, lost>>
  BY DEF Tick, handler, ghosts
<1> QED
  BY <1>2, <1>3, <1>4, <1>5

(* One tick.  The flag that has been pending since is too young for another *)
(* one to come.                                                            *)
LEMMA FlagTick ==
  ASSUME TypeInv, FlagInv, Tick
  PROVE  FlagInv'
<1> USE DEF FlagInv
<1>a. /\ CNT \in Nat /\ CNT <= SUPERCYCLE_DUR_TICKS /\ CCR1 \in Nat
      /\ CCR1 < SUPERCYCLE_DUR_TICKS /\ busy \in Nat /\ busy <= Latency /\ ID \in Nat
  BY Numbers
<1>b. /\ TIMESLOT_DUR_TICKS \in Nat /\ SUPERCYCLE_DUR_TICKS \in Nat /\ Latency \in Nat
      /\ CYCLE_DUR_TICKS \in Nat /\ TIMESLOT_DUR_TICKS <= CYCLE_DUR_TICKS
      /\ Latency + 1 < TIMESLOT_DUR_TICKS
      /\ CYCLE_DUR_TICKS + TIMESLOT_DUR_TICKS <= SUPERCYCLE_DUR_TICKS
  BY Durations
<1>c. ASSUME NEW s \in Nat, IsSlot(s)
      PROVE  /\ TIMESLOT_DUR_TICKS <= s /\ s + TIMESLOT_DUR_TICKS <= SUPERCYCLE_DUR_TICKS
             /\ s < CYCLE_DUR_TICKS => s + TIMESLOT_DUR_TICKS <= CYCLE_DUR_TICKS
             /\ CYCLE_DUR_TICKS < s => CYCLE_DUR_TICKS + TIMESLOT_DUR_TICKS <= s
  <2>1. PICK k \in Nat : s = SlotOf(ID, k)
    BY <1>c DEF IsSlot
  <2> QED
    BY <1>a, <1>c, <2>1, IsSlotRoom, SlotBesideCycle0End
<1>d. /\ \/ CNT = SUPERCYCLE_DUR_TICKS /\ CNT' = 0
         \/ CNT < SUPERCYCLE_DUR_TICKS /\ CNT' = CNT + 1
      /\ "UPD" \in SR' <=> "UPD" \in SR \/ CNT' = 0
      /\ "CC2" \in SR' <=> "CC2" \in SR \/ CNT' = CYCLE_DUR_TICKS
      /\ "CC1" \in SR' <=> "CC1" \in SR \/ CNT' = CCR1
      /\ SR \subseteq SR' /\ SR' \subseteq {"CC1", "CC2", "UPD"}
      /\ busy' = IF Due THEN busy + 1 ELSE 0
      /\ Due => busy < Latency
      /\ pc # "None" => Due
      /\ "UPD" \in Pending \/ "CC2" \in Pending => Due
      /\ CC1IE /\ "CC1" \in Pending => Due
      /\ UNCHANGED <<ID, CCR1, CC1IE, todo, pc, next, ICallback>>
  BY TickFacts
<1>e. \A s \in Nat : IsSlot(s)' <=> IsSlot(s)
  BY <1>d DEF IsSlot
<1>f. "UPD" \in Pending => /\ CNT' = CNT + 1 /\ CNT' <= busy' /\ CNT' # 0
                           /\ CNT' < TIMESLOT_DUR_TICKS
  BY <1>a, <1>b, <1>d DEF YoungSupercycle
<1>g. "CC2" \in Pending => /\ CYCLE_DUR_TICKS < CNT' /\ CNT' <= CYCLE_DUR_TICKS + busy'
                           /\ CNT' < CYCLE_DUR_TICKS + TIMESLOT_DUR_TICKS /\ CNT' # 0
  BY <1>a, <1>b, <1>d DEF YoungCycle0End
<1>h. ASSUME CC1IE, "CC1" \in Pending
      PROVE  \E s \in Nat : /\ s = 0 \/ IsSlot(s)
                            /\ s < CNT' /\ CNT' <= s + busy' /\ CNT' # 0
                            /\ CNT' < s + TIMESLOT_DUR_TICKS
  <2>1. PICK s \in Nat : (s = 0 \/ IsSlot(s)) /\ s <= CNT /\ CNT <= s + busy
    BY <1>h DEF YoungCompare
  <2>2. s + TIMESLOT_DUR_TICKS <= SUPERCYCLE_DUR_TICKS
    BY <1>b, <1>c, <2>1
  <2>3. busy' = busy + 1 /\ busy < Latency
    BY <1>d, <1>h
  <2> QED
    BY <1>a, <1>b, <1>d, <2>1, <2>2, <2>3
<1>1. RestedHandler' /\ OneSupercycle'
  BY <1>d, <1>f DEF RestedHandler, InRxCallback, OneSupercycle, Pending
<1>2. YoungSupercycle'
  <2>1. busy' \in Nat
    BY <1>a, <1>d
  <2>2. CNT' = 0 => CNT' <= busy'
    BY <2>1
  <2>3. "UPD" \in Pending' => "UPD" \in Pending \/ CNT' = 0
    BY <1>d DEF Pending
  <2> QED
    BY <1>f, <2>2, <2>3 DEF YoungSupercycle
<1>3. YoungCycle0End'
  <2>1. CNT' = CYCLE_DUR_TICKS
          => CYCLE_DUR_TICKS <= CNT' /\ CNT' <= CYCLE_DUR_TICKS + busy'
    BY <1>a, <1>b, <1>d
  <2>2. "CC2" \in Pending' => "CC2" \in Pending \/ CNT' = CYCLE_DUR_TICKS
    BY <1>d DEF Pending
  <2>3. CYCLE_DUR_TICKS < CNT' => CYCLE_DUR_TICKS <= CNT'
    BY <1>a, <1>b, <1>d
  <2> QED
    BY <1>g, <2>1, <2>2, <2>3 DEF YoungCycle0End
<1>4. BeforeFirst'
  BY <1>d DEF BeforeFirst, InRxCallback, Preparing
<1>5. CompareInTime' /\ NextInTime'
  BY <1>a, <1>d, <1>e DEF CompareInTime, NextInTime
<1>6. YoungCompare'
  <2> SUFFICES ASSUME CC1IE, "CC1" \in Pending'
               PROVE  \E s \in Nat : (s = 0 \/ IsSlot(s)) /\ s <= CNT' /\ CNT' <= s + busy'
    BY <1>d, <1>e DEF YoungCompare
  <2>1. CASE "CC1" \in Pending
    <3>1. PICK s \in Nat : (s = 0 \/ IsSlot(s)) /\ s < CNT' /\ CNT' <= s + busy'
      BY <1>h, <2>1
    <3>2. s <= CNT'
      BY <1>a, <1>d, <3>1
    <3> QED
      BY <3>1, <3>2
  <2>2. CASE "CC1" \notin Pending
    <3>1. CNT' = CCR1 /\ (CCR1 = 0 \/ IsSlot(CCR1))
      BY <1>d, <2>2 DEF Pending, CompareInTime
    <3>2. CCR1 <= CNT' /\ CNT' <= CCR1 + busy'
      BY <1>a, <1>d, <3>1
    <3> QED
      BY <1>a, <3>1, <3>2
  <2> QED
    BY <2>1, <2>2
<1>7. Clearing'
  <2> SUFFICES ASSUME pc = "Clear"
               PROVE  todo # {} /\ todo \subseteq SR' /\ (SR \cap Enabled)' \subseteq todo
    BY <1>d DEF Clearing
  <2>1. /\ todo # {} /\ todo \subseteq SR /\ SR \cap Enabled \subseteq todo
        /\ todo \subseteq {"CC1", "CC2", "UPD"} /\ Enabled' = Enabled
    BY <1>d DEF Clearing, TypeInv, TypeOK, Enabled
  <2>2. ASSUME CC1IE, CNT' = CCR1, "CC1" \notin SR PROVE FALSE
    <3>1. CCR1 = 0 \/ TIMESLOT_DUR_TICKS <= CCR1
      BY <1>a, <1>c DEF CompareInTime
    <3>2. CASE "UPD" \in todo
      BY <1>a, <1>b, <1>f, <2>2, <3>1, <3>2 DEF Pending
    <3>3. CASE "CC2" \in todo
      <4>1. CYCLE_DUR_TICKS < CCR1 /\ CCR1 < CYCLE_DUR_TICKS + TIMESLOT_DUR_TICKS /\ CCR1 # 0
        BY <1>g, <2>2, <3>3 DEF Pending
      <4>2. CYCLE_DUR_TICKS + TIMESLOT_DUR_TICKS <= CCR1
        BY <1>a, <1>c, <4>1 DEF CompareInTime
      <4> QED
        BY <1>a, <1>b, <4>1, <4>2
    <3> QED
      BY <2>1, <2>2, <3>2, <3>3
  <2>3. ASSUME CNT' = CYCLE_DUR_TICKS, "CC2" \notin SR PROVE FALSE
    <3>1. CASE "UPD" \in todo
      BY <1>a, <1>b, <1>f, <2>3, <3>1 DEF Pending
    <3>2. CASE "CC1" \in todo
      <4>1. CC1IE
        BY <3>2 DEF BeforeFirst, InRxCallback, TypeInv, TypeOK
      <4>2. PICK s \in Nat : /\ s = 0 \/ IsSlot(s)
                             /\ s < CNT' /\ CNT' < s + TIMESLOT_DUR_TICKS
        BY <1>h, <3>2, <4>1 DEF Pending
      <4>3. s + TIMESLOT_DUR_TICKS <= CYCLE_DUR_TICKS
        BY <1>b, <1>c, <2>3, <4>2
      <4> QED
        BY <1>b, <2>3, <4>2, <4>3
    <3> QED
      BY <2>1, <2>3, <3>1, <3>2
  <2>4. ASSUME CNT' = 0, "UPD" \notin SR PROVE FALSE
    <3>1. CASE "CC2" \in todo
      BY <1>g, <2>4, <3>1 DEF Pending
    <3>2. CASE "CC1" \in todo
      <4>1. CC1IE
        BY <3>2 DEF BeforeFirst, InRxCallback, TypeInv, TypeOK
      <4> QED
        BY <1>h, <2>4, <3>2, <4>1 DEF Pending
    <3> QED
      BY <2>1, <2>4, <3>1, <3>2
  <2>5. (SR \cap Enabled)' \subseteq SR \cap Enabled
    BY <1>d, <2>1, <2>2, <2>3, <2>4 DEF Enabled
  <2> QED
    BY <1>d, <2>1, <2>5
<1> QED
  BY <1>1, <1>2, <1>3, <1>4, <1>5, <1>6, <1>7

LEMMA FlagNext ==
  ASSUME ~TickInAdjust, TypeInv, FlagInv, [Next]_vars
  PROVE  FlagInv'
<1> USE DEF FlagInv
<1>a. /\ CC1IE \in BOOLEAN /\ ID \in Nat /\ CNT \in Nat
      /\ SR \subseteq {"CC1", "CC2", "UPD"} /\ todo \subseteq {"CC1", "CC2", "UPD"}
  BY Numbers DEF TypeInv, TypeOK
<1>1. CASE Tick
  BY <1>1, FlagTick
<1>2. CASE ReadFlags
  <2>1. /\ pc = "None" /\ todo = {} /\ pc' = "Clear" /\ todo' = SR \cap Enabled /\ todo' # {}
        /\ UNCHANGED <<ID, CNT, CCR1, CC1IE, SR, busy, next, ICallback>>
    BY <1>2 DEF ReadFlags, RestedHandler, InRxCallback, timer, cc
  <2>2. Enabled' = Enabled /\ Pending' = Pending
    BY <2>1 DEF Enabled, Pending
  <2>3. Clearing'
    BY <2>1, <2>2 DEF Clearing
  <2>4. BeforeFirst'
    BY <2>1 DEF BeforeFirst, InRxCallback, Preparing, Enabled
  <2> QED
    BY <2>1, <2>2, <2>3, <2>4 DEF RestedHandler, InRxCallback, OneSupercycle, YoungSupercycle,
       YoungCycle0End, CompareInTime, NextInTime, YoungCompare, IsSlot
<1>3. CASE ClearFlags
  <2>1. /\ pc = "Clear" /\ pc' = "Serve" /\ SR' = {}
        /\ UNCHANGED <<ID, CNT, CCR1, CC1IE, todo, busy, next, ICallback>>
    BY <1>3 DEF ClearFlags, cc
  <2>2. Pending' \subseteq Pending
    BY <2>1 DEF Pending
  <2> QED
    BY <2>1, <2>2 DEF RestedHandler, InRxCallback, Clearing, OneSupercycle, YoungSupercycle,
       YoungCycle0End, BeforeFirst, Preparing, CompareInTime, NextInTime, YoungCompare, IsSlot
<1>4. CASE OnTxSlot
  <2>1. /\ "CC1" \in todo /\ pc = "Serve" /\ pc' = "Prepare" /\ todo' = todo \ {"CC1"}
        /\ UNCHANGED <<ID, CNT, CCR1, CC1IE, SR, busy, next>>
    BY <1>4 DEF OnTxSlot, timer
  <2>2. CC1IE /\ Pending' \subseteq Pending
    BY <1>a, <2>1 DEF BeforeFirst, InRxCallback, Pending
  <2> QED
    BY <2>1, <2>2 DEF RestedHandler, InRxCallback, Clearing, OneSupercycle, YoungSupercycle,
       YoungCycle0End, BeforeFirst, CompareInTime, NextInTime, YoungCompare, IsSlot
<1>5. CASE OnCycle0End
  <2>1. /\ pc = "Serve" /\ pc' \in {"None", "Serve"} /\ todo' = todo \ {"CC2"}
        /\ pc' = "None" => todo' = {}
        /\ UNCHANGED <<ID, CNT, CCR1, CC1IE, SR, busy, next, ICallback>>
    BY <1>5 DEF OnCycle0End, Continue, timer
  <2>2. Pending' \subseteq Pending
    BY <2>1 DEF Pending
  <2> QED
    BY <2>1, <2>2 DEF RestedHandler, InRxCallback, Clearing, OneSupercycle, YoungSupercycle,
       YoungCycle0End, BeforeFirst, Preparing, CompareInTime, NextInTime, YoungCompare, IsSlot
<1>6. CASE OnNewSupercycle
  <2>1. /\ todo = {"UPD"} /\ todo' = {} /\ pc = "Serve" /\ pc' = "Prepare" /\ CC1IE' = TRUE
        /\ UNCHANGED <<ID, CNT, CCR1, SR, busy, next>>
    BY <1>6 DEF OnNewSupercycle
  <2>2. "UPD" \notin SR /\ Pending' \subseteq Pending
    BY <2>1 DEF OneSupercycle, Pending
  <2>3. YoungCompare'
    BY <1>a, <2>1, <2>2 DEF YoungCompare, BeforeFirst, InRxCallback, Pending, IsSlot
  <2> QED
    BY <2>1, <2>2, <2>3 DEF RestedHandler, InRxCallback, Clearing, OneSupercycle,
       YoungSupercycle, YoungCycle0End, BeforeFirst, CompareInTime, NextInTime, IsSlot
<1>7. CASE ReadCounter
  <2>1. /\ \/ pc = "Prepare" /\ pc' = "SetCompare"
           \/ pc = "RxPrepare" /\ pc' = "RxSetCompare"
        /\ next' = TxTimeAfter(CNT)
        /\ UNCHANGED <<ID, CNT, CCR1, CC1IE, SR, todo, busy, ICallback>>
    BY <1>7 DEF ReadCounter, timer, cc
  <2>2. PICK k \in Nat : TxTimeAfter(CNT) = SlotOf(ID, k)
    BY <1>a, TxAfterIsSlot
  <2>3. NextInTime'
    BY <2>1, <2>2 DEF NextInTime
  <2> QED
    BY <2>1, <2>3 DEF RestedHandler, InRxCallback, Clearing, OneSupercycle, YoungSupercycle,
       YoungCycle0End, BeforeFirst, Preparing, CompareInTime, YoungCompare, Pending, IsSlot
<1>8. CASE SetCompare
  <2>1. /\ \/ pc = "SetCompare" /\ pc' \in {"None", "Serve"} /\ (pc' = "None" => todo' = {})
           \/ pc = "RxSetCompare" /\ pc' = "RxEnd" /\ todo = {}
        /\ CCR1' = IF next < SUPERCYCLE_DUR_TICKS THEN next ELSE CCR1
        /\ UNCHANGED <<ID, CNT, CC1IE, SR, todo, busy, ICallback>>
    BY <1>8 DEF SetCompare, PrepareEnds, Continue, cc, RestedHandler, InRxCallback
  <2>2. CC1IE
    BY <1>a, <2>1 DEF BeforeFirst, InRxCallback, Preparing
  <2>3. CompareInTime'
    BY <2>1 DEF CompareInTime, NextInTime, IsSlot
  <2> QED
    BY <2>1, <2>2, <2>3 DEF RestedHandler, InRxCallback, Clearing, OneSupercycle,
       YoungSupercycle, YoungCycle0End, BeforeFirst, NextInTime, YoungCompare, Pending, IsSlot
<1>9. CASE PacketEnds \/ TxEnds
  <2>1. UNCHANGED <<ID, CNT, CCR1, CC1IE, SR, todo, pc, next, busy, ICallback>>
    BY <1>9 DEF PacketEnds, TxEnds, timer, handler
  <2> QED
    BY <2>1 DEF RestedHandler, InRxCallback, Clearing, OneSupercycle, YoungSupercycle,
       YoungCycle0End, BeforeFirst, Preparing, CompareInTime, NextInTime, YoungCompare, Pending,
       Enabled, IsSlot
<1>10. CASE RxCallback
  <2>1. /\ pc = "None" /\ todo = {} /\ CC1IE /\ pc' \in {"RxPrepare", "RxEnd"}
        /\ UNCHANGED <<ID, todo, next, busy, ICallback>>
    BY <1>10, <1>a DEF RxCallback, RestedHandler, BeforeFirst
  <2>2. CASE fifo # NoTime /\ AdjustRadioTime
    <3>1. SR' = {} /\ CC1IE' = TRUE /\ CCR1' = CCR1
      BY <2>2 DEF AdjustRadioTime
    <3> QED
      BY <2>1, <3>1 DEF RestedHandler, InRxCallback, Clearing, OneSupercycle, YoungSupercycle,
         YoungCycle0End, BeforeFirst, CompareInTime, NextInTime, YoungCompare, Pending, IsSlot
  <2>3. CASE UNCHANGED <<timer, adjusted>>
    <3>1. UNCHANGED <<CNT, CCR1, CC1IE, SR>>
      BY <2>3 DEF timer
    <3> QED
      BY <2>1, <3>1 DEF RestedHandler, InRxCallback, Clearing, OneSupercycle, YoungSupercycle,
         YoungCycle0End, BeforeFirst, CompareInTime, NextInTime, YoungCompare, Pending, IsSlot
  <2> QED
    BY <1>10, <2>2, <2>3 DEF RxCallback
<1>13. CASE RxCallbackEnd
  <2>1. /\ pc = "RxEnd" /\ pc' = "None" /\ todo = {} /\ CC1IE
        /\ UNCHANGED <<ID, CNT, CCR1, CC1IE, SR, todo, next, busy>>
    BY <1>13, <1>a DEF RxCallbackEnd, RestedHandler, InRxCallback, BeforeFirst, timer
  <2> QED
    BY <2>1 DEF RestedHandler, InRxCallback, Clearing, OneSupercycle, YoungSupercycle,
       YoungCycle0End, BeforeFirst, CompareInTime, NextInTime, YoungCompare, Pending, IsSlot
<1>11. CASE TxCallback
  <2>1. /\ pc = "None" /\ CC1IE
        /\ UNCHANGED <<ID, CNT, CCR1, CC1IE, SR, todo, pc, next, busy>>
    BY <1>11, <1>a DEF TxCallback, BeforeFirst, InRxCallback, timer, handler
  <2> QED
    BY <2>1 DEF RestedHandler, InRxCallback, Clearing, OneSupercycle, YoungSupercycle,
       YoungCycle0End, BeforeFirst, CompareInTime, NextInTime, YoungCompare, Pending, IsSlot
<1>12. CASE UNCHANGED vars
  <2>1. UNCHANGED <<ID, CNT, CCR1, CC1IE, SR, todo, pc, next, busy, ICallback>>
    BY <1>12 DEF vars, timer, handler, cc
  <2> QED
    BY <2>1 DEF RestedHandler, InRxCallback, Clearing, OneSupercycle, YoungSupercycle,
       YoungCycle0End, BeforeFirst, Preparing, CompareInTime, NextInTime, YoungCompare, Pending,
       Enabled, IsSlot
<1> QED
  BY <1>1, <1>2, <1>3, <1>4, <1>5, <1>6, <1>7, <1>8, <1>9, <1>10, <1>11, <1>12,
     <1>13 DEF Next

LEMMA LossStep == ~TickInAdjust /\ FlagInv /\ NoFlagLost /\ [Next]_vars => NoFlagLost'
<1> SUFFICES ASSUME ~TickInAdjust, FlagInv, NoFlagLost, [Next]_vars PROVE NoFlagLost'
  OBVIOUS
<1>1. CASE ClearFlags
  BY <1>1 DEF ClearFlags, FlagInv, Clearing, NoFlagLost
<1>2. CASE ~ClearFlags
  <2>1. lost' = lost
    BY <1>2 DEF Next, Tick, ReadFlags, OnTxSlot, OnCycle0End, OnNewSupercycle, ReadCounter,
       SetCompare, PacketEnds, TxEnds, RxCallback, RxCallbackEnd, TxCallback,
       vars, ghosts
  <2> QED
    BY <2>1 DEF NoFlagLost
<1> QED
  BY <1>1, <1>2

(* NoFlagLost: RTIM_IRQ_HNDLR reads SR and clears it as a whole with a     *)
(* second access.  Whatever the IDs, no flag comes between the two, unless *)
(* the timer ticks inside AdjustRadioTimeI.                                *)
THEOREM FlagsKept == ~TickInAdjust => (Spec => []NoFlagLost)
<1> SUFFICES ASSUME ~TickInAdjust PROVE Spec => []NoFlagLost
  OBVIOUS
<1>1. Init => TypeInv /\ FlagInv /\ NoFlagLost
  BY TypeInit, FlagInit DEF Init, NoFlagLost
<1>2. TypeInv /\ FlagInv /\ NoFlagLost /\ [Next]_vars => (TypeInv /\ FlagInv /\ NoFlagLost)'
  BY TypeNext, FlagNext, LossStep
<1> QED
  BY <1>1, <1>2, PTL DEF Spec

-----------------------------------------------------------------------------
(* When the chip listens.                                                  *)
ListenInv == Listening /\ Idling

LEMMA ListenNext ==
  ASSUME ~TickInAdjust, TypeInv, FlagInv, ListenInv, [Next]_vars
  PROVE  ListenInv'
<1> USE DEF ListenInv, Listening, Idling, IsInZeroCycle, InRxCallback
<1>a. /\ CNT \in Nat /\ CNT <= SUPERCYCLE_DUR_TICKS /\ busy \in Nat /\ busy <= Latency
      /\ SR \subseteq {"CC1", "CC2", "UPD"}
  BY Numbers DEF TypeInv, TypeOK
<1>b. /\ CYCLE_DUR_TICKS \in Nat /\ SUPERCYCLE_DUR_TICKS \in Nat /\ Latency \in Nat
      /\ Latency + 1 < CYCLE_DUR_TICKS /\ CYCLE_DUR_TICKS <= SUPERCYCLE_DUR_TICKS
  BY Durations
<1>c. /\ "UPD" \in Pending => CNT < CYCLE_DUR_TICKS
      /\ "CC2" \in Pending => ~(CNT < CYCLE_DUR_TICKS)
  BY <1>a, <1>b DEF FlagInv, YoungSupercycle, YoungCycle0End
<1>1. CASE Tick
  <2>1. /\ \/ CNT = SUPERCYCLE_DUR_TICKS /\ CNT' = 0
           \/ CNT < SUPERCYCLE_DUR_TICKS /\ CNT' = CNT + 1
        /\ "UPD" \in SR' <=> "UPD" \in SR \/ CNT' = 0
        /\ "CC2" \in SR' <=> "CC2" \in SR \/ CNT' = CYCLE_DUR_TICKS
        /\ UNCHANGED <<todo, pc, chip, gdo0, deaf>>
    BY <1>1, TickFacts DEF FlagInv
  <2>2. /\ CNT < CYCLE_DUR_TICKS => CNT' < CYCLE_DUR_TICKS \/ "CC2" \in SR'
        /\ CNT' < CYCLE_DUR_TICKS => CNT < CYCLE_DUR_TICKS \/ "UPD" \in SR'
    BY <1>a, <1>b, <2>1
  <2> QED
    BY <2>1, <2>2 DEF Pending
<1>2. CASE ReadFlags
  <2>1. /\ pc = "None" /\ todo = {} /\ todo' \subseteq SR
        /\ UNCHANGED <<SR, CNT, chip, gdo0, deaf>>
    BY <1>2 DEF ReadFlags, FlagInv, RestedHandler, InRxCallback, timer, cc, ghosts
  <2> QED
    BY <2>1 DEF Pending
<1>3. CASE ClearFlags
  <2>1. /\ "UPD" \in SR => "UPD" \in todo
        /\ "CC2" \in SR => "CC2" \in todo
        /\ pc = "Clear" /\ UNCHANGED <<todo, CNT, chip, gdo0, deaf>>
    BY <1>3 DEF ClearFlags, FlagInv, Clearing, Enabled, cc
  <2> QED
    BY <2>1 DEF Pending
<1>4. CASE OnTxSlot
  <2>1. /\ pc = "Serve" /\ SR' = SR /\ CNT' = CNT
        /\ todo' = todo \ {"CC1"} /\ chip' \in {"Idle", "Tx"}
        /\ chip' = "Idle" => deaf' = TRUE
    BY <1>4 DEF OnTxSlot, timer
  <2> QED
    BY <2>1
<1>5. CASE OnCycle0End
  <2>1. "CC2" \in Pending /\ CNT' = CNT /\ chip' = "Idle"
    BY <1>5 DEF OnCycle0End, timer, Pending
  <2> QED
    BY <1>c, <2>1
<1>6. CASE OnNewSupercycle
  <2>1. "UPD" \in Pending /\ CNT' = CNT /\ chip' = "Rx"
    BY <1>6 DEF OnNewSupercycle, Pending
  <2> QED
    BY <1>c, <2>1
<1>7. CASE ReadCounter \/ SetCompare
  <2>1. InRxCallback => InRxCallback'
    BY <1>7 DEF ReadCounter, SetCompare, PrepareEnds
  <2>2. UNCHANGED <<SR, todo, CNT, chip, gdo0, deaf>>
    BY <1>7 DEF ReadCounter, SetCompare, timer, cc, ghosts
  <2> QED
    BY <2>1, <2>2 DEF Pending
<1>8. CASE PacketEnds \/ TxEnds
  <2>1. chip' = "Idle" /\ gdo0' = TRUE
    BY <1>8 DEF PacketEnds, TxEnds
  <2> QED
    BY <2>1
<1>9. CASE RxCallback
  <2>1. InRxCallback'
    BY <1>9 DEF RxCallback
  <2> QED
    BY <2>1
<1>12. CASE RxCallbackEnd
  <2>1. CNT' = CNT /\ chip' = IF CNT < CYCLE_DUR_TICKS THEN "Rx" ELSE "Idle"
    BY <1>12 DEF RxCallbackEnd, timer
  <2> QED
    BY <2>1
<1>10. CASE TxCallback
  <2>1. /\ UNCHANGED <<SR, todo, CNT, deaf>> /\ pc = "None"
        /\ \/ CNT < CYCLE_DUR_TICKS /\ chip' = "Rx"
           \/ ~(CNT < CYCLE_DUR_TICKS) /\ chip' = chip
    BY <1>10 DEF TxCallback, timer, handler, ghosts
  <2> QED
    BY <2>1 DEF Pending
<1>11. CASE UNCHANGED vars
  <2>1. UNCHANGED <<SR, todo, pc, CNT, chip, gdo0, deaf>>
    BY <1>11 DEF vars, timer, handler, cc, ghosts
  <2> QED
    BY <2>1 DEF Pending
<1> QED
  BY <1>1, <1>2, <1>3, <1>4, <1>5, <1>6, <1>7, <1>8, <1>9, <1>10, <1>11, <1>12 DEF Next

(* ListensInCycle0: no jump leaves the receiver on outside cycle 0, and a  *)
(* beacon misses no part of the cycle in which it is to hear the others,   *)
(* but for its own packet, unless a channel check failed.  Again the timer *)
(* is not to tick inside AdjustRadioTimeI.                                 *)
THEOREM ListeningCorrect == ~TickInAdjust => (Spec => []ListensInCycle0)
<1> SUFFICES ASSUME ~TickInAdjust PROVE Spec => []ListensInCycle0
  OBVIOUS
<1> DEFINE I == TypeInv /\ FlagInv /\ ListenInv
<1>1. Init => I
  BY TypeInit, FlagInit DEF Init, ListenInv, Listening, Idling
<1>2. I /\ [Next]_vars => I'
  BY TypeNext, FlagNext, ListenNext
<1>3. I => ListensInCycle0
  BY DEF TypeInv, TypeOK, FlagInv, ListenInv, ListensInCycle0, Listening, Idling, RestedHandler,
     InRxCallback, Due, Enabled, Pending
<1> QED
  BY <1>1, <1>2, <1>3, PTL DEF Spec

-----------------------------------------------------------------------------
(* When the beacon sends.                                                  *)
SendInv == CompareIsSlot /\ NextIsSlot /\ FlagIsYoung

SlotsInSupercycle == \A id \in IDs : SlotStart(id) < SUPERCYCLE_DUR_TICKS

LEMMA SendInit == Init => SendInv
<1> SUFFICES ASSUME Init PROVE SendInv
  OBVIOUS
<1>1. SR = {} /\ todo = {} /\ pc = "None" /\ CC1IE = FALSE /\ CCR1 = 0 /\ ICallback = "None"
  BY DEF Init
<1> QED
  BY <1>1 DEF SendInv, CompareIsSlot, NextIsSlot, FlagIsYoung

LEMMA SendNext ==
  ASSUME ~TickInAdjust, SlotsInSupercycle, TypeInv, TypeInv', FlagInv, SendInv, [Next]_vars
  PROVE  SendInv'
<1> USE DEF SendInv, FlagInv
<1>a. /\ CNT \in Nat /\ CNT <= SUPERCYCLE_DUR_TICKS /\ CCR1 \in Nat
      /\ CCR1 < SUPERCYCLE_DUR_TICKS /\ busy \in Nat /\ busy <= Latency /\ ID \in Nat
  BY Numbers
<1>b. /\ TIMESLOT_DUR_TICKS \in Nat /\ SUPERCYCLE_DUR_TICKS \in Nat /\ Latency \in Nat
      /\ Latency + 1 < TIMESLOT_DUR_TICKS /\ TIMESLOT_DUR_TICKS <= SUPERCYCLE_DUR_TICKS
  BY Durations
<1>c. CC1IE \in BOOLEAN /\ SR \subseteq {"CC1", "CC2", "UPD"} /\ todo \subseteq {"CC1", "CC2", "UPD"}
  BY DEF TypeInv, TypeOK
<1>d. IsSlot(CCR1) => TIMESLOT_DUR_TICKS <= CCR1
  BY <1>a, IsSlotRoom
<1>1. CASE Tick
  <2>1. /\ \/ CNT = SUPERCYCLE_DUR_TICKS /\ CNT' = 0
           \/ CNT < SUPERCYCLE_DUR_TICKS /\ CNT' = CNT + 1
        /\ "UPD" \in SR' <=> "UPD" \in SR \/ CNT' = 0
        /\ "CC1" \in SR' <=> "CC1" \in SR \/ CNT' = CCR1
        /\ busy' = IF Due THEN busy + 1 ELSE 0
        /\ pc # "None" => Due
        /\ CC1IE /\ "CC1" \in Pending => Due
        /\ UNCHANGED <<ID, CCR1, CC1IE, todo, pc, next, ICallback>>
    BY <1>1, TickFacts
  <2>3. CompareIsSlot'
    <3>1. ASSUME Preparing, CNT <= busy PROVE CNT' <= busy'
      BY <1>a, <1>b, <2>1, <3>1 DEF Preparing
    <3>2. IsSlot(CCR1)' <=> IsSlot(CCR1)
      BY <2>1 DEF IsSlot
    <3> QED
      BY <2>1, <3>1, <3>2 DEF CompareIsSlot, Preparing
  <2>4. NextIsSlot'
    BY <2>1 DEF NextIsSlot
  <2>5. FlagIsYoung'
    <3> SUFFICES ASSUME CC1IE, "CC1" \in Pending'
                 PROVE  \E s \in Nat : IsSlot(s)' /\ s <= CNT' /\ CNT' <= s + busy'
      BY <2>1 DEF FlagIsYoung
    <3>1. ASSUME NEW s \in Nat PROVE IsSlot(s)' <=> IsSlot(s)
      BY <2>1 DEF IsSlot
    <3>2. CASE "CC1" \in Pending
      <4>1. PICK s \in Nat : IsSlot(s) /\ s <= CNT /\ CNT <= s + busy
        BY <3>2 DEF FlagIsYoung
      <4>2. s + TIMESLOT_DUR_TICKS <= SUPERCYCLE_DUR_TICKS
        BY <4>1, IsSlotRoom
      <4>3. busy' = busy + 1
        BY <2>1, <3>2
      <4>4. s <= CNT' /\ CNT' <= s + busy'
        BY <1>a, <1>b, <2>1, <4>1, <4>2, <4>3
      <4> QED
        BY <3>1, <4>1, <4>4
    <3>3. CASE "CC1" \notin Pending
      <4>1. CNT' = CCR1
        BY <2>1, <3>3 DEF Pending
      <4>2. IsSlot(CCR1)
        <5>1. CASE CCR1 = 0 /\ Preparing /\ CNT <= busy
          BY <1>a, <1>b, <2>1, <4>1, <5>1
        <5> QED
          BY <5>1 DEF CompareIsSlot
      <4>3. CNT' <= CCR1 /\ CCR1 <= CNT' /\ busy' \in Nat
        BY <1>a, <2>1, <4>1
      <4>4. CNT' <= CCR1 + busy'
        <5>1. PICK n \in Nat : n = busy'
          BY <4>3
        <5>2. CCR1 <= CCR1 + n
          BY <1>a
        <5> QED
          BY <4>1, <5>1, <5>2
      <4> QED
        BY <1>a, <3>1, <4>2, <4>3, <4>4
    <3> QED
      BY <3>2, <3>3
  <2> QED
    BY <2>3, <2>4, <2>5
<1>2. CASE ReadFlags \/ ClearFlags
  <2>1. /\ pc = "None" \/ pc = "Clear"
        /\ pc' = "Clear" \/ pc' = "Serve"
        /\ SR' \cup todo' \subseteq SR \cup todo
        /\ UNCHANGED <<ID, CNT, CCR1, CC1IE, busy, next>>
    BY <1>2 DEF ReadFlags, ClearFlags, timer
  <2> QED
    BY <2>1 DEF CompareIsSlot, NextIsSlot, FlagIsYoung, Preparing, Pending, IsSlot
<1>3. CASE OnTxSlot
  <2>1. /\ "CC1" \in todo /\ pc = "Serve" /\ pc' = "Prepare" /\ todo' = todo \ {"CC1"}
        /\ UNCHANGED <<ID, CNT, CCR1, CC1IE, SR, busy, next>>
    BY <1>3 DEF OnTxSlot, timer
  <2>2. CC1IE
    BY <2>1 DEF BeforeFirst, InRxCallback
  <2> QED
    BY <2>1, <2>2 DEF CompareIsSlot, NextIsSlot, FlagIsYoung, Preparing, Pending,
                      IsSlot
<1>4. CASE OnCycle0End
  <2>1. /\ pc = "Serve" /\ pc' \in {"None", "Serve"} /\ todo' = todo \ {"CC2"}
        /\ UNCHANGED <<ID, CNT, CCR1, CC1IE, SR, busy, next, ICallback>>
    BY <1>4 DEF OnCycle0End, Continue, timer
  <2> QED
    BY <2>1 DEF CompareIsSlot, NextIsSlot, FlagIsYoung, Preparing, Pending, IsSlot
<1>5. CASE OnNewSupercycle
  <2>1. /\ todo = {"UPD"} /\ todo' = {} /\ pc = "Serve" /\ pc' = "Prepare" /\ CC1IE' = TRUE
        /\ UNCHANGED <<ID, CNT, CCR1, SR, busy, next>>
    BY <1>5 DEF OnNewSupercycle
  <2>2. CNT <= busy /\ "UPD" \notin SR
    BY <2>1 DEF FlagInv, YoungSupercycle, OneSupercycle, Pending
  <2>3. CompareIsSlot'
    BY <1>c, <2>1, <2>2 DEF CompareIsSlot, BeforeFirst, InRxCallback, Preparing, IsSlot
  <2>4. FlagIsYoung'
    BY <1>c, <2>1, <2>2 DEF FlagIsYoung, BeforeFirst, InRxCallback, Pending, IsSlot
  <2> QED
    BY <2>1, <2>3, <2>4 DEF NextIsSlot
<1>6. CASE ReadCounter
  <2>1. /\ \/ pc = "Prepare" /\ pc' = "SetCompare"
           \/ pc = "RxPrepare" /\ pc' = "RxSetCompare"
        /\ next' = TxTimeAfter(CNT)
        /\ UNCHANGED <<ID, CNT, CCR1, CC1IE, SR, todo, busy, ICallback>>
    BY <1>6 DEF ReadCounter, timer, cc
  <2>2. PICK k \in Nat : TxTimeAfter(CNT) = SlotOf(ID, k)
    BY <1>a, TxAfterIsSlot
  <2>3. ASSUME CCR1 = 0, pc = "Prepare" PROVE TxTimeAfter(CNT) = SlotOf(ID, 0)
    <3>1. CC1IE
      BY <1>c, <2>1 DEF BeforeFirst, InRxCallback, Preparing
    <3>2. CNT <= busy
      BY <1>a, <1>b, <1>d, <2>3, <3>1 DEF CompareIsSlot
    <3>3. TIMESLOT_DUR_TICKS <= SlotOf(ID, 0) /\ SlotOf(ID, 0) \in Nat
      BY <1>a, SlotFacts
    <3>4. CNT < SlotOf(ID, 0)
      BY <1>a, <1>b, <3>2, <3>3
    <3> QED
      BY <1>a, <3>4, TxAfter
  <2>4. NextIsSlot'
    BY <2>1, <2>2, <2>3 DEF NextIsSlot
  <2> QED
    BY <2>1, <2>4 DEF CompareIsSlot, FlagIsYoung, Preparing, Pending, IsSlot
<1>7. CASE SetCompare
  <2>1. /\ \/ pc = "SetCompare" /\ pc' \in {"None", "Serve"}
           \/ pc = "RxSetCompare" /\ pc' = "RxEnd"
        /\ CCR1' = IF next < SUPERCYCLE_DUR_TICKS THEN next ELSE CCR1
        /\ UNCHANGED <<ID, CNT, CC1IE, SR, todo, busy, ICallback>>
    BY <1>7 DEF SetCompare, PrepareEnds, Continue, cc
  <2>2. CC1IE
    BY <1>c, <2>1 DEF BeforeFirst, InRxCallback, Preparing
  <2>3. PICK k \in Nat : next = SlotOf(ID, k)
    BY <2>1 DEF NextInTime
  <2>4. CCR1 = 0 /\ pc = "SetCompare" => next < SUPERCYCLE_DUR_TICKS
    <3>1. SlotOf(ID, 0) = SlotStart(ID) /\ ID \in IDs
      BY <1>a, SlotFacts DEF TypeInv, TypeOK
    <3> QED
      BY <2>1, <3>1 DEF NextIsSlot, SlotsInSupercycle
  <2>5. IsSlot(CCR1)'
    <3>1. CASE next < SUPERCYCLE_DUR_TICKS
      BY <2>1, <2>3, <3>1 DEF IsSlot
    <3>2. CASE ~(next < SUPERCYCLE_DUR_TICKS)
      <4>1. IsSlot(CCR1)
        BY <2>1, <2>2, <2>4, <3>2 DEF CompareIsSlot, Preparing
      <4> QED
        BY <2>1, <3>2, <4>1 DEF IsSlot
    <3> QED
      BY <3>1, <3>2
  <2> QED
    BY <2>1, <2>2, <2>5 DEF CompareIsSlot, NextIsSlot, FlagIsYoung, Pending, IsSlot
<1>8. CASE PacketEnds \/ TxEnds
  <2>1. UNCHANGED <<ID, CNT, CCR1, CC1IE, SR, todo, pc, next, busy, ICallback>>
    BY <1>8 DEF PacketEnds, TxEnds, timer, handler
  <2> QED
    BY <2>1 DEF CompareIsSlot, NextIsSlot, FlagIsYoung, Preparing, Pending, IsSlot
<1>9. CASE RxCallback
  <2>1. /\ pc = "None" /\ todo = {} /\ CC1IE /\ pc' \in {"RxPrepare", "RxEnd"}
        /\ UNCHANGED <<ID, todo, next, busy, ICallback>>
    BY <1>9, <1>c DEF RxCallback, RestedHandler, BeforeFirst
  <2>2. IsSlot(CCR1)
    BY <2>1 DEF CompareIsSlot, Preparing
  <2>3. CASE fifo # NoTime /\ AdjustRadioTime
    <3>1. SR' = {} /\ CC1IE' = TRUE /\ CCR1' = CCR1
      BY <2>3 DEF AdjustRadioTime
    <3> QED
      BY <2>1, <2>2, <3>1 DEF CompareIsSlot, NextIsSlot, FlagIsYoung, Pending, IsSlot
  <2>4. CASE UNCHANGED <<timer, adjusted>>
    <3>1. UNCHANGED <<CNT, CCR1, CC1IE, SR>>
      BY <2>4 DEF timer
    <3> QED
      BY <2>1, <2>2, <3>1 DEF CompareIsSlot, NextIsSlot, FlagIsYoung, Pending, IsSlot
  <2> QED
    BY <1>9, <2>3, <2>4 DEF RxCallback
<1>12. CASE RxCallbackEnd
  <2>1. /\ pc = "RxEnd" /\ pc' = "None"
        /\ UNCHANGED <<ID, CNT, CCR1, CC1IE, SR, todo, next, busy>>
    BY <1>12 DEF RxCallbackEnd, timer
  <2> QED
    BY <2>1 DEF CompareIsSlot, NextIsSlot, FlagIsYoung, Preparing, Pending, IsSlot
<1>10. CASE TxCallback
  <2>1. /\ CC1IE /\ UNCHANGED <<ID, CNT, CCR1, CC1IE, SR, todo, pc, next, busy>>
    BY <1>10, <1>c DEF TxCallback, BeforeFirst, InRxCallback, timer, handler
  <2> QED
    BY <2>1 DEF CompareIsSlot, NextIsSlot, FlagIsYoung, Preparing, Pending, IsSlot
<1>11. CASE UNCHANGED vars
  <2>1. UNCHANGED <<ID, CNT, CCR1, CC1IE, SR, todo, pc, next, busy, ICallback>>
    BY <1>11 DEF vars, timer, handler, cc
  <2> QED
    BY <2>1 DEF CompareIsSlot, NextIsSlot, FlagIsYoung, Preparing, Pending, IsSlot
<1> QED
  BY <1>1, <1>2, <1>3, <1>4, <1>5, <1>6, <1>7, <1>8, <1>9, <1>10, <1>11, <1>12 DEF Next

LEMMA SendStep ==
  ASSUME TypeInv, FlagInv, SendInv, OnTxSlot
  PROVE  \E k \in 0 .. RCYCLE_CNT - 1, late \in 0 .. Latency : CNT = SlotOf(ID, k) + late
<1>1. "CC1" \in todo /\ CC1IE
  BY DEF OnTxSlot, FlagInv, BeforeFirst, InRxCallback, TypeInv, TypeOK
<1>2. PICK s \in Nat : IsSlot(s) /\ s <= CNT /\ CNT <= s + busy
  BY <1>1 DEF SendInv, FlagIsYoung, Pending
<1>3. PICK k \in 0 .. RCYCLE_CNT - 1 : s = SlotOf(ID, k)
  BY <1>2, IsSlotRoom
<1>4. CNT \in Nat /\ busy \in Nat /\ busy <= Latency /\ Latency \in Nat
  BY Numbers, Durations
<1>5. PICK late \in 0 .. Latency : CNT = s + late
  <2>1. CNT - s \in 0 .. Latency /\ CNT = s + (CNT - s)
    BY <1>2, <1>4
  <2> QED
    BY <2>1
<1> QED
  BY <1>3, <1>5

(* SendsInOwnSlot: when the slot of every ID lies in the supercycle and no *)
(* tick comes inside AdjustRadioTimeI, no jump of time and no flag pending *)
(* at the jump makes a beacon send in the slot of another.                 *)
THEOREM OwnSlotCorrect == ~TickInAdjust /\ SlotsInSupercycle => (Spec => SendsInOwnSlot)
<1> SUFFICES ASSUME ~TickInAdjust, SlotsInSupercycle PROVE Spec => SendsInOwnSlot
  OBVIOUS
<1> DEFINE I == TypeInv /\ FlagInv /\ SendInv
<1>1. Init => I
  BY TypeInit, FlagInit, SendInit
<1>2. I /\ [Next]_vars => I'
  BY TypeNext, FlagNext, SendNext
<1>3. I /\ [Next]_vars
        => [OnTxSlot => \E k \in 0 .. RCYCLE_CNT - 1, late \in 0 .. Latency :
                          CNT = SlotOf(ID, k) + late]_vars
  BY SendStep
<1> QED
  BY <1>1, <1>2, <1>3, PTL DEF Spec, SendsInOwnSlot

-----------------------------------------------------------------------------
(* That nobody sends at the same time.                                     *)
IDsInWindow == \A a, b \in IDs : a < b + RSLOT_CNT

(* Two packets, each sent in a slot of its own, the one at time t of the   *)
(* supercycle and the other at u.                                          *)
Apart(t, u) == t + TX_DUR_TICS < u \/ u + TX_DUR_TICS < t

(* While the beacon sends in its slot, no other beacon on the same time    *)
(* sends in one of its slots, as late as its handlers may be.              *)
SendsAlone ==
  [][OnTxSlot => \A id \in IDs \ {ID}, k \in Nat, late \in 0 .. Latency :
                   Apart(CNT, SlotOf(id, k) + late)]_vars

(* Beacons whose IDs are RSLOT_CNT apart share their slots, such as 50 and *)
(* 154 of main.cpp:53 with the 104 slots of radio_lvl1.h.                  *)
LEMMA SharedSlots ==
  ASSUME NEW id \in Nat, NEW k \in Nat
  PROVE  SlotOf(id + RSLOT_CNT, k) = SlotOf(id, k + 1)
<1>1. RSLOT_CNT \in Nat /\ ZERO_ID_INCREMENT \in Nat /\ TIMESLOT_DUR_TICKS \in Nat
  BY BAssumption DEF BAssumption
<1>2. (k + 1) * RSLOT_CNT = k * RSLOT_CNT + RSLOT_CNT /\ k * RSLOT_CNT \in Nat
  <2>1. (k + 1) * RSLOT_CNT = k * RSLOT_CNT + 1 * RSLOT_CNT /\ 1 * RSLOT_CNT = RSLOT_CNT
    BY <1>1, Distribute
  <2> QED
    BY <1>1, <2>1, ProductNat
<1>3. id + RSLOT_CNT \in Nat /\ k + 1 \in Nat
  BY <1>1
<1>4. ((id + RSLOT_CNT) + ZERO_ID_INCREMENT) + k * RSLOT_CNT
        = (id + ZERO_ID_INCREMENT) + (k + 1) * RSLOT_CNT
  BY <1>1, <1>2
<1> QED
  BY <1>3, <1>4, SlotGrid

(* Different IDs of one window have no slot in common, in no two cycles.   *)
LEMMA OtherSlot ==
  ASSUME IDsInWindow, NEW a \in IDs, NEW b \in IDs, a # b, NEW j \in Nat, NEW k \in Nat
  PROVE  (a + ZERO_ID_INCREMENT) + j * RSLOT_CNT # (b + ZERO_ID_INCREMENT) + k * RSLOT_CNT
<1>1. /\ RSLOT_CNT \in Nat /\ ZERO_ID_INCREMENT \in Nat /\ a \in Nat /\ b \in Nat
      /\ a < b + RSLOT_CNT /\ b < a + RSLOT_CNT
  BY BAssumption DEF BAssumption, IDsInWindow
<1>2. j * RSLOT_CNT \in Nat /\ k * RSLOT_CNT \in Nat
  BY <1>1, ProductNat
<1> SUFFICES ASSUME a + j * RSLOT_CNT = b + k * RSLOT_CNT PROVE FALSE
  BY <1>1, <1>2
<1>3. CASE j * RSLOT_CNT < k * RSLOT_CNT
  <2>1. j * RSLOT_CNT + RSLOT_CNT <= k * RSLOT_CNT
    BY <1>1, <1>3, MultipleRoom
  <2> QED
    BY <1>1, <1>2, <2>1
<1>4. CASE k * RSLOT_CNT < j * RSLOT_CNT
  <2>1. k * RSLOT_CNT + RSLOT_CNT <= j * RSLOT_CNT
    BY <1>1, <1>4, MultipleRoom
  <2> QED
    BY <1>1, <1>2, <2>1
<1> QED
  BY <1>1, <1>2, <1>3, <1>4

LEMMA SlotsApart ==
  ASSUME IDsInWindow, NEW a \in IDs, NEW b \in IDs, a # b, NEW j \in Nat, NEW k \in Nat,
         NEW late \in 0 .. Latency, NEW later \in 0 .. Latency
  PROVE  Apart(SlotOf(a, j) + late, SlotOf(b, k) + later)
<1>1. /\ TIMESLOT_DUR_TICKS \in Nat /\ TX_DUR_TICS \in Nat /\ Latency \in Nat
      /\ Latency + TX_DUR_TICS + 1 < TIMESLOT_DUR_TICKS
  BY Durations
<1>2. a \in Nat /\ b \in Nat
  BY BAssumption DEF BAssumption
<1> DEFINE s == (a + ZERO_ID_INCREMENT) + j * RSLOT_CNT
           t == (b + ZERO_ID_INCREMENT) + k * RSLOT_CNT
<1>3. /\ s \in Nat /\ SlotOf(a, j) = s * TIMESLOT_DUR_TICKS
      /\ t \in Nat /\ SlotOf(b, k) = t * TIMESLOT_DUR_TICKS
  BY <1>2, SlotGrid
<1>4. s # t
  BY OtherSlot
<1> HIDE DEF s, t
<1>5. s < t \/ t < s
  BY <1>3, <1>4
<1>6. ASSUME NEW m \in Nat, NEW n \in Nat, m < n
      PROVE  m * TIMESLOT_DUR_TICKS + TIMESLOT_DUR_TICKS <= n * TIMESLOT_DUR_TICKS
  <2>1. PICK d \in Nat : n = (m + 1) + d
    BY <1>6
  <2>2. /\ n * TIMESLOT_DUR_TICKS = (m + 1) * TIMESLOT_DUR_TICKS + d * TIMESLOT_DUR_TICKS
        /\ (m + 1) * TIMESLOT_DUR_TICKS = m * TIMESLOT_DUR_TICKS + 1 * TIMESLOT_DUR_TICKS
        /\ 1 * TIMESLOT_DUR_TICKS = TIMESLOT_DUR_TICKS
    BY <1>1, <2>1, Distribute
  <2>3. d * TIMESLOT_DUR_TICKS \in Nat /\ m * TIMESLOT_DUR_TICKS \in Nat
    BY <1>1, ProductNat
  <2> QED
    BY <1>1, <2>2, <2>3
<1>7. SlotOf(a, j) \in Nat /\ SlotOf(b, k) \in Nat
  BY <1>2, SlotFacts
<1>8. \/ SlotOf(a, j) + TIMESLOT_DUR_TICKS <= SlotOf(b, k)
      \/ SlotOf(b, k) + TIMESLOT_DUR_TICKS <= SlotOf(a, j)
  BY <1>3, <1>5, <1>6
<1> QED
  BY <1>1, <1>7, <1>8 DEF Apart

(* Any RSLOT_CNT consecutive IDs, each with a slot in the supercycle, and  *)
(* no tick inside AdjustRadioTimeI: no jump of time and no pending flag    *)
(* makes a beacon send while another one that keeps the same time does.    *)
THEOREM NoCollision ==
  ~TickInAdjust /\ SlotsInSupercycle /\ IDsInWindow => (Spec => SendsAlone)
<1> SUFFICES ASSUME ~TickInAdjust, SlotsInSupercycle, IDsInWindow PROVE Spec => SendsAlone
  OBVIOUS
<1> DEFINE I == TypeInv /\ FlagInv /\ SendInv
<1>1. Init => I
  BY TypeInit, FlagInit, SendInit
<1>2. I /\ [Next]_vars => I'
  BY TypeNext, FlagNext, SendNext
<1>3. I /\ [Next]_vars
        => [OnTxSlot => \A id \in IDs \ {ID}, k \in Nat, late \in 0 .. Latency :
                          Apart(CNT, SlotOf(id, k) + late)]_vars
  <2> SUFFICES ASSUME I, OnTxSlot, NEW id \in IDs \ {ID}, NEW k \in Nat, NEW late \in 0 .. Latency
               PROVE  Apart(CNT, SlotOf(id, k) + late)
    OBVIOUS
  <2>1. PICK j \in 0 .. RCYCLE_CNT - 1, l \in 0 .. Latency : CNT = SlotOf(ID, j) + l
    BY SendStep
  <2>2. ID \in IDs /\ j \in Nat
    BY DEF TypeInv, TypeOK
  <2> QED
    BY <2>1, <2>2, SlotsApart
<1> QED
  BY <1>1, <1>2, <1>3, PTL DEF Spec, SendsAlone

-----------------------------------------------------------------------------
(* That no slot is skipped or served twice.                                *)
ServeInv == slots <= RCYCLE_CNT /\ Serving

SlotsInCycle == \A id \in IDs : SlotStart(id) < CYCLE_DUR_TICKS

LEMMA CycleInSupercycle == SlotsInCycle => SlotsInSupercycle
<1> SUFFICES ASSUME SlotsInCycle, NEW id \in IDs PROVE SlotStart(id) < SUPERCYCLE_DUR_TICKS
  BY DEF SlotsInSupercycle
<1>1. SlotStart(id) \in Nat
  BY SlotFacts, BAssumption DEF BAssumption
<1> QED
  BY <1>1, Durations DEF SlotsInCycle

LEMMA ServeInit == Init => ServeInv
  BY BAssumption DEF BAssumption, Init, ServeInv, Serving

(* The slot that comes next, and the one before it.                        *)
LEMMA SlotNumbers ==
  ASSUME SlotsInCycle, TypeInv, slots <= RCYCLE_CNT
  PROVE  /\ RCYCLE_CNT \in Nat \ {0} /\ slots \in Nat
         /\ Slot \in Nat /\ TIMESLOT_DUR_TICKS <= Slot
         /\ Slot < SUPERCYCLE_DUR_TICKS <=> slots < RCYCLE_CNT
         /\ slots < RCYCLE_CNT => Slot + TIMESLOT_DUR_TICKS <= SUPERCYCLE_DUR_TICKS
         /\ slots = RCYCLE_CNT => SUPERCYCLE_DUR_TICKS < Slot
         /\ slots # 0 => /\ TIMESLOT_DUR_TICKS + CYCLE_DUR_TICKS <= Slot
                         /\ Slot + TIMESLOT_DUR_TICKS <= SUPERCYCLE_DUR_TICKS + CYCLE_DUR_TICKS
         /\ SlotOf(ID, slots + 1) = Slot + CYCLE_DUR_TICKS
<1>1. /\ RCYCLE_CNT \in Nat \ {0} /\ slots \in Nat /\ ID \in IDs /\ ID \in Nat
      /\ SlotStart(ID) < CYCLE_DUR_TICKS
  BY BAssumption DEF BAssumption, TypeInv, TypeOK, SlotsInCycle
<1>2. /\ CYCLE_DUR_TICKS \in Nat /\ SUPERCYCLE_DUR_TICKS \in Nat /\ TIMESLOT_DUR_TICKS \in Nat
      /\ TIMESLOT_DUR_TICKS > 0
  BY Durations
<1>3. /\ Slot \in Nat /\ TIMESLOT_DUR_TICKS <= Slot
      /\ SlotOf(ID, slots + 1) = Slot + CYCLE_DUR_TICKS
  BY <1>1, SlotFacts DEF Slot
<1>4. Slot < SUPERCYCLE_DUR_TICKS <=> slots < RCYCLE_CNT
  BY <1>1, SlotsOfCycles DEF Slot
<1>5. slots < RCYCLE_CNT => Slot + TIMESLOT_DUR_TICKS <= SUPERCYCLE_DUR_TICKS
  BY <1>1, <1>4, SlotRoom DEF Slot
<1>6. ASSUME slots = RCYCLE_CNT PROVE SUPERCYCLE_DUR_TICKS < Slot
  <2>1. SUPERCYCLE_DUR_TICKS = slots * CYCLE_DUR_TICKS
    BY <1>1, <1>2, <1>6, Associate DEF SUPERCYCLE_DUR_TICKS
  <2>2. SlotStart(ID) \in Nat /\ TIMESLOT_DUR_TICKS <= SlotStart(ID)
    BY <1>1, SlotFacts
  <2> QED
    BY <1>2, <2>1, <2>2 DEF Slot, SlotOf
<1>7. ASSUME slots # 0
      PROVE  /\ TIMESLOT_DUR_TICKS + CYCLE_DUR_TICKS <= Slot
             /\ Slot + TIMESLOT_DUR_TICKS <= SUPERCYCLE_DUR_TICKS + CYCLE_DUR_TICKS
  <2>1. PICK k \in Nat : slots = k + 1 /\ k < RCYCLE_CNT
    <3>1. slots - 1 \in Nat /\ slots = (slots - 1) + 1 /\ slots - 1 < RCYCLE_CNT
      BY <1>1, <1>7
    <3> QED
      BY <3>1
  <2>2. /\ SlotOf(ID, k) \in Nat /\ TIMESLOT_DUR_TICKS <= SlotOf(ID, k)
        /\ Slot = SlotOf(ID, k) + CYCLE_DUR_TICKS
    BY <1>1, <2>1, SlotFacts DEF Slot
  <2>3. SlotOf(ID, k) < SUPERCYCLE_DUR_TICKS
    BY <1>1, <2>1, SlotsOfCycles
  <2>4. SlotOf(ID, k) + TIMESLOT_DUR_TICKS <= SUPERCYCLE_DUR_TICKS
    BY <1>1, <2>3, SlotRoom
  <2> QED
    BY <1>2, <2>2, <2>4
<1> QED
  BY <1>1, <1>3, <1>4, <1>5, <1>6, <1>7

LEMMA ServeTick ==
  ASSUME SlotsInCycle, TypeInv, TypeInv', FlagInv, SendInv, ServeInv, Tick, ~adjusted
  PROVE  Serving'
<1>a. /\ CNT \in Nat /\ CNT <= SUPERCYCLE_DUR_TICKS /\ CCR1 \in Nat
      /\ CCR1 < SUPERCYCLE_DUR_TICKS /\ busy \in Nat /\ busy <= Latency
  BY Numbers
<1>b. /\ TIMESLOT_DUR_TICKS \in Nat /\ SUPERCYCLE_DUR_TICKS \in Nat /\ Latency \in Nat
      /\ CYCLE_DUR_TICKS \in Nat /\ TIMESLOT_DUR_TICKS <= CYCLE_DUR_TICKS
      /\ Latency + 1 < TIMESLOT_DUR_TICKS /\ CYCLE_DUR_TICKS <= SUPERCYCLE_DUR_TICKS
  BY Durations
<1>c. /\ RCYCLE_CNT \in Nat \ {0} /\ slots \in Nat /\ slots <= RCYCLE_CNT
      /\ Slot \in Nat /\ TIMESLOT_DUR_TICKS <= Slot
      /\ slots < RCYCLE_CNT => Slot + TIMESLOT_DUR_TICKS <= SUPERCYCLE_DUR_TICKS
      /\ slots = RCYCLE_CNT => SUPERCYCLE_DUR_TICKS < Slot
      /\ slots # 0 => /\ TIMESLOT_DUR_TICKS + CYCLE_DUR_TICKS <= Slot
                      /\ Slot + TIMESLOT_DUR_TICKS <= SUPERCYCLE_DUR_TICKS + CYCLE_DUR_TICKS
  BY SlotNumbers DEF ServeInv
<1>d. /\ CC1IE /\ SlotAhead /\ SlotBehind /\ CompareAhead /\ Prepared /\ NextAhead
      /\ SupercycleOver
  BY DEF ServeInv, Serving
<1>e. /\ \/ CNT = SUPERCYCLE_DUR_TICKS /\ CNT' = 0
         \/ CNT < SUPERCYCLE_DUR_TICKS /\ CNT' = CNT + 1
      /\ "UPD" \in SR' <=> "UPD" \in SR \/ CNT' = 0
      /\ "CC1" \in SR' <=> "CC1" \in SR \/ CNT' = CCR1
      /\ busy' = IF Due THEN busy + 1 ELSE 0
      /\ Due => busy < Latency
      /\ pc # "None" => Due
      /\ "UPD" \in Pending => Due
      /\ CC1IE /\ "CC1" \in Pending => Due
      /\ UNCHANGED <<ID, CCR1, CC1IE, todo, pc, next, slots, adjusted>>
  BY TickFacts DEF FlagInv
<1>f. Slot' = Slot /\ (Preparing' <=> Preparing)
  BY <1>e DEF Slot, Preparing
<1>g. "UPD" \in Pending => CNT + 1 < TIMESLOT_DUR_TICKS
  BY <1>a, <1>b, <1>e DEF FlagInv, YoungSupercycle
<1>h. Preparing => Due
  BY <1>e DEF Preparing
<1>1. CASE "CC1" \in Pending
  <2>1. ~Preparing /\ slots < RCYCLE_CNT /\ CCR1 = Slot /\ "UPD" \notin Pending
    BY <1>1, <1>d DEF Prepared, SlotAhead, CompareAhead, SupercycleOver
  <2>2. Slot <= CNT /\ CNT <= Slot + busy
    BY <1>1, <1>d DEF SlotAhead
  <2>3. CNT' = CNT + 1 /\ busy' = busy + 1
    BY <1>a, <1>b, <1>c, <1>d, <1>e, <1>1, <2>1, <2>2
  <2>4. /\ Slot <= CNT' /\ CNT' <= Slot + busy' /\ Slot <= CNT' + CYCLE_DUR_TICKS
        /\ CNT' # CCR1 /\ CNT' # 0
    BY <1>a, <1>b, <1>c, <2>1, <2>2, <2>3
  <2>5. "CC1" \in Pending' /\ "UPD" \notin Pending'
    BY <1>e, <1>1, <2>1, <2>4 DEF Pending
  <2>6. SlotAhead'
    BY <1>d, <1>e, <1>f, <2>1, <2>4, <2>5 DEF SlotAhead
  <2>7. SlotBehind' /\ SupercycleOver'
    BY <1>f, <2>4, <2>5 DEF SlotBehind, SupercycleOver
  <2>8. CompareAhead' /\ Prepared' /\ NextAhead'
    BY <1>d, <1>e, <1>f, <2>1 DEF CompareAhead, Prepared, NextAhead
  <2> QED
    BY <1>d, <1>e, <2>6, <2>7, <2>8 DEF Serving
<1>2. CASE "CC1" \notin Pending /\ CNT' = CCR1
  <2>1. CNT < Slot
    BY <1>2, <1>d DEF SlotAhead
  <2>2. ~Preparing
    <3> SUFFICES ASSUME Preparing PROVE FALSE
      OBVIOUS
    <3>1. CASE slots = 0 /\ CNT <= busy
      <4>1. CCR1 = 0 \/ TIMESLOT_DUR_TICKS <= CCR1
        BY <1>a, <1>d, IsSlotRoom DEF SendInv, CompareIsSlot
      <4> QED
        BY <1>a, <1>b, <1>e, <1>h, <1>2, <3>1, <4>1
    <3>2. CASE /\ slots # 0 /\ CCR1 = Slot - CYCLE_DUR_TICKS
               /\ CCR1 <= CNT /\ CNT <= CCR1 + busy
      BY <1>a, <1>b, <1>c, <1>e, <1>2, <3>2
    <3> QED
      BY <1>d, <3>1, <3>2 DEF Prepared
  <2>3. slots < RCYCLE_CNT
    <3> SUFFICES ASSUME slots = RCYCLE_CNT PROVE FALSE
      BY <1>c
    <3>1. CCR1 = Slot - CYCLE_DUR_TICKS /\ slots # 0
      BY <1>c, <1>d, <2>2 DEF CompareAhead
    <3>2. Slot <= CNT + CYCLE_DUR_TICKS \/ CNT + 1 < TIMESLOT_DUR_TICKS
      BY <1>d, <1>g, <3>1 DEF SlotBehind
    <3> QED
      BY <1>a, <1>b, <1>c, <1>e, <1>2, <3>1, <3>2
  <2>4. CCR1 = Slot
    BY <1>d, <2>2, <2>3 DEF CompareAhead
  <2>5. "UPD" \notin Pending
    BY <1>c, <1>d, <2>3 DEF SupercycleOver
  <2>6. CNT' # 0
    BY <1>b, <1>c, <1>2, <2>4
  <2>7. "CC1" \in Pending' /\ "UPD" \notin Pending' /\ "CC1" \notin todo'
    BY <1>e, <1>2, <2>5, <2>6 DEF Pending
  <2>8. Slot <= CNT' /\ CNT' <= Slot + busy' /\ Slot <= CNT' + CYCLE_DUR_TICKS
    <3>1. PICK n \in Nat : n = busy'
      BY <1>a, <1>e
    <3>2. Slot <= Slot /\ Slot <= Slot + n /\ Slot <= Slot + CYCLE_DUR_TICKS
      BY <1>b, <1>c
    <3> QED
      BY <1>2, <2>4, <3>1, <3>2
  <2>9. SlotAhead' /\ SlotBehind' /\ SupercycleOver'
    BY <1>e, <1>f, <2>3, <2>7, <2>8 DEF SlotAhead, SlotBehind, SupercycleOver
  <2>10. CompareAhead' /\ Prepared' /\ NextAhead'
    BY <1>d, <1>e, <1>f, <2>2 DEF CompareAhead, Prepared, NextAhead
  <2> QED
    BY <1>d, <1>e, <2>9, <2>10 DEF Serving
<1>3. CASE "CC1" \notin Pending /\ CNT' # CCR1
  <2>1. CNT < Slot
    BY <1>3, <1>d DEF SlotAhead
  <2>2. "CC1" \notin Pending'
    BY <1>e, <1>3 DEF Pending
  <2>3. CNT' < Slot
    <3>1. CASE Preparing
      <4>1. CASE slots = 0 /\ CNT <= busy
        BY <1>a, <1>b, <1>c, <1>e, <1>h, <3>1, <4>1
      <4>2. CASE /\ slots # 0 /\ CCR1 = Slot - CYCLE_DUR_TICKS
                 /\ CCR1 <= CNT /\ CNT <= CCR1 + busy
        BY <1>a, <1>b, <1>c, <1>e, <4>2
      <4> QED
        BY <1>d, <3>1, <4>1, <4>2 DEF Prepared
    <3>2. CASE ~Preparing /\ slots < RCYCLE_CNT
      <4>1. CCR1 = Slot
        BY <1>d, <3>2 DEF CompareAhead
      <4> QED
        BY <1>a, <1>b, <1>c, <1>e, <1>3, <2>1, <4>1
    <3>3. CASE slots = RCYCLE_CNT
      BY <1>a, <1>b, <1>c, <1>e, <3>3
    <3> QED
      BY <1>c, <3>1, <3>2, <3>3
  <2>4. SlotAhead'
    BY <1>e, <1>f, <2>2, <2>3 DEF SlotAhead, Pending
  <2>5. SlotBehind'
    <3>1. Slot <= CNT + CYCLE_DUR_TICKS => Slot <= CNT' + CYCLE_DUR_TICKS \/ CNT' = 0
      BY <1>a, <1>b, <1>c, <1>e
    <3> QED
      BY <1>d, <1>e, <1>f, <3>1 DEF SlotBehind, Pending
  <2>6. Prepared'
    <3> SUFFICES ASSUME Preparing
                 PROVE  \/ slots = 0 /\ CNT' <= busy'
                        \/ /\ slots # 0 /\ CCR1 = Slot - CYCLE_DUR_TICKS
                           /\ CCR1 <= CNT' /\ CNT' <= CCR1 + busy'
      BY <1>e, <1>f, <2>2 DEF Prepared
    <3>1. busy' = busy + 1
      BY <1>e, <1>h
    <3>2. CASE slots = 0 /\ CNT <= busy
      <4>1. CNT' = CNT + 1
        BY <1>a, <1>b, <1>e, <3>2
      <4> QED
        BY <1>a, <3>1, <3>2, <4>1
    <3>3. CASE /\ slots # 0 /\ CCR1 = Slot - CYCLE_DUR_TICKS
               /\ CCR1 <= CNT /\ CNT <= CCR1 + busy
      <4>1. CNT' = CNT + 1
        BY <1>a, <1>b, <1>c, <1>e, <3>3
      <4>2. CCR1 <= CNT' /\ CNT' <= CCR1 + busy'
        BY <1>a, <3>1, <3>3, <4>1
      <4> QED
        BY <3>3, <4>2
    <3> QED
      BY <1>d, <3>2, <3>3 DEF Prepared
  <2>7. SupercycleOver'
    <3>1. CNT' = 0 => slots = RCYCLE_CNT
      BY <1>a, <1>b, <1>c, <1>e, <2>1
    <3> QED
      BY <1>d, <1>e, <2>2, <3>1 DEF SupercycleOver, Pending
  <2>8. CompareAhead' /\ NextAhead'
    BY <1>d, <1>e, <1>f DEF CompareAhead, NextAhead
  <2> QED
    BY <1>d, <1>e, <2>4, <2>5, <2>6, <2>7, <2>8 DEF Serving
<1> QED
  BY <1>1, <1>2, <1>3

(* A step that leaves the counter, the slot and the two flags alone.       *)
LEMMA ServeSame ==
  ASSUME ServeInv, UNCHANGED <<ID, CNT, CCR1, CC1IE, busy, slots, adjusted>>,
         "UPD" \in Pending' <=> "UPD" \in Pending,
         "CC1" \in Pending' <=> "CC1" \in Pending,
         pc' # "Clear" /\ "CC1" \in todo' => "CC1" \notin SR',
         Preparing' <=> Preparing, pc' = "SetCompare" => pc = "SetCompare" /\ next' = next
  PROVE  ServeInv'
<1>1. Slot' = Slot
  BY DEF Slot
<1> QED
  BY <1>1 DEF ServeInv, Serving, SlotAhead, SlotBehind, CompareAhead, Prepared, NextAhead,
              SupercycleOver

(* RxCallback prepares the next packet only behind a jump.                 *)
LEMMA JumpNext == Jumping /\ [Next]_vars => Jumping'
<1> SUFFICES ASSUME Jumping, [Next]_vars PROVE Jumping'
  OBVIOUS
<1> USE DEF Jumping
<1>1. CASE ReadCounter \/ SetCompare
  BY <1>1 DEF ReadCounter, SetCompare, PrepareEnds, Continue, ghosts
<1>2. CASE RxCallback \/ RxCallbackEnd
  BY <1>2 DEF RxCallback, AdjustRadioTime, RxCallbackEnd
<1>3. CASE ReadFlags \/ ClearFlags \/ OnTxSlot \/ OnCycle0End \/ OnNewSupercycle
  BY <1>3 DEF ReadFlags, ClearFlags, OnTxSlot, OnCycle0End, OnNewSupercycle, Continue
<1>4. CASE Tick \/ PacketEnds \/ TxEnds \/ TxCallback \/ UNCHANGED vars
  <2>1. pc' = pc /\ adjusted' = adjusted
    BY <1>4 DEF Tick, PacketEnds, TxEnds, TxCallback, vars, handler, ghosts
  <2> QED
    BY <2>1
<1> QED
  BY <1>1, <1>2, <1>3, <1>4 DEF Next

LEMMA ServeNext ==
  ASSUME ~TickInAdjust, SlotsInCycle, TypeInv, TypeInv', FlagInv, SendInv, Jumping, ServeInv,
         [Next]_vars
  PROVE  ServeInv'
<1>a. /\ CNT \in Nat /\ CNT <= SUPERCYCLE_DUR_TICKS /\ CCR1 \in Nat
      /\ busy \in Nat /\ busy <= Latency /\ ID \in Nat
      /\ SR \subseteq {"CC1", "CC2", "UPD"} /\ CC1IE \in BOOLEAN
  BY Numbers DEF TypeInv, TypeOK
<1>b. /\ TIMESLOT_DUR_TICKS \in Nat /\ SUPERCYCLE_DUR_TICKS \in Nat /\ Latency \in Nat
      /\ CYCLE_DUR_TICKS \in Nat /\ TIMESLOT_DUR_TICKS <= CYCLE_DUR_TICKS
      /\ Latency + 1 < TIMESLOT_DUR_TICKS /\ CYCLE_DUR_TICKS <= SUPERCYCLE_DUR_TICKS
  BY Durations
<1>c. slots <= RCYCLE_CNT
  BY DEF ServeInv
<1>d. /\ RCYCLE_CNT \in Nat \ {0} /\ slots \in Nat
      /\ Slot \in Nat /\ TIMESLOT_DUR_TICKS <= Slot
      /\ Slot < SUPERCYCLE_DUR_TICKS <=> slots < RCYCLE_CNT
      /\ SlotOf(ID, slots + 1) = Slot + CYCLE_DUR_TICKS
  BY <1>c, SlotNumbers
<1>e. ~adjusted => /\ CC1IE /\ SlotAhead /\ SlotBehind /\ CompareAhead /\ Prepared /\ NextAhead
                   /\ SupercycleOver
  BY DEF ServeInv, Serving
<1>1. CASE Tick
  <2>1. adjusted' = adjusted /\ slots' = slots
    BY <1>1 DEF Tick, ghosts
  <2>2. ~adjusted => Serving'
    BY <1>1, ServeTick
  <2> QED
    BY <1>c, <2>1, <2>2 DEF ServeInv, Serving
<1>2. CASE ReadFlags \/ ClearFlags
  <2>1. /\ UNCHANGED <<ID, CNT, CCR1, CC1IE, busy, slots, adjusted>>
        /\ ~Preparing /\ ~Preparing'
        /\ pc' = "Clear" \/ (pc' = "Serve" /\ SR' = {})
    BY <1>2 DEF ReadFlags, ClearFlags, timer, ghosts, Preparing
  <2>2. CASE adjusted
    BY <1>c, <2>1, <2>2 DEF ServeInv, Serving
  <2>3. CASE ~adjusted
    <3>1. /\ "UPD" \in Pending' <=> "UPD" \in Pending
          /\ "CC1" \in Pending' <=> "CC1" \in Pending
      <4>1. CASE ReadFlags
        BY <4>1 DEF ReadFlags, FlagInv, RestedHandler, InRxCallback, Pending, timer
      <4>2. CASE ClearFlags
        <5>1. {"CC1", "UPD"} \cap SR \subseteq todo /\ todo' = todo /\ SR' = {}
          BY <1>e, <2>3, <4>2 DEF ClearFlags, FlagInv, Clearing, Enabled
        <5> QED
          BY <5>1 DEF Pending
      <4> QED
        BY <1>2, <4>1, <4>2
    <3>2. pc' # "Clear" /\ "CC1" \in todo' => "CC1" \notin SR'
      BY <2>1
    <3> QED
      BY <2>1, <3>1, <3>2, ServeSame DEF Preparing
  <2> QED
    BY <2>2, <2>3
<1>3. CASE OnTxSlot
  <2>1. /\ pc = "Serve" /\ "CC1" \in todo /\ todo' = todo \ {"CC1"} /\ pc' = "Prepare"
        /\ slots' = IF adjusted THEN slots ELSE slots + 1
        /\ UNCHANGED <<ID, CNT, CCR1, CC1IE, SR, busy, adjusted>>
    BY <1>3 DEF OnTxSlot, timer
  <2>2. CASE adjusted
    BY <1>c, <2>1, <2>2 DEF ServeInv, Serving
  <2>3. CASE ~adjusted
    <3>1. /\ slots < RCYCLE_CNT /\ "CC1" \notin SR /\ "UPD" \notin Pending
          /\ Slot <= CNT /\ CNT <= Slot + busy
      BY <1>e, <2>1, <2>3 DEF SlotAhead, SupercycleOver, Pending
    <3>2. CCR1 = Slot
      BY <1>e, <2>1, <2>3, <3>1 DEF CompareAhead, Preparing
    <3>3. slots' = slots + 1 /\ slots' # 0 /\ slots' <= RCYCLE_CNT
      BY <1>d, <2>1, <2>3, <3>1
    <3>4. Slot' = Slot + CYCLE_DUR_TICKS
      BY <1>d, <2>1, <3>3 DEF Slot
    <3>5. "CC1" \notin Pending' /\ "UPD" \notin Pending' /\ "CC1" \notin todo'
      BY <2>1, <3>1 DEF Pending
    <3>6. CNT < Slot + CYCLE_DUR_TICKS /\ Slot = (Slot + CYCLE_DUR_TICKS) - CYCLE_DUR_TICKS
      BY <1>a, <1>b, <1>d, <3>1
    <3>7. Slot + CYCLE_DUR_TICKS <= CNT + CYCLE_DUR_TICKS
      BY <1>a, <1>b, <1>d, <3>1
    <3>8. SlotAhead' /\ SlotBehind' /\ SupercycleOver'
      BY <2>1, <3>4, <3>5, <3>6, <3>7 DEF SlotAhead, SlotBehind, SupercycleOver
    <3>9. Prepared'
      BY <2>1, <3>1, <3>2, <3>3, <3>4, <3>5, <3>6 DEF Prepared
    <3>10. CompareAhead' /\ NextAhead'
      BY <2>1 DEF CompareAhead, NextAhead, Preparing
    <3> QED
      BY <1>e, <2>1, <2>3, <3>3, <3>8, <3>9, <3>10 DEF ServeInv, Serving
  <2> QED
    BY <2>2, <2>3
<1>4. CASE OnCycle0End
  <2>1. /\ pc = "Serve" /\ pc' \in {"None", "Serve"} /\ todo' = todo \ {"CC2"}
        /\ UNCHANGED <<ID, CNT, CCR1, CC1IE, SR, busy, next, slots, adjusted>>
    BY <1>4 DEF OnCycle0End, Continue, timer, ghosts
  <2>2. CASE adjusted
    BY <1>c, <2>1, <2>2 DEF ServeInv, Serving
  <2>3. CASE ~adjusted
    <3>1. /\ "UPD" \in Pending' <=> "UPD" \in Pending
          /\ "CC1" \in Pending' <=> "CC1" \in Pending
          /\ "CC1" \in todo' => "CC1" \notin SR'
          /\ Preparing' <=> Preparing
      BY <1>e, <2>1, <2>3 DEF Pending, Preparing, SlotAhead
    <3> QED
      BY <2>1, <3>1, ServeSame
  <2> QED
    BY <2>2, <2>3
<1>5. CASE OnNewSupercycle
  <2>1. /\ todo = {"UPD"} /\ todo' = {} /\ pc = "Serve" /\ pc' = "Prepare" /\ CC1IE' = TRUE
        /\ slots' = 0 /\ adjusted' = FALSE
        /\ UNCHANGED <<ID, CNT, CCR1, SR, busy, next>>
    BY <1>5 DEF OnNewSupercycle
  <2>2. CNT <= busy /\ "UPD" \notin SR
    BY <2>1 DEF FlagInv, YoungSupercycle, OneSupercycle, Pending
  <2>3. "CC1" \notin SR
    <3> SUFFICES ASSUME "CC1" \in SR PROVE FALSE
      OBVIOUS
    <3>1. CC1IE
      BY <1>a, <2>2 DEF FlagInv, BeforeFirst, InRxCallback
    <3>2. PICK s \in Nat : IsSlot(s) /\ s <= CNT /\ CNT <= s + busy
      BY <3>1 DEF SendInv, FlagIsYoung, Pending
    <3>3. TIMESLOT_DUR_TICKS <= s
      BY <3>2, IsSlotRoom
    <3> QED
      BY <1>a, <1>b, <2>2, <3>2, <3>3
  <2>4. Slot' \in Nat /\ TIMESLOT_DUR_TICKS <= Slot'
    <3>1. Slot' = SlotOf(ID, 0)
      BY <2>1 DEF Slot
    <3> QED
      BY <1>a, <3>1, SlotFacts
  <2>5. CNT < Slot'
    <3>1. PICK n \in Nat : n = Slot' /\ TIMESLOT_DUR_TICKS <= n
      BY <2>4
    <3>2. CNT < n
      BY <1>a, <1>b, <2>2, <3>1
    <3> QED
      BY <3>1, <3>2
  <2>6. "CC1" \notin Pending' /\ "UPD" \notin Pending'
    BY <2>1, <2>2, <2>3 DEF Pending
  <2>7. SlotAhead' /\ SlotBehind' /\ SupercycleOver'
    BY <2>1, <2>5, <2>6 DEF SlotAhead, SlotBehind, SupercycleOver
  <2>8. Prepared' /\ CompareAhead' /\ NextAhead'
    BY <2>1, <2>2, <2>6 DEF Prepared, CompareAhead, NextAhead, Preparing
  <2>9. slots' <= RCYCLE_CNT
    BY <1>d, <2>1
  <2> QED
    BY <2>1, <2>7, <2>8, <2>9 DEF ServeInv, Serving
<1>6. CASE ReadCounter
  <2>1. /\ adjusted \/ (pc = "Prepare" /\ pc' = "SetCompare")
        /\ next' = TxTimeAfter(CNT)
        /\ UNCHANGED <<ID, CNT, CCR1, CC1IE, SR, todo, busy, slots, adjusted>>
    BY <1>6 DEF ReadCounter, timer, ghosts, Jumping
  <2>2. CASE adjusted
    BY <1>c, <2>1, <2>2 DEF ServeInv, Serving
  <2>3. CASE ~adjusted
    <3>1. Slot' = Slot /\ Pending' = Pending /\ Preparing /\ Preparing'
      BY <2>1, <2>3 DEF Slot, Pending, Preparing
    <3>2. CNT < Slot /\ (slots # 0 => Slot <= CNT + CYCLE_DUR_TICKS)
      <4>1. slots # 0 => Slot - CYCLE_DUR_TICKS <= CNT
        BY <1>e, <2>3, <3>1 DEF Prepared
      <4>2. CNT < Slot
        BY <1>e, <2>3, <3>1 DEF Prepared, SlotAhead
      <4> QED
        BY <1>a, <1>b, <1>d, <4>1, <4>2
    <3>3. next' = Slot
      BY <1>a, <1>d, <2>1, <3>2, TxAfter DEF Slot
    <3>4. SlotAhead' /\ SlotBehind' /\ SupercycleOver'
      BY <1>e, <2>1, <2>3, <3>1 DEF SlotAhead, SlotBehind, SupercycleOver
    <3>5. Prepared' /\ CompareAhead' /\ NextAhead'
      BY <1>e, <2>1, <2>3, <3>1, <3>3 DEF Prepared, CompareAhead, NextAhead
    <3> QED
      BY <1>c, <1>e, <2>1, <2>3, <3>4, <3>5 DEF ServeInv, Serving
  <2> QED
    BY <2>2, <2>3
<1>7. CASE SetCompare
  <2>1. /\ adjusted \/ (pc = "SetCompare" /\ pc' \in {"None", "Serve"})
        /\ CCR1' = IF next < SUPERCYCLE_DUR_TICKS THEN next ELSE CCR1
        /\ UNCHANGED <<ID, CNT, CC1IE, SR, todo, busy, slots, adjusted>>
    BY <1>7 DEF SetCompare, PrepareEnds, Continue, cc, ghosts, Jumping
  <2>2. CASE adjusted
    BY <1>c, <2>1, <2>2 DEF ServeInv, Serving
  <2>3. CASE ~adjusted
    <3>1. Slot' = Slot /\ Pending' = Pending /\ Preparing /\ ~Preparing'
      BY <2>1, <2>3 DEF Slot, Pending, Preparing
    <3>2. next = Slot
      BY <1>e, <2>1, <2>3 DEF NextAhead
    <3>3. slots = 0 => slots < RCYCLE_CNT
      BY <1>d
    <3>4. slots # 0 => CCR1 = Slot - CYCLE_DUR_TICKS
      BY <1>e, <2>3, <3>1 DEF Prepared
    <3>5. CCR1' = IF slots < RCYCLE_CNT THEN Slot ELSE Slot - CYCLE_DUR_TICKS
      BY <1>d, <2>1, <3>2, <3>3, <3>4
    <3>6. CompareAhead'
      BY <2>1, <3>1, <3>5 DEF CompareAhead
    <3>7. SlotAhead' /\ SlotBehind' /\ SupercycleOver'
      BY <1>e, <2>1, <2>3, <3>1 DEF SlotAhead, SlotBehind, SupercycleOver
    <3>8. Prepared' /\ NextAhead'
      BY <2>1, <2>3, <3>1 DEF Prepared, NextAhead
    <3> QED
      BY <1>c, <1>e, <2>1, <2>3, <3>6, <3>7, <3>8 DEF ServeInv, Serving
  <2> QED
    BY <2>2, <2>3
<1>8. CASE PacketEnds \/ TxEnds \/ TxCallback \/ UNCHANGED vars
  <2>1. UNCHANGED <<ID, CNT, CCR1, CC1IE, SR, todo, pc, next, busy, slots, adjusted>>
    BY <1>8 DEF PacketEnds, TxEnds, TxCallback, vars, timer, handler, ghosts
  <2>2. Slot' = Slot /\ Pending' = Pending /\ (Preparing' <=> Preparing)
    BY <2>1 DEF Slot, Pending, Preparing
  <2> QED
    BY <2>1, <2>2 DEF ServeInv, Serving, SlotAhead, SlotBehind, CompareAhead, Prepared,
                      NextAhead, SupercycleOver
<1>9. CASE RxCallback
  <2>1. pc = "None" /\ pc' \in {"RxPrepare", "RxEnd"} /\ UNCHANGED <<ID, todo, busy, slots>>
    BY <1>9 DEF RxCallback
  <2>2. CASE fifo # NoTime /\ AdjustRadioTime
    <3>1. adjusted' = TRUE
      BY <2>2 DEF AdjustRadioTime
    <3> QED
      BY <1>c, <2>1, <3>1 DEF ServeInv, Serving
  <2>3. CASE UNCHANGED <<timer, adjusted>>
    <3>1. UNCHANGED <<CNT, CCR1, CC1IE, SR, adjusted>>
      BY <2>3 DEF timer
    <3>2. Slot' = Slot /\ Pending' = Pending /\ ~Preparing /\ ~Preparing'
      BY <2>1, <3>1 DEF Slot, Pending, Preparing
    <3> QED
      BY <2>1, <3>1, <3>2 DEF ServeInv, Serving, SlotAhead, SlotBehind, CompareAhead, Prepared,
                              NextAhead, SupercycleOver
  <2> QED
    BY <1>9, <2>2, <2>3 DEF RxCallback
<1>10. CASE RxCallbackEnd
  <2>1. /\ pc = "RxEnd" /\ pc' = "None"
        /\ UNCHANGED <<ID, CNT, CCR1, CC1IE, SR, todo, busy, slots, adjusted>>
    BY <1>10 DEF RxCallbackEnd, timer, ghosts
  <2>2. Slot' = Slot /\ Pending' = Pending /\ ~Preparing /\ ~Preparing'
    BY <2>1 DEF Slot, Pending, Preparing
  <2> QED
    BY <2>1, <2>2 DEF ServeInv, Serving, SlotAhead, SlotBehind, CompareAhead, Prepared,
                      NextAhead, SupercycleOver
<1> QED
  BY <1>1, <1>2, <1>3, <1>4, <1>5, <1>6, <1>7, <1>8, <1>9, <1>10 DEF Next

(* EverySlotServed: when every ID has its slot in each cycle and no tick   *)
(* comes inside AdjustRadioTimeI, a supercycle without a jump ends with    *)
(* exactly one packet sent, or tried, in each of its cycles: the compare   *)
(* register is always ahead of the counter when PrepareNextTx is through.  *)
THEOREM SlotsCorrect == ~TickInAdjust /\ SlotsInCycle => (Spec => []EverySlotServed)
<1> SUFFICES ASSUME ~TickInAdjust, SlotsInCycle PROVE Spec => []EverySlotServed
  OBVIOUS
<1> DEFINE I == TypeInv /\ FlagInv /\ SendInv /\ Jumping /\ ServeInv
<1>1. Init => I
  BY TypeInit, FlagInit, SendInit, ServeInit DEF Init, Jumping
<1>2. I /\ [Next]_vars => I'
  BY TypeNext, FlagNext, SendNext, JumpNext, ServeNext, CycleInSupercycle
<1>3. I => EverySlotServed
  BY DEF ServeInv, Serving, SupercycleOver, Pending, EverySlotServed
<1> QED
  BY <1>1, <1>2, <1>3, PTL DEF Spec

=============================================================================
