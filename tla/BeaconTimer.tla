---------------------------- MODULE BeaconTimer ----------------------------
(***************************************************************************)
(* The timer and the radio chip of one beacon (Tx2_fw/Radio/radio_lvl1.cpp *)
(* and the part of cc1101.cpp it uses).  A supercycle has RCYCLE_CNT       *)
(* cycles of RSLOT_CNT slots.  The beacon sends in the slot of its ID in   *)
(* every cycle, listens during cycle 0 of its supercycle, and jumps to the *)
(* time of a packet that offers a better one (which packets do is the      *)
(* matter of TimeSync; here every packet may).  Cfg.Type keeps its initial *)
(* value TYPE_DARKSIDE, so MustTxInEachOther is true throughout.           *)
(*                                                                         *)
(* The hardware counts while the handlers run: a flag of the timer waits   *)
(* until the other handler has ended, and the counter moves between the    *)
(* places where a handler reads and writes it.                             *)
(***************************************************************************)
EXTENDS Integers

CONSTANTS TIMESLOT_DUR_TICKS, RSLOT_CNT, RCYCLE_CNT, ZERO_ID_INCREMENT, TX_DUR_TICS,
          IDs,          \* what Cfg.ID may be
          Heard,        \* the IDs this beacon can hear
          Latency,      \* bound: ticks during which handlers keep the CPU
          TickInAdjust  \* whether the timer may tick inside AdjustRadioTimeI

CYCLE_DUR_TICKS == TIMESLOT_DUR_TICKS * RSLOT_CNT
SUPERCYCLE_DUR_TICKS == CYCLE_DUR_TICKS * RCYCLE_CNT

(* A slot is long enough for the latency, the packet and one tick more;    *)
(* there is a cycle besides cycle 0.                                       *)
ASSUME BAssumption ==
  /\ TIMESLOT_DUR_TICKS \in Nat /\ RSLOT_CNT \in Nat \ {0} /\ RCYCLE_CNT \in Nat \ {0, 1}
  /\ ZERO_ID_INCREMENT \in Nat \ {0} /\ TX_DUR_TICS \in Nat /\ Latency \in Nat
  /\ Latency + TX_DUR_TICS + 1 < TIMESLOT_DUR_TICKS
  /\ IDs \subseteq Nat /\ Heard \subseteq Nat
  /\ TickInAdjust \in BOOLEAN

VARIABLES
  ID,
  CNT, CCR1,   \* registers of RADIO_TIM
  CC1IE,       \* the compare 1 interrupt is enabled
  SR,          \* its flags: "CC1", "CC2", "UPD"
  todo,        \* flags the timer handler has read and not served yet
  pc,          \* where the timer handler is, or RxCallback
  next,        \* TxTime inside PrepareNextTx
  busy,        \* ticks since some handler has been due
  chip,        \* state of the CC1101
  air,         \* ticks since the packet began
  ICallback,
  gdo0,        \* the falling edge of GDO0 waits to be handled
  fifo,        \* iTime of the received packet, or NoTime
  slots,       \* slots served in this supercycle before its first jump
  adjusted,    \* the timer was set, or not running yet, in this supercycle
  deaf,        \* a channel check failed, or no supercycle has begun yet
  lost         \* the timer handler has cleared a flag that it had not read

timer == <<CNT, CCR1, CC1IE, SR>>
handler == <<todo, pc, next>>
cc == <<chip, air, ICallback, gdo0, fifo>>
ghosts == <<slots, adjusted, deaf, lost>>
vars == <<ID, timer, handler, busy, cc, ghosts>>

NoTime == -1
Enabled == {"CC2", "UPD"} \cup IF CC1IE THEN {"CC1"} ELSE {}
Due == pc # "None" \/ SR \cap Enabled # {} \/ gdo0

SlotStart(id) == (id + ZERO_ID_INCREMENT) * TIMESLOT_DUR_TICKS
SlotOf(id, k) == SlotStart(id) + k * CYCLE_DUR_TICKS   \* in cycle k
IsInZeroCycle(t) == t < CYCLE_DUR_TICKS

(* The flags that the timer raises on reaching the value t.                *)
Flags(t) == (IF t = CCR1 THEN {"CC1"} ELSE {})
            \cup (IF t = CYCLE_DUR_TICKS THEN {"CC2"} ELSE {})
            \cup (IF t = 0 THEN {"UPD"} ELSE {})

(* A variant of the loop that does not count the slot at t as over.        *)
TxTimeFrom(t) ==
  LET first == SlotStart(ID)
  IN  IF t <= first THEN first
      ELSE first + ((t - first - 1) \div CYCLE_DUR_TICKS + 1) * CYCLE_DUR_TICKS

(* The loop of PrepareNextTx: the first slot start after t.                *)
TxTimeAfter(t) ==
  LET first == SlotStart(ID)
  IN  IF t < first THEN first
      ELSE first + ((t - first) \div CYCLE_DUR_TICKS + 1) * CYCLE_DUR_TICKS

(* The counter runs from 0 to the TOP value and restarts.                  *)
Count(t) == IF t = SUPERCYCLE_DUR_TICKS THEN 0 ELSE t + 1

-----------------------------------------------------------------------------
(* rLevel1_t::Init.                                                        *)
Init ==
  /\ ID \in IDs
  /\ CNT = 0 /\ CCR1 = 0 /\ CC1IE = FALSE /\ SR = {}
  /\ todo = {} /\ pc = "None" /\ next = 0
  /\ busy = 0
  /\ chip = "Idle" /\ air = 0 /\ ICallback = "None" /\ gdo0 = FALSE /\ fifo = NoTime
  /\ slots = 0 /\ adjusted = TRUE /\ deaf = TRUE /\ lost = FALSE

Tick ==
  /\ Due => busy < Latency
  /\ chip = "Tx" => air < TX_DUR_TICS
  /\ CNT' = Count(CNT)
  /\ SR' = SR \cup Flags(CNT')
  /\ busy' = IF Due THEN busy + 1 ELSE 0
  /\ air' = IF chip = "Tx" THEN air + 1 ELSE 0
  /\ UNCHANGED <<ID, CCR1, CC1IE, handler, chip, ICallback, gdo0, fifo, ghosts>>

(* RTIM_IRQ_HNDLR reads the flags that are enabled ...                     *)
ReadFlags ==
  /\ pc = "None" /\ SR \cap Enabled # {}
  /\ todo' = SR \cap Enabled
  /\ pc' = "Clear"
  /\ UNCHANGED <<ID, timer, next, busy, cc, ghosts>>

(* ... and clears all of them: one that came meanwhile is never served.    *)
ClearFlags ==
  /\ pc = "Clear"
  /\ SR' = {}
  /\ lost' = (lost \/ ~(SR \cap Enabled \subseteq todo))
  /\ pc' = "Serve"
  /\ UNCHANGED <<ID, CNT, CCR1, CC1IE, todo, next, busy, cc, slots, adjusted, deaf>>

(* The handler goes on to the flags it has not served yet, or ends.        *)
Continue(rest) == pc' = IF rest = {} THEN "None" ELSE "Serve"

(* A chip that is idled in the middle of a packet gives an edge of GDO0,   *)
(* which is handled when the running handler has ended.                    *)
EdgeOfIdle == IF chip = "Idle" THEN {gdo0} ELSE {gdo0, TRUE}

(* IOnTxSlotI up to PrepareNextTx.  Recalibrate idles the chip; then       *)
(* TransmitCcaX listens, and starts the packet, or idles the chip again    *)
(* when the channel is not clear.                                          *)
OnTxSlot ==
  /\ pc = "Serve" /\ "CC1" \in todo
  /\ todo' = todo \ {"CC1"}
  /\ pc' = "Prepare"
  /\ fifo' = NoTime
  /\ \/ /\ chip' = "Tx" /\ air' = 0 /\ ICallback' = "Tx"
        /\ gdo0' \in EdgeOfIdle
        /\ UNCHANGED deaf
     \/ /\ chip' = "Idle" /\ deaf' = TRUE
        /\ gdo0' \in {gdo0, TRUE}
        /\ UNCHANGED <<air, ICallback>>
  /\ slots' = IF adjusted THEN slots ELSE slots + 1
  /\ UNCHANGED <<ID, timer, next, busy, adjusted, lost>>

(* IOnCycle0EndI.                                                          *)
OnCycle0End ==
  /\ pc = "Serve" /\ "CC1" \notin todo /\ "CC2" \in todo
  /\ todo' = todo \ {"CC2"}
  /\ Continue(todo \ {"CC2"})
  /\ chip' = "Idle" /\ gdo0' \in EdgeOfIdle
  /\ UNCHANGED <<ID, timer, next, busy, air, ICallback, fifo, ghosts>>

(* IOnNewSupercycleI up to PrepareNextTx.                                  *)
OnNewSupercycle ==
  /\ pc = "Serve" /\ todo = {"UPD"}
  /\ todo' = {}
  /\ pc' = "Prepare"
  /\ CC1IE' = TRUE
  /\ chip' = "Rx" /\ fifo' = NoTime /\ ICallback' = "Rx"
  /\ gdo0' \in EdgeOfIdle
  /\ slots' = 0 /\ adjusted' = FALSE /\ deaf' = FALSE
  /\ UNCHANGED <<ID, CNT, CCR1, SR, next, busy, air, lost>>

(* PrepareNextTx, up to the reading of the counter and behind it, called   *)
(* by the timer handler or by RxCallback.                                  *)
ReadCounter ==
  /\ \/ pc = "Prepare" /\ pc' = "SetCompare"
     \/ pc = "RxPrepare" /\ pc' = "RxSetCompare"
  /\ next' = TxTimeAfter(CNT)
  /\ UNCHANGED <<ID, timer, todo, busy, cc, ghosts>>

(* What calls PrepareNextTx goes on.                                       *)
PrepareEnds ==
  \/ pc = "SetCompare" /\ Continue(todo)
  \/ pc = "RxSetCompare" /\ pc' = "RxEnd"

(* A variant without the test against the length of the supercycle.        *)
SetCompareAlways ==
  /\ PrepareEnds
  /\ CCR1' = next
  /\ UNCHANGED <<ID, CNT, CC1IE, SR, todo, next, busy, cc, ghosts>>

SetCompare ==
  /\ PrepareEnds
  /\ CCR1' = IF next < SUPERCYCLE_DUR_TICKS THEN next ELSE CCR1
  /\ UNCHANGED <<ID, CNT, CC1IE, SR, todo, next, busy, cc, ghosts>>

-----------------------------------------------------------------------------
(* A packet ends while the chip listens: one of a beacon of ID id, sent    *)
(* late ticks after the start of its slot in cycle k (which is a slot of   *)
(* the supercycle, see SetCompare), or a broken one.                       *)
PacketEnds ==
  /\ chip = "Rx"
  /\ \/ \E id \in Heard, k \in 0 .. RCYCLE_CNT - 1, late \in 0 .. Latency :
          SlotOf(id, k) < SUPERCYCLE_DUR_TICKS /\ fifo' = SlotOf(id, k) + late
     \/ fifo' = NoTime
  /\ chip' = "Idle" /\ gdo0' = TRUE
  /\ UNCHANGED <<ID, timer, handler, busy, air, ICallback, ghosts>>

TxEnds ==
  /\ chip = "Tx"
  /\ chip' = "Idle" /\ gdo0' = TRUE
  /\ UNCHANGED <<ID, timer, handler, busy, air, ICallback, fifo, ghosts>>

(* A variant that leaves the flags raised.                                 *)
AdjustKeepFlags ==
  /\ CNT' = fifo + TX_DUR_TICS
  /\ CC1IE' = TRUE
  /\ adjusted' = TRUE
  /\ UNCHANGED <<CCR1, SR>>

(* AdjustRadioTimeI on a better packet: clear the flags, then set the      *)
(* counter, then PrepareNextTx, up to its reading of the counter.  A tick  *)
(* between the first two raises the flags of the old time again.           *)
AdjustRadioTime ==
  /\ SR' \in {{}} \cup IF TickInAdjust THEN {Flags(Count(CNT))} ELSE {}
  /\ CNT' = fifo + TX_DUR_TICS
  /\ CC1IE' = TRUE
  /\ adjusted' = TRUE
  /\ UNCHANGED CCR1

(* The interrupt of GDO0 with RxCallback installed reads the packet ...    *)
RxCallback ==
  /\ pc = "None" /\ gdo0 /\ ICallback = "Rx"
  /\ gdo0' = FALSE
  /\ \/ fifo # NoTime /\ AdjustRadioTime /\ pc' = "RxPrepare"
     \/ UNCHANGED <<timer, adjusted>> /\ pc' = "RxEnd"
  /\ fifo' = NoTime
  /\ UNCHANGED <<ID, todo, next, busy, chip, air, ICallback, slots, deaf, lost>>

(* ... and goes back to reception, or idles the chip behind cycle 0.       *)
RxCallbackEnd ==
  /\ pc = "RxEnd" /\ pc' = "None"
  /\ IF IsInZeroCycle(CNT)
     THEN /\ chip' = "Rx"
          /\ fifo' = IF chip = "Rx" THEN fifo ELSE NoTime
          /\ gdo0' \in IF chip = "Rx" THEN {gdo0} ELSE EdgeOfIdle
     ELSE chip' = "Idle" /\ gdo0' \in EdgeOfIdle /\ UNCHANGED fifo
  /\ UNCHANGED <<ID, timer, todo, next, busy, air, ICallback, ghosts>>

(* A variant that does not return to reception.                            *)
TxCallbackIdle ==
  /\ pc = "None" /\ gdo0 /\ ICallback = "Tx"
  /\ gdo0' = FALSE
  /\ UNCHANGED <<ID, timer, handler, busy, chip, air, ICallback, fifo, ghosts>>

(* The interrupt of GDO0 with TxCallback installed.  ReceiveAsyncI idles a  *)
(* chip that is still sending.                                             *)
TxCallback ==
  /\ pc = "None" /\ gdo0 /\ ICallback = "Tx"
  /\ IF IsInZeroCycle(CNT)
     THEN /\ chip' = "Rx" /\ fifo' = NoTime /\ ICallback' = "Rx"
          /\ gdo0' \in {FALSE, chip = "Tx"}
     ELSE gdo0' = FALSE /\ UNCHANGED <<chip, fifo, ICallback>>
  /\ UNCHANGED <<ID, timer, handler, busy, air, ghosts>>

Next ==
  \/ Tick \/ ReadFlags \/ ClearFlags
  \/ OnTxSlot \/ OnCycle0End \/ OnNewSupercycle \/ ReadCounter \/ SetCompare
  \/ PacketEnds \/ TxEnds \/ RxCallback \/ RxCallbackEnd \/ TxCallback

Spec == Init /\ [][Next]_vars

-----------------------------------------------------------------------------
TypeOK ==
  /\ ID \in IDs
  /\ CNT \in 0 .. SUPERCYCLE_DUR_TICKS
  /\ CCR1 \in 0 .. SUPERCYCLE_DUR_TICKS - 1
  /\ CC1IE \in BOOLEAN
  /\ SR \subseteq {"CC1", "CC2", "UPD"} /\ todo \subseteq {"CC1", "CC2", "UPD"}
  /\ pc \in {"None", "Clear", "Serve", "Prepare", "SetCompare",
             "RxPrepare", "RxSetCompare", "RxEnd"}
  /\ next \in Nat
  /\ busy \in 0 .. Latency
  /\ chip \in {"Idle", "Rx", "Tx"} /\ air \in 0 .. TX_DUR_TICS
  /\ ICallback \in {"None", "Rx", "Tx"} /\ gdo0 \in BOOLEAN
  /\ fifo \in {NoTime} \cup 0 .. SUPERCYCLE_DUR_TICKS - 1
  /\ slots \in Nat
  /\ adjusted \in BOOLEAN /\ deaf \in BOOLEAN /\ lost \in BOOLEAN

(* A beacon sends only in its own slot of a cycle, whatever jumps its time *)
(* made and whatever flags were pending when it jumped.                    *)
SendsInOwnSlot ==
  [][OnTxSlot
       => \E k \in 0 .. RCYCLE_CNT - 1, late \in 0 .. Latency :
            CNT = SlotOf(ID, k) + late]_vars

(* In a supercycle without a jump every cycle gets its packet, no slot is  *)
(* served twice and none is skipped.                                       *)
EverySlotServed ==
  /\ slots <= RCYCLE_CNT
  /\ ~adjusted /\ pc = "Serve" /\ todo = {"UPD"} => slots = RCYCLE_CNT

(* When no handler is due, the chip listens only in cycle 0, so a beacon   *)
(* spends three quarters of its time with the receiver off, and it listens *)
(* all through cycle 0, but for its own packet, unless a channel check     *)
(* failed: then it stays deaf until the next supercycle.                   *)
ListensInCycle0 ==
  ~Due => /\ chip = "Rx" => IsInZeroCycle(CNT)
          /\ IsInZeroCycle(CNT) /\ ~deaf => chip \in {"Rx", "Tx"}

(* The handler clears SR as a whole, so a flag that comes between its two  *)
(* accesses would be lost, and with it a slot, the end of cycle 0 or a     *)
(* supercycle.  It never does: when the handler is entered for one flag,   *)
(* the next one is further away than the handler can be late.              *)
NoFlagLost == ~lost

(* radio_lvl1.h:73, "[0;100) -> [3;103) to process start of zero cycle     *)
(* calibration delay": the slots in use are 3 to 102 of each cycle.        *)
SlotsAfterCalibration ==
  [][OnTxSlot
       => (CNT \div TIMESLOT_DUR_TICKS) % RSLOT_CNT \in 3 .. 102]_vars
=============================================================================
