----------------------------- MODULE SwordRadio -----------------------------
(***************************************************************************)
(* How the sword listens to the beacons (Tirusse_fw: Radio/radio_lvl1,     *)
(* Radio/cc1101.cpp, main.cpp).  A thread of high priority listens for     *)
(* RX_DURATION_MS, stores what it receives in the write table, powers the  *)
(* radio chip down and sleeps.  The main thread swaps the tables at each   *)
(* periodic check and counts what the other one holds, entry by entry and  *)
(* outside any lock.  On a long press it stops the radio, waits for the    *)
(* LEDs to fade, and puts the controller to standby.                       *)
(*                                                                         *)
(* The main thread takes a step only while the radio thread is blocked,    *)
(* and interrupts preempt both.                                            *)
(***************************************************************************)
EXTENDS Integers

CONSTANTS RXTABLE_SZ,   \* entries of a table, one per beacon ID
          Types,        \* Type fields of packets
          TYPE_CNT,     \* first type that nobody counts
          NearTypes,    \* TYPE_DARKSIDE and TYPE_BOTH
          None,         \* an entry without IsValid, an empty FIFO
          Bad,          \* a packet that fails its CRC or its salt
          RadioPresent  \* whether Radio.Init() succeeded

ASSUME RAssumption ==
  /\ RXTABLE_SZ \in Nat
  /\ Types \subseteq Nat /\ NearTypes \subseteq Types /\ TYPE_CNT \in Nat
  /\ \A type \in NearTypes : type < TYPE_CNT
  /\ None \notin Nat \cup BOOLEAN
  /\ RadioPresent \in BOOLEAN

Ids == 0 .. RXTABLE_SZ - 1
Tables == {1, 2}                 \* RxTable1, RxTable2

(* Packets of beacons, one of them with an ID beyond the tables.           *)
Packets == [ID : 0 .. RXTABLE_SZ, Type : Types]

VARIABLES
  Table,       \* Table[t][id]: Type of the entry, or None
  RxTableW,    \* the table being written
  rx,          \* where the radio thread is, see RxPc
  Enabled, IsSleeping,
  windowOver,  \* RX_DURATION_MS have passed since Start
  chip,        \* state of the CC1101
  fifo,        \* packet in its RX FIFO
  gdo0,        \* the falling edge of GDO0 waits to be handled
  main,        \* where the main thread is, see MainPc
  i, Cnt,      \* index and Cnt of CheckRxTable
  near         \* SomeoneIsNear

radio == <<rx, Enabled, IsSleeping, windowOver, chip, fifo, gdo0>>
check == <<i, Cnt, near>>
vars == <<Table, RxTableW, radio, main, check>>

RxPc == {"Absent", "Recalibrate", "Loop", "Suspended", "ReadyOk", "ReadyTimeout", "Sleep"}
MainPc == {"Fetch", "Counting", "Stop", "Fade", "Standby"}

-----------------------------------------------------------------------------
Init ==
  /\ Table = [t \in Tables |-> [id \in Ids |-> None]]
  /\ RxTableW = 1
  /\ rx = IF RadioPresent THEN "Recalibrate" ELSE "Absent"
  /\ Enabled = TRUE /\ IsSleeping = FALSE
  /\ windowOver = FALSE
  /\ chip = "Idle" /\ fifo = None /\ gdo0 = FALSE
  /\ main = "Fetch"
  /\ i = 0 /\ Cnt = 0 /\ near = FALSE

(* In standby nothing runs; an interrupt preempts every thread.            *)
ThreadsRun == main # "Standby" /\ ~gdo0
MainRuns == ThreadsRun /\ rx \in {"Absent", "Suspended", "Sleep"}

-----------------------------------------------------------------------------
(* The radio thread, rLevel1_t::ITask.                                     *)

Recalibrate ==
  /\ ThreadsRun /\ rx = "Recalibrate"
  /\ chip' = "Idle"
  /\ windowOver' = FALSE
  /\ rx' = "Loop"
  /\ UNCHANGED <<Table, RxTableW, Enabled, IsSleeping, fifo, gdo0, main, check>>

(* A variant that trusts the chip to be listening still.                   *)
StartReceiveNoEnterRX ==
  /\ ThreadsRun /\ rx = "Loop"
  /\ ~windowOver /\ Enabled
  /\ fifo' = None
  /\ rx' = "Suspended"
  /\ UNCHANGED <<Table, RxTableW, Enabled, IsSleeping, windowOver, chip, gdo0, main, check>>

(* Receive_st up to its sleep; the lock keeps GDO0 from being handled      *)
(* between EnterRX and the sleep.                                          *)
StartReceive ==
  /\ ThreadsRun /\ rx = "Loop"
  /\ ~windowOver /\ Enabled
  /\ chip' = "Rx"
  /\ fifo' = None
  /\ rx' = "Suspended"
  /\ UNCHANGED <<Table, RxTableW, Enabled, IsSleeping, windowOver, gdo0, main, check>>

(* A variant that sleeps without raising the flag.                         *)
GoToSleepUnmarked ==
  /\ ThreadsRun /\ rx = "Loop"
  /\ windowOver \/ ~Enabled
  /\ chip' = "PwrDown"
  /\ rx' = "Sleep"
  /\ UNCHANGED <<Table, RxTableW, Enabled, IsSleeping, windowOver, fifo, gdo0, main, check>>

(* The window is over, or Stop() was called.                               *)
GoToSleep ==
  /\ ThreadsRun /\ rx = "Loop"
  /\ windowOver \/ ~Enabled
  /\ chip' = "PwrDown"
  /\ IsSleeping' = TRUE
  /\ rx' = "Sleep"
  /\ UNCHANGED <<Table, RxTableW, Enabled, windowOver, fifo, gdo0, main, check>>

(* Receive_st after its sleep, and what ITask does with the result.        *)
AddPktToRxTable(pkt) ==
  IF pkt.ID < RXTABLE_SZ
  THEN Table' = [Table EXCEPT ![RxTableW][pkt.ID] = pkt.Type]
  ELSE UNCHANGED Table

ReadPacket ==
  /\ ThreadsRun /\ rx = "ReadyOk"
  /\ IF fifo \in Packets THEN AddPktToRxTable(fifo) ELSE UNCHANGED Table
  /\ fifo' = None
  /\ rx' = "Loop"
  /\ UNCHANGED <<RxTableW, Enabled, IsSleeping, windowOver, chip, gdo0, main, check>>

(* To idle a chip that is in the middle of a packet gives an edge of GDO0. *)
ReceiveTimedOut ==
  /\ ThreadsRun /\ rx = "ReadyTimeout"
  /\ gdo0' \in IF chip = "Rx" THEN BOOLEAN ELSE {gdo0}
  /\ chip' = "Idle"
  /\ rx' = "Loop"
  /\ UNCHANGED <<Table, RxTableW, Enabled, IsSleeping, windowOver, fifo, main, check>>

(* A variant that leaves the flag raised behind the sleep.                 *)
WakeUpMarked ==
  /\ ThreadsRun /\ rx = "Sleep"
  /\ rx' = "Recalibrate"
  /\ UNCHANGED <<Table, RxTableW, Enabled, IsSleeping, windowOver, chip, fifo, gdo0, main, check>>

(* SLEEP_DURATION_MS have passed.                                          *)
WakeUp ==
  /\ ThreadsRun /\ rx = "Sleep"
  /\ IsSleeping' = FALSE
  /\ rx' = "Recalibrate"
  /\ UNCHANGED <<Table, RxTableW, Enabled, windowOver, chip, fifo, gdo0, main, check>>

-----------------------------------------------------------------------------
(* The chip, its interrupt and the clock.                                  *)

PacketEnds(pkt) ==
  /\ main # "Standby"
  /\ chip = "Rx"
  /\ chip' = "Idle"
  /\ fifo' = pkt
  /\ gdo0' = TRUE
  /\ UNCHANGED <<Table, RxTableW, rx, Enabled, IsSleeping, windowOver, main, check>>

(* IIrqHandler: chThdResumeI does nothing when nobody is suspended.        *)
Gdo0Irq ==
  /\ gdo0
  /\ gdo0' = FALSE
  /\ rx' = IF rx = "Suspended" THEN "ReadyOk" ELSE rx
  /\ UNCHANGED <<Table, RxTableW, Enabled, IsSleeping, windowOver, chip, fifo, main, check>>

WindowEnds ==
  /\ main # "Standby"
  /\ rx \notin {"Absent", "Recalibrate", "Sleep"}
  /\ windowOver' = TRUE
  /\ UNCHANGED <<Table, RxTableW, rx, Enabled, IsSleeping, chip, fifo, gdo0, main, check>>

(* The time-out of chThdSuspendTimeoutS, as long as the window and begun   *)
(* within it.                                                              *)
ReceiveTimeout ==
  /\ main # "Standby"
  /\ rx = "Suspended" /\ windowOver
  /\ rx' = "ReadyTimeout"
  /\ UNCHANGED <<Table, RxTableW, Enabled, IsSleeping, windowOver, chip, fifo, gdo0, main, check>>

-----------------------------------------------------------------------------
(* The main thread.                                                        *)

(* Variants: the tables stay as they are; the count of types is not reset. *)
GetRxTableNoSwap ==
  /\ MainRuns /\ main = "Fetch"
  /\ i' = 0 /\ Cnt' = 0
  /\ main' = "Counting"
  /\ UNCHANGED <<Table, RxTableW, radio, near>>

GetRxTableKeepCnt ==
  /\ MainRuns /\ main = "Fetch"
  /\ RxTableW' = 3 - RxTableW
  /\ i' = 0
  /\ main' = "Counting"
  /\ UNCHANGED <<Table, radio, Cnt, near>>

(* CheckRxTable up to the return of GetRxTable: the tables are swapped.    *)
GetRxTable ==
  /\ MainRuns /\ main = "Fetch"
  /\ RxTableW' = 3 - RxTableW
  /\ i' = 0 /\ Cnt' = 0
  /\ main' = "Counting"
  /\ UNCHANGED <<Table, radio, near>>

RxTableR == 3 - RxTableW

(* ProcessCountingDistinctTypes, one entry; types that nobody counts stay. *)
CountEntry ==
  /\ MainRuns /\ main = "Counting" /\ i < RXTABLE_SZ
  /\ i' = i + 1
  /\ LET type == Table[RxTableR][i]
         counted == type # None /\ type < TYPE_CNT
     IN  /\ Cnt' = IF counted /\ type \in NearTypes THEN Cnt + 1 ELSE Cnt
         /\ Table' = IF counted THEN [Table EXCEPT ![RxTableR][i] = None] ELSE Table
  /\ UNCHANGED <<RxTableW, radio, main, near>>

OnRadio ==
  /\ MainRuns /\ main = "Counting" /\ i = RXTABLE_SZ
  /\ near' = (Cnt # 0)
  /\ main' = "Fetch"
  /\ UNCHANGED <<Table, RxTableW, radio, i, Cnt>>

(* EnterSleep up to the loop of Radio.Stop().                              *)
Stop ==
  /\ MainRuns /\ main = "Fetch"
  /\ Enabled' = FALSE
  /\ main' = "Stop"
  /\ UNCHANGED <<Table, RxTableW, rx, IsSleeping, windowOver, chip, fifo, gdo0, check>>

(* The poll of that loop that finds the radio thread asleep.               *)
Stopped ==
  /\ MainRuns /\ main = "Stop"
  /\ IsSleeping
  /\ main' = "Fade"
  /\ UNCHANGED <<Table, RxTableW, radio, check>>

EnterStandby ==
  /\ MainRuns /\ main = "Fade"
  /\ main' = "Standby"
  /\ UNCHANGED <<Table, RxTableW, radio, check>>

-----------------------------------------------------------------------------
RadioThread ==
  \/ Recalibrate \/ StartReceive \/ GoToSleep \/ ReadPacket \/ ReceiveTimedOut \/ WakeUp

Next ==
  \/ RadioThread
  \/ \E pkt \in Packets \cup {Bad} : PacketEnds(pkt)
  \/ Gdo0Irq \/ WindowEnds \/ ReceiveTimeout
  \/ GetRxTable \/ CountEntry \/ OnRadio
  \/ Stop \/ Stopped \/ EnterStandby

Spec == Init /\ [][Next]_vars

(* Fairness: a ready thread runs, interrupts and time-outs come, and the   *)
(* poll of Stop, every 7 ms, falls into one of the radio thread's sleeps   *)
(* of 999 ms.                                                              *)
FairSpec ==
  /\ Spec
  /\ WF_vars(RadioThread) /\ WF_vars(Gdo0Irq) /\ WF_vars(WindowEnds) /\ WF_vars(ReceiveTimeout)
  /\ SF_vars(CountEntry) /\ SF_vars(OnRadio) /\ SF_vars(Stopped) /\ SF_vars(EnterStandby)

-----------------------------------------------------------------------------
TypeOK ==
  /\ Table \in [Tables -> [Ids -> Types \cup {None}]]
  /\ RxTableW \in Tables
  /\ rx \in RxPc
  /\ Enabled \in BOOLEAN /\ IsSleeping \in BOOLEAN /\ windowOver \in BOOLEAN
  /\ chip \in {"Idle", "Rx", "PwrDown"}
  /\ fifo \in Packets \cup {Bad, None}
  /\ gdo0 \in BOOLEAN
  /\ main \in MainPc
  /\ i \in 0 .. RXTABLE_SZ /\ Cnt \in 0 .. i
  /\ near \in BOOLEAN

(* A sword in standby has its radio chip powered down, although the radio  *)
(* thread may have woken up again since Stop() found it asleep.            *)
StandbyRadioOff == main = "Standby" => chip = "PwrDown"

(* No packet is missed by a wake-up that gets lost: a thread suspended in  *)
(* Receive_st either has its chip listening or the interrupt under way.    *)
NoLostWakeUp == rx = "Suspended" => chip = "Rx" \/ gdo0

(* The two tables implement the presence check: nothing received before a  *)
(* swap is reported twice or lost, nothing received after it leaks into    *)
(* the report, and each check reports the last types received.             *)
Counted(t, id) == Table[t][id] \in {type \in Types : type < TYPE_CNT}
Window == [id \in Ids |-> IF Counted(RxTableW, id) THEN Table[RxTableW][id] ELSE None]
Verdict ==
  IF main = "Counting"
  THEN Cnt # 0 \/ \E id \in Ids : id >= i /\ Table[RxTableR][id] \in NearTypes
  ELSE None
Promise == INSTANCE Presence WITH
  Types <- {type \in Types : type < TYPE_CNT}, window <- Window, verdict <- Verdict
ImplementsPresence == Promise!Spec

(* main.cpp:142, the watchdog "will reset in main thread by periodic 1 sec *)
(* events": the main thread always comes back to fetching events, unless   *)
(* the controller is in standby.                                           *)
WatchdogFed == []<>(main \in {"Fetch", "Standby"})
=============================================================================
