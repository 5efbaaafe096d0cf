-------------------------- MODULE SwordRadioProofs --------------------------
(***************************************************************************)
(* Proofs about SwordRadio for any size of the tables and any set of       *)
(* packet types.                                                           *)
(***************************************************************************)
EXTENDS SwordRadio, TLAPS

(* What the flag IsSleeping, the chip and the radio thread have to do with *)
(* each other: the chip listens only on behalf of a thread inside          *)
(* Receive_st and is powered down while the thread sleeps.                 *)
ChipFollowsThread ==
  /\ IsSleeping <=> rx = "Sleep"
  /\ rx = "Sleep" => chip = "PwrDown"
  /\ rx \in {"Recalibrate", "Loop", "Absent", "ReadyOk"} => chip # "Rx"
  /\ gdo0 => chip # "Rx"

(* Once Stop() has seen the thread asleep, it never listens again.         *)
StoppedForGood ==
  /\ main \in {"Stop", "Fade", "Standby"} => ~Enabled
  /\ main \in {"Fade", "Standby"} => rx \in {"Sleep", "Recalibrate", "Loop"}
  /\ main = "Standby" => rx = "Sleep" /\ ~gdo0

SInv == TypeOK /\ NoLostWakeUp /\ ChipFollowsThread /\ StoppedForGood

-----------------------------------------------------------------------------
LEMMA InitInv == Init => SInv
<1> SUFFICES ASSUME Init PROVE SInv
  OBVIOUS
<1>1. rx \in {"Recalibrate", "Absent"}
  BY DEF Init
<1>2. Table \in [Tables -> [Ids -> Types \cup {None}]] /\ RxTableW \in Tables
  BY DEF Init, Tables
<1>3. i \in 0 .. RXTABLE_SZ /\ Cnt \in 0 .. i
  BY RAssumption DEF Init, RAssumption
<1>4. TypeOK
  BY <1>1, <1>2, <1>3 DEF Init, TypeOK, RxPc, MainPc
<1>5. NoLostWakeUp /\ ChipFollowsThread /\ StoppedForGood
  BY <1>1 DEF Init, NoLostWakeUp, ChipFollowsThread, StoppedForGood
<1>6. QED
  BY <1>4, <1>5 DEF SInv

LEMMA RadioThreadInv == SInv /\ RadioThread => SInv'
<1> SUFFICES ASSUME SInv, RadioThread PROVE SInv'
  OBVIOUS
<1> USE DEF SInv, TypeOK, NoLostWakeUp, ChipFollowsThread, StoppedForGood,
            ThreadsRun, RxPc, MainPc, check
<1>1. CASE Recalibrate
  BY <1>1 DEF Recalibrate
<1>2. CASE StartReceive
  BY <1>2 DEF StartReceive
<1>3. CASE GoToSleep
  BY <1>3 DEF GoToSleep
<1>4. CASE ReadPacket
  <2>1. Table' \in [Tables -> [Ids -> Types \cup {None}]]
    <3>1. CASE fifo \in Packets /\ fifo.ID < RXTABLE_SZ
      <4>1. fifo.ID \in Ids /\ fifo.Type \in Types
        BY <3>1, RAssumption DEF Packets, Ids, RAssumption
      <4>2. Table' = [Table EXCEPT ![RxTableW][fifo.ID] = fifo.Type]
        BY <1>4, <3>1 DEF ReadPacket, AddPktToRxTable
      <4>3. QED
        BY <4>1, <4>2
    <3>2. CASE ~(fifo \in Packets /\ fifo.ID < RXTABLE_SZ)
      BY <1>4, <3>2 DEF ReadPacket, AddPktToRxTable
    <3>3. QED
      BY <3>1, <3>2
  <2>2. QED
    BY <1>4, <2>1 DEF ReadPacket
<1>5. CASE ReceiveTimedOut
  BY <1>5 DEF ReceiveTimedOut
<1>6. CASE WakeUp
  BY <1>6 DEF WakeUp
<1>7. QED
  BY <1>1, <1>2, <1>3, <1>4, <1>5, <1>6 DEF RadioThread

LEMMA EnvironmentInv ==
  ASSUME SInv,
         \/ \E pkt \in Packets \cup {Bad} : PacketEnds(pkt)
         \/ Gdo0Irq \/ WindowEnds \/ ReceiveTimeout
  PROVE  SInv'
<1> USE DEF SInv, TypeOK, NoLostWakeUp, ChipFollowsThread, StoppedForGood, RxPc, MainPc, check
<1>1. ASSUME NEW pkt \in Packets \cup {Bad}, PacketEnds(pkt)  PROVE SInv'
  BY <1>1 DEF PacketEnds
<1>2. CASE Gdo0Irq
  BY <1>2 DEF Gdo0Irq
<1>3. CASE WindowEnds
  BY <1>3 DEF WindowEnds
<1>4. CASE ReceiveTimeout
  BY <1>4 DEF ReceiveTimeout
<1>5. QED
  BY <1>1, <1>2, <1>3, <1>4

LEMMA MainThreadInv ==
  ASSUME SInv, GetRxTable \/ CountEntry \/ OnRadio \/ Stop \/ Stopped \/ EnterStandby
  PROVE  SInv'
<1> USE DEF SInv, TypeOK, NoLostWakeUp, ChipFollowsThread, StoppedForGood,
            MainRuns, ThreadsRun, RxPc, MainPc, radio, check
<1>1. CASE GetRxTable
  BY <1>1, RAssumption DEF GetRxTable, Tables, RAssumption
<1>2. CASE CountEntry
  <2> DEFINE counted == Table[RxTableR][i] # None /\ Table[RxTableR][i] < TYPE_CNT
  <2>1. RxTableR \in Tables
    BY DEF RxTableR, Tables
  <2>2. Table' \in [Tables -> [Ids -> Types \cup {None}]]
    BY <1>2, <2>1 DEF CountEntry
  <2>3. i' \in 0 .. RXTABLE_SZ /\ Cnt' \in 0 .. i'
    BY <1>2, RAssumption DEF CountEntry, RAssumption
  <2>4. QED
    BY <1>2, <2>2, <2>3 DEF CountEntry
<1>3. CASE OnRadio
  BY <1>3 DEF OnRadio
<1>4. CASE Stop
  BY <1>4 DEF Stop
<1>5. CASE Stopped
  BY <1>5 DEF Stopped
<1>6. CASE EnterStandby
  BY <1>6 DEF EnterStandby
<1>7. QED
  BY <1>1, <1>2, <1>3, <1>4, <1>5, <1>6

LEMMA NextInv == SInv /\ [Next]_vars => SInv'
<1> SUFFICES ASSUME SInv, [Next]_vars PROVE SInv'
  OBVIOUS
<1>1. CASE UNCHANGED vars
  BY <1>1 DEF vars, radio, check, SInv, TypeOK, NoLostWakeUp, ChipFollowsThread, StoppedForGood
<1>2. QED
  BY <1>1, RadioThreadInv, EnvironmentInv, MainThreadInv DEF Next

(* The inductive invariant of the radio and the main thread.               *)
THEOREM SwordInvariant == Spec => []SInv
  BY InitInv, NextInv, PTL DEF Spec

(* Every variable keeps its type; in particular CheckRxTable stays inside  *)
(* the table.                                                              *)
THEOREM SwordTypeOK == Spec => []TypeOK
<1>1. SInv => TypeOK
  BY DEF SInv
<1>2. QED
  BY <1>1, SwordInvariant, PTL

(* Receive_st: a thread that suspends itself always has a wake-up coming.  *)
THEOREM SwordNoLostWakeUp == Spec => []NoLostWakeUp
<1>1. SInv => NoLostWakeUp
  BY DEF SInv
<1>2. QED
  BY <1>1, SwordInvariant, PTL

(* Stop() and EnterSleep: whenever the controller enters standby, the      *)
(* radio chip is powered down, however often its thread has woken up since *)
(* Stop() returned.                                                        *)
THEOREM SwordStandbyRadioOff == Spec => []StandbyRadioOff
<1>1. SInv => StandbyRadioOff
  BY DEF SInv, ChipFollowsThread, StoppedForGood, StandbyRadioOff
<1>2. QED
  BY <1>1, SwordInvariant, PTL

-----------------------------------------------------------------------------
(***************************************************************************)
(* The two tables of the sword implement the presence check of Presence.   *)
(***************************************************************************)

(* The table being read holds nothing to count but what the check in       *)
(* progress has still before it.                                           *)
CleanBehind ==
  \A id \in Ids : (main = "Counting" => id < i) => ~Counted(RxTableR, id)

LEMMA TablesType ==
  ASSUME TypeOK
  PROVE  /\ RxTableW \in Tables /\ RxTableR \in Tables /\ RxTableR # RxTableW
         /\ 3 - RxTableR = RxTableW
         /\ Ids \subseteq Nat
         /\ None \notin NearTypes /\ None \notin Nat
         /\ \A t \in Tables, id \in Ids :
              /\ Table[t][id] \in Nat \cup {None}
              /\ Table[t][id] \in NearTypes => Counted(t, id)
              /\ Counted(t, id) <=> Table[t][id] # None /\ Table[t][id] < TYPE_CNT
<1>1. RxTableW \in Tables /\ RxTableR \in Tables /\ RxTableR # RxTableW /\ 3 - RxTableR = RxTableW
  BY DEF TypeOK, RxTableR, Tables
<1>2. Ids \subseteq Nat /\ None \notin NearTypes /\ None \notin Nat
  <2>1. Ids \subseteq Nat
    BY RAssumption DEF RAssumption, Ids
  <2>2. NearTypes \subseteq Nat /\ None \notin Nat
    BY RAssumption DEF RAssumption
  <2>3. QED
    BY <2>1, <2>2
<1>3. ASSUME NEW t \in Tables, NEW id \in Ids
      PROVE  /\ Table[t][id] \in Nat \cup {None}
             /\ Table[t][id] \in NearTypes => Counted(t, id)
             /\ Counted(t, id) <=> Table[t][id] # None /\ Table[t][id] < TYPE_CNT
  <2>1. Table[t][id] \in Types \cup {None}
    BY DEF TypeOK
  <2>2. QED
    BY <2>1, RAssumption DEF RAssumption, Counted
<1>4. QED
  BY <1>1, <1>2, <1>3

-----------------------------------------------------------------------------
(* A step that leaves the tables and the check alone is invisible.         *)
LEMMA SameCheck ==
  ASSUME UNCHANGED <<Table, RxTableW, i, Cnt>>,
         (main' = "Counting") = (main = "Counting")
  PROVE  Window' = Window /\ Verdict' = Verdict /\ (CleanBehind => CleanBehind')
  BY DEF Window, Verdict, CleanBehind, Counted, RxTableR

LEMMA InitPresence == Init => Promise!Init /\ CleanBehind
<1> SUFFICES ASSUME Init PROVE Promise!Init /\ CleanBehind
  OBVIOUS
<1>1. TypeOK
  BY InitInv DEF SInv
<1>2. \A t \in Tables, id \in Ids : ~Counted(t, id)
  BY <1>1, TablesType DEF Init
<1>3. CleanBehind
  BY <1>1, <1>2, TablesType DEF CleanBehind
<1>4. Window = [id \in Ids |-> None]
  BY <1>1, <1>2, TablesType DEF Window
<1>5. Verdict = None
  BY DEF Init, Verdict
<1>6. QED
  BY <1>3, <1>4, <1>5 DEF Init, Promise!Init

PresenceStep == [Promise!Next]_<<Window, Verdict, near>>

(* ReadPacket: a packet is received, and the entry of the table that is    *)
(* being read is not touched.                                              *)
LEMMA ReadPacketPresence ==
  ASSUME SInv, CleanBehind, ReadPacket
  PROVE  PresenceStep /\ CleanBehind'
<1>0. TypeOK
  BY DEF SInv
<1>1. CASE UNCHANGED Table
  BY <1>1, SameCheck DEF ReadPacket, check, PresenceStep
<1>2. CASE fifo \in Packets /\ fifo.ID < RXTABLE_SZ
  <2> DEFINE id0 == fifo.ID
             new == IF fifo.Type < TYPE_CNT THEN fifo.Type ELSE None
  <2>1. id0 \in Ids /\ fifo.Type \in Types
    BY <1>2, RAssumption DEF Packets, Ids, RAssumption
  <2>2. /\ Table' = [Table EXCEPT ![RxTableW][id0] = fifo.Type]
        /\ UNCHANGED <<RxTableW, main, i, Cnt, near>>
    BY <1>2 DEF ReadPacket, AddPktToRxTable, check
  <2> HIDE DEF id0
  <2>3. /\ Table'[RxTableR] = Table[RxTableR]
        /\ Table'[RxTableW][id0] = fifo.Type
        /\ \A id \in Ids : id # id0 => Table'[RxTableW][id] = Table[RxTableW][id]
    BY <1>0, <2>1, <2>2, TablesType DEF TypeOK
  <2>4. RxTableR' = RxTableR
    BY <2>2 DEF RxTableR
  <2>5. Verdict' = Verdict
    BY <2>2, <2>3, <2>4 DEF Verdict
  <2>6. CleanBehind'
    BY <2>2, <2>3, <2>4 DEF CleanBehind, Counted
  <2>7. new \in {type \in Types : type < TYPE_CNT} \cup {None}
    BY <2>1
  <2>8. Window' = [Window EXCEPT ![id0] = new]
    BY <2>1, <2>2, <2>3 DEF Window, Counted
  <2>9. Promise!Receive(id0, new)
    BY <2>2, <2>5, <2>8 DEF Promise!Receive
  <2>10. Promise!Next
    BY <2>1, <2>7, <2>9 DEF Promise!Next
  <2>11. QED
    BY <2>6, <2>10 DEF PresenceStep
<1>3. QED
  BY <1>1, <1>2 DEF ReadPacket, AddPktToRxTable

(* GetRxTable: the check begins.                                           *)
LEMMA GetRxTablePresence ==
  ASSUME SInv, CleanBehind, GetRxTable
  PROVE  PresenceStep /\ CleanBehind'
<1>0. TypeOK
  BY DEF SInv
<1>1. /\ main = "Fetch" /\ main' = "Counting" /\ i' = 0 /\ Cnt' = 0
      /\ RxTableW' = RxTableR /\ RxTableR' = RxTableW
      /\ Table' = Table /\ near' = near
  BY <1>0, TablesType DEF GetRxTable, RxTableR
<1>2. \A id \in Ids : ~Counted(RxTableR, id)
  BY <1>1 DEF CleanBehind
<1>3. Window' = [id \in Ids |-> None]
  BY <1>1, <1>2 DEF Window, Counted
<1>4. \A id \in Ids : Window[id] \in NearTypes <=> Table[RxTableW][id] \in NearTypes
  BY <1>0, TablesType DEF Window
<1>5. \A id \in Ids : id >= 0
  BY <1>0, TablesType
<1>6. Verdict' = (\E id \in Ids : Window[id] \in NearTypes)
  <2>1. Verdict' = (0 # 0 \/ \E id \in Ids : id >= 0 /\ Table[RxTableW][id] \in NearTypes)
    BY <1>1 DEF Verdict
  <2>2. (\E id \in Ids : id >= 0 /\ Table[RxTableW][id] \in NearTypes)
          <=> (\E id \in Ids : Window[id] \in NearTypes)
    BY <1>4, <1>5
  <2>3. QED
    BY <2>1, <2>2
<1>7. Verdict = None
  BY <1>1 DEF Verdict
<1>8. Promise!BeginCheck
  BY <1>1, <1>3, <1>6, <1>7 DEF Promise!BeginCheck
<1>9. \A id \in Ids : ~(id < 0)
  BY <1>0, TablesType
<1>10. CleanBehind'
  BY <1>1, <1>9 DEF CleanBehind
<1>11. QED
  BY <1>8, <1>10 DEF PresenceStep, Promise!Next

(* ProcessCountingDistinctTypes, one entry: what it adds to Cnt is what it *)
(* takes out of the table.                                                 *)
LEMMA CountEntryPresence ==
  ASSUME SInv, CleanBehind, CountEntry
  PROVE  PresenceStep /\ CleanBehind'
<1> DEFINE R == RxTableR
           type == Table[R][i]
           nearType == type \in NearTypes
<1>0. TypeOK
  BY DEF SInv
<1>1. /\ main = "Counting" /\ main' = main /\ i' = i + 1 /\ near' = near
      /\ RxTableW' = RxTableW /\ RxTableR' = RxTableR
      /\ i \in Ids /\ i \in Nat /\ Cnt \in Nat
  BY <1>0, RAssumption DEF CountEntry, radio, RxTableR, TypeOK, Ids, RAssumption
<1>2. /\ Cnt' = IF nearType THEN Cnt + 1 ELSE Cnt
      /\ Table' = IF Counted(R, i) THEN [Table EXCEPT ![R][i] = None] ELSE Table
  <2>1. /\ Counted(R, i) <=> type # None /\ type < TYPE_CNT
        /\ nearType => Counted(R, i)
    BY <1>0, <1>1, TablesType
  <2>2. QED
    BY <2>1 DEF CountEntry
<1>3. /\ Table'[RxTableW] = Table[RxTableW]
      /\ \A id \in Ids : id # i => Table'[R][id] = Table[R][id]
      /\ Counted(R, i) => Table'[R][i] = None
      /\ ~Counted(R, i) => Table'[R][i] = Table[R][i]
  BY <1>0, <1>1, <1>2, TablesType DEF TypeOK
<1>4. Window' = Window
  BY <1>1, <1>3 DEF Window, Counted
<1>5. Verdict' = Verdict
  <2> DEFINE ahead  == \E id \in Ids : id >= i /\ Table[R][id] \in NearTypes
             ahead2 == \E id \in Ids : id >= i + 1 /\ Table'[R][id] \in NearTypes
  <2>1. \A id \in Ids : id >= i <=> id = i \/ id >= i + 1
    BY <1>0, <1>1, TablesType
  <2>2. \A id \in Ids : id >= i + 1 => id # i
    BY <1>0, <1>1, TablesType
  <2>3. ahead <=> nearType \/ ahead2
    BY <1>1, <1>3, <2>1, <2>2
  <2>4. Cnt' # 0 <=> Cnt # 0 \/ nearType
    BY <1>1, <1>2
  <2>5. Verdict = (Cnt # 0 \/ ahead)
    BY <1>1 DEF Verdict
  <2>6. Verdict' = (Cnt' # 0 \/ ahead2)
    BY <1>1 DEF Verdict
  <2> HIDE DEF ahead, ahead2, nearType
  <2>7. QED
    BY <2>3, <2>4, <2>5, <2>6
<1>6. CleanBehind'
  <2> DEFINE counting == {t \in Types : t < TYPE_CNT}
  <2>1. Table'[R][i] \notin counting
    BY <1>1, <1>3, RAssumption DEF Counted, RAssumption
  <2>2. ASSUME NEW id \in Ids, id < i + 1, id # i  PROVE Table'[R][id] \notin counting
    <3>1. id < i
      BY <1>0, <1>1, <2>2, TablesType
    <3>2. ~Counted(R, id)
      BY <1>1, <3>1 DEF CleanBehind
    <3>3. QED
      BY <1>3, <2>2, <3>2 DEF Counted
  <2>3. QED
    BY <1>1, <2>1, <2>2 DEF CleanBehind, Counted
<1>7. QED
  BY <1>1, <1>4, <1>5, <1>6 DEF PresenceStep

(* OnRadio: the check ends with the verdict it began with.                 *)
LEMMA OnRadioPresence ==
  ASSUME SInv, CleanBehind, OnRadio
  PROVE  PresenceStep /\ CleanBehind'
<1>0. TypeOK
  BY DEF SInv
<1>1. /\ main = "Counting" /\ i = RXTABLE_SZ /\ main' = "Fetch"
      /\ near' = (Cnt # 0)
      /\ UNCHANGED <<Table, RxTableW, i, Cnt>>
  BY DEF OnRadio, radio
<1>2. \A id \in Ids : id < i /\ ~(id >= i)
  BY <1>1, RAssumption DEF Ids, RAssumption
<1>3. Verdict = (Cnt # 0)
  <2>1. Verdict = (Cnt # 0 \/ \E id \in Ids : id >= i /\ Table[RxTableR][id] \in NearTypes)
    BY <1>1 DEF Verdict
  <2>2. QED
    BY <1>2, <2>1
<1>4. Verdict' = None
  BY <1>1 DEF Verdict
<1>5. Window' = Window
  BY <1>1 DEF Window, Counted
<1>6. Promise!EndCheck
  <2>1. Verdict \in BOOLEAN
    BY <1>3
  <2>2. near' = Verdict
    BY <1>1, <1>3
  <2>3. QED
    BY <1>4, <1>5, <2>1, <2>2 DEF Promise!EndCheck
<1>7. CleanBehind'
  BY <1>1, <1>2 DEF CleanBehind, Counted, RxTableR
<1>8. QED
  BY <1>6, <1>7 DEF PresenceStep, Promise!Next

LEMMA NextPresence ==
  ASSUME SInv, CleanBehind, [Next]_vars
  PROVE  PresenceStep /\ CleanBehind'
<1>1. ASSUME UNCHANGED <<Table, RxTableW, i, Cnt, near>>,
             main' = main \/ (main # "Counting" /\ main' # "Counting")
      PROVE  PresenceStep /\ CleanBehind'
  BY <1>1, SameCheck DEF PresenceStep
<1>2. CASE RadioThread /\ ~ReadPacket
  BY <1>1, <1>2 DEF RadioThread, Recalibrate, StartReceive, GoToSleep, ReceiveTimedOut, WakeUp, check
<1>3. CASE \/ \E pkt \in Packets \cup {Bad} : PacketEnds(pkt)
           \/ Gdo0Irq \/ WindowEnds \/ ReceiveTimeout
  BY <1>1, <1>3 DEF PacketEnds, Gdo0Irq, WindowEnds, ReceiveTimeout, check
<1>4. CASE Stop \/ Stopped \/ EnterStandby
  BY <1>1, <1>4 DEF Stop, Stopped, EnterStandby, radio, check
<1>5. CASE UNCHANGED vars
  BY <1>1, <1>5 DEF vars, check
<1>6. QED
  BY <1>2, <1>3, <1>4, <1>5, ReadPacketPresence, GetRxTablePresence, CountEntryPresence,
     OnRadioPresence DEF Next

(* GetRxTable, ProcessCountingDistinctTypes and the radio thread between   *)
(* any two of their steps: every packet counts for exactly one check, the  *)
(* first that begins after it was stored, and a check reports exactly what *)
(* was received before it began.                                           *)
THEOREM SwordIsPresence == Spec => ImplementsPresence
<1>1. SInv /\ CleanBehind /\ [Next]_vars => CleanBehind' /\ PresenceStep
  BY NextPresence
<1>2. Spec => [](SInv /\ CleanBehind)
  BY <1>1, InitInv, InitPresence, NextInv, PTL DEF Spec
<1>3. QED
  BY <1>1, <1>2, InitPresence, PTL DEF Spec, PresenceStep, ImplementsPresence, Promise!Spec

-----------------------------------------------------------------------------
(***************************************************************************)
(* What brings the main thread out of Stop(): the safety core of           *)
(* WatchdogFed.  With fairness, which only TLC's run assumes, Stop() ends. *)
(***************************************************************************)

(* Steps of the radio thread before its sleep, once it may no longer enter *)
(* Receive_st.                                                             *)
ToSleep ==
  [place \in RxPc |->
     CASE place \in {"Sleep", "Absent"} -> 0
       [] place = "Loop" -> 1
       [] place \in {"Recalibrate", "ReadyOk", "ReadyTimeout"} -> 2
       [] place = "Suspended" -> 3]

RxRuns == rx \in {"Recalibrate", "Loop", "ReadyOk", "ReadyTimeout"}

(* The poll of Stop() either succeeds or waits for somebody who moves: the *)
(* interrupt, the thread, or the chip that listens on its behalf.          *)
StopWaits ==
  main = "Stop" =>
    gdo0 \/ RxRuns \/ (rx = "Sleep" /\ IsSleeping) \/ (rx = "Suspended" /\ chip = "Rx")

(* Stop() is never called back, what is received meanwhile stays in the    *)
(* table, and the thread comes closer to its sleep with every step it      *)
(* takes, while no step of another one throws it back.                     *)
StopConverges ==
  ~Enabled =>
    /\ ~Enabled' /\ RxTableW' = RxTableW /\ near' = near
    /\ rx' = "Suspended" => rx = "Suspended"
    /\ rx # "Sleep" => /\ ToSleep[rx'] <= ToSleep[rx]
                       /\ RadioThread => ToSleep[rx'] < ToSleep[rx]

(* The radio thread is there from the start and for good.                  *)
ThreadIsThere == RadioPresent => rx # "Absent"

(* Once Stop() has been called, the main thread does not check the tables. *)
StopIsLast == ~Enabled => main \in {"Stop", "Fade", "Standby"}

LEMMA ThreadStays == Spec => [](SInv /\ ThreadIsThere /\ StopIsLast)
<1>1. Init => ThreadIsThere /\ StopIsLast
  BY DEF Init, ThreadIsThere, StopIsLast
<1>2. SInv /\ ThreadIsThere /\ [Next]_vars => ThreadIsThere'
  BY DEF ThreadIsThere, Next, RadioThread, Recalibrate, StartReceive, GoToSleep, ReadPacket,
         ReceiveTimedOut, WakeUp, PacketEnds, Gdo0Irq, WindowEnds, ReceiveTimeout, GetRxTable,
         CountEntry, OnRadio, Stop, Stopped, EnterStandby, vars, radio
<1>3. StopIsLast /\ [Next]_vars => StopIsLast'
  BY DEF StopIsLast, Next, RadioThread, Recalibrate, StartReceive, GoToSleep, ReadPacket,
         ReceiveTimedOut, WakeUp, PacketEnds, Gdo0Irq, WindowEnds, ReceiveTimeout, GetRxTable,
         CountEntry, OnRadio, Stop, Stopped, EnterStandby, vars, radio
<1>4. QED
  BY <1>1, <1>2, <1>3, SwordInvariant, PTL DEF Spec

LEMMA StopStep ==
  ASSUME SInv, StopIsLast, [Next]_vars
  PROVE  StopConverges
<1> SUFFICES ASSUME ~Enabled
    PROVE  /\ ~Enabled' /\ RxTableW' = RxTableW /\ near' = near
           /\ rx' = "Suspended" => rx = "Suspended"
           /\ rx # "Sleep" => /\ ToSleep[rx'] <= ToSleep[rx]
                              /\ RadioThread => ToSleep[rx'] < ToSleep[rx]
  BY DEF StopConverges
<1>1. /\ ToSleep["Sleep"] = 0 /\ ToSleep["Absent"] = 0 /\ ToSleep["Loop"] = 1
      /\ ToSleep["Recalibrate"] = 2 /\ ToSleep["ReadyOk"] = 2 /\ ToSleep["ReadyTimeout"] = 2
      /\ ToSleep["Suspended"] = 3
      /\ ToSleep[rx] \in 0 .. 3
  BY DEF ToSleep, RxPc, SInv, TypeOK
<1>2. main \in {"Stop", "Fade", "Standby"}
  BY DEF StopIsLast
<1>3. CASE RadioThread
  BY <1>1, <1>3 DEF RadioThread, Recalibrate, StartReceive, GoToSleep, ReadPacket,
     ReceiveTimedOut, WakeUp, check
<1>4. ASSUME Enabled' = Enabled, RxTableW' = RxTableW, near' = near, ~RadioThread,
             rx' = rx \/ (rx = "Suspended" /\ rx' \in {"ReadyOk", "ReadyTimeout"})
      PROVE  /\ ~Enabled' /\ RxTableW' = RxTableW /\ near' = near
             /\ rx' = "Suspended" => rx = "Suspended"
             /\ rx # "Sleep" => /\ ToSleep[rx'] <= ToSleep[rx]
                                /\ RadioThread => ToSleep[rx'] < ToSleep[rx]
  BY <1>1, <1>4
<1>5. CASE ~RadioThread
  BY <1>2, <1>4, <1>5 DEF Next, PacketEnds, Gdo0Irq, WindowEnds, ReceiveTimeout, GetRxTable,
     CountEntry, OnRadio, Stop, Stopped, EnterStandby, vars, radio, check
<1>6. QED
  BY <1>3, <1>5

(* Radio.Stop() while the thread is anywhere in its window, in Receive_st  *)
(* or just awake: the next sleep of the thread is at most three of its     *)
(* steps away, and the wait is never for a step that nobody will take.     *)
THEOREM SwordStopConverges ==
  RadioPresent => (Spec => []StopWaits /\ [][StopConverges]_vars)
<1> SUFFICES ASSUME RadioPresent PROVE Spec => []StopWaits /\ [][StopConverges]_vars
  OBVIOUS
<1>1. SInv /\ ThreadIsThere => StopWaits
  BY DEF SInv, TypeOK, RxPc, NoLostWakeUp, ChipFollowsThread, ThreadIsThere, StopWaits, RxRuns
<1>2. SInv /\ StopIsLast /\ [Next]_vars => StopConverges
  BY StopStep
<1>3. QED
  BY <1>1, <1>2, ThreadStays, PTL DEF Spec
=============================================================================
