---------------------------- MODULE MainLoopProofs ----------------------------
(***************************************************************************)
(* Proofs about MainLoop for every length of the queue and of a long press:*)
(* what the event loop may rely on when it serves a press, a wake-up or a  *)
(* pin, although events are dropped and threads take turns.                *)
(***************************************************************************)
EXTENDS MainLoop, SequenceTheorems, TLAPS

None(q, ids) == \A i \in 1 .. Len(q) : q[i].ID \notin ids
Single(q, ids) ==
  \A i, j \in 1 .. Len(q) : q[i].ID \in ids /\ q[j].ID \in ids => i = j

UsbIDs == {"UsbConnect", "UsbDisconnect"}
BtnIDs == {"Buttons"}

(* Between a press and the end of its release, told counts its long press. *)
ButtonStory ==
  /\ told \in {0, 1}
  /\ btnSns = "None" => told = 0 /\ ~IsLongPress
  /\ btnSns \in {"Rising", "Hi"} => (told = 1 <=> IsLongPress)
  /\ btnSns = "Falling" => told = 1

(* The button that woke the sword is still down.                           *)
WakeStory == wakePress => btnPin /\ main \in {"WakeUp", "PowerOn"}

(* The threads that are ready, and the first of them, which runs.          *)
Threads == {"Main", "Sensors"}
Other(thread) == IF thread = "Main" THEN "Sensors" ELSE "Main"
ReadyIn(turn, thread) == \E i \in DOMAIN turn : turn[i] = thread
First(turn, thread) == turn # <<>> /\ Head(turn) = thread

(* Pins are polled in Run and Fade only, and by a thread that has the      *)
(* processor; in Run main is ready, if not running, whenever there is an   *)
(* event.                                                                  *)
TurnStory ==
  /\ main \notin {"Run", "Fade"} => poll = "Usb" /\ ready = <<>>
  /\ poll = "Button" => First(ready, "Sensors")
  /\ main = "Run" /\ queue # <<>> => ReadyIn(ready, "Main")

(* From the poll that posts an event of a pin to its fetch no other poll   *)
(* begins, for main is next: other events may wait with it and before it.  *)
QueueStory ==
  /\ main \notin {"Run", "Fade"} => None(queue, UsbIDs) /\ None(queue, BtnIDs)
  /\ main = "Run" => Single(queue, UsbIDs) /\ Single(queue, BtnIDs)
  /\ main = "Run" /\ poll = "Button" => None(queue, BtnIDs)
  /\ main = "Run" /\ poll = "Usb" =>
       First(ready, "Main") \/ (None(queue, UsbIDs) /\ None(queue, BtnIDs))

USE MAssumption DEF MAssumption

-----------------------------------------------------------------------------
(* Events and the queue.                                                   *)
LEMMA EventTypes ==
  /\ \A battery \in Battery : AdcEvt(battery) \in Events /\ AdcEvt(battery).ID = "ADC"
  /\ \A id \in {"CheckRxTable", "UsbConnect", "UsbDisconnect"} :
       Evt(id) \in Events /\ Evt(id).ID = id
  /\ \A type \in {"LongPress", "Release"} :
       BtnEvt(type) \in Events /\ BtnEvt(type).ID = "Buttons"
  BY DEF AdcEvt, Evt, BtnEvt, Events

LEMMA WithType ==
  ASSUME NEW q \in Seq(Events), Len(q) <= QueueLen, NEW evt \in Events
  PROVE  With(q, evt) \in Seq(Events) /\ Len(With(q, evt)) <= QueueLen
  BY DEF With

LEMMA WithNone ==
  ASSUME NEW q \in Seq(Events), NEW evt \in Events, NEW ids, None(q, ids)
  PROVE  /\ evt.ID \notin ids => None(With(q, evt), ids)
         /\ Single(With(q, evt), ids)
  BY DEF With, None, Single

LEMMA WithSingle ==
  ASSUME NEW q \in Seq(Events), NEW evt \in Events, NEW ids, Single(q, ids), evt.ID \notin ids
  PROVE  Single(With(q, evt), ids)
  BY DEF With, Single

LEMMA TailType ==
  ASSUME NEW q \in Seq(Events), Len(q) <= QueueLen, q # <<>>
  PROVE  Tail(q) \in Seq(Events) /\ Len(Tail(q)) <= QueueLen
  OBVIOUS

LEMMA TailSingle ==
  ASSUME NEW q \in Seq(Events), q # <<>>, NEW ids, Single(q, ids)
  PROVE  Single(Tail(q), ids)
  BY DEF Single

LEMMA EmptyQueue ==
  /\ <<>> \in Seq(Events) /\ Len(<<>>) <= QueueLen
  /\ \A ids : None(<<>>, ids) /\ Single(<<>>, ids)
  BY DEF None, Single

-----------------------------------------------------------------------------
(* The turns of the two threads.                                           *)
LEMMA TurnCases ==
  ASSUME NEW thread \in Threads, NEW turn \in Turns
  PROVE  /\ ReadyIn(turn, thread) <=>
              turn \in {<<thread>>, <<"Main", "Sensors">>, <<"Sensors", "Main">>}
         /\ First(turn, thread) <=> turn \in {<<thread>>, <<thread, Other(thread)>>}
<1>1. ReadyIn(<<"Main">>, "Main") /\ ~ReadyIn(<<"Main">>, "Sensors")
  BY DEF ReadyIn
<1>2. ReadyIn(<<"Sensors">>, "Sensors") /\ ~ReadyIn(<<"Sensors">>, "Main")
  BY DEF ReadyIn
<1>3. ASSUME NEW a \in Threads PROVE /\ ReadyIn(<<"Main", "Sensors">>, a)
         /\ ReadyIn(<<"Sensors", "Main">>, a) /\ ~ReadyIn(<<>>, a)
  BY DEF ReadyIn, Threads
<1>4. ReadyIn(turn, thread) <=>
        turn \in {<<thread>>, <<"Main", "Sensors">>, <<"Sensors", "Main">>}
  BY <1>1, <1>2, <1>3 DEF Turns, Threads
<1>5. First(turn, thread) <=> turn \in {<<thread>>, <<thread, Other(thread)>>}
  BY DEF First, Turns, Threads, Other
<1> QED
  BY <1>4, <1>5

LEMMA AppendBehind ==
  /\ \A b : Append(<<>>, b) = <<b>>
  /\ \A a, b \in Threads : Append(<<a>>, b) = <<a, b>>
<1>1. ASSUME NEW a \in Threads, NEW b \in Threads PROVE Append(<<a>>, b) = <<a, b>>
  <2>1. <<a>> \in Seq(Threads) /\ <<a, b>> \in Seq(Threads)
    OBVIOUS
  <2>2. Append(<<a>>, b) \in Seq(Threads)
    BY <2>1
  <2>3. /\ Len(Append(<<a>>, b)) = 2 /\ Len(<<a, b>>) = 2
        /\ Append(<<a>>, b)[1] = a /\ Append(<<a>>, b)[2] = b
    BY <2>1
  <2>4. \A i \in 1 .. 2 : Append(<<a>>, b)[i] = <<a, b>>[i]
    BY <2>3
  <2> QED
    BY <2>1, <2>2, <2>3, <2>4, SeqEqual
<1> QED
  BY <1>1

LEMMA TurnBehind ==
  ASSUME NEW turn \in Turns, NEW thread \in Threads, ~ReadyIn(turn, thread)
  PROVE  /\ Append(turn, thread) \in Turns /\ ReadyIn(Append(turn, thread), thread)
         /\ turn = <<>> => First(Append(turn, thread), thread)
         /\ \A other \in Threads :
              /\ First(turn, other) => First(Append(turn, thread), other)
              /\ ReadyIn(turn, other) => ReadyIn(Append(turn, thread), other)
<1>1. /\ Append(<<>>, thread) = <<thread>>
      /\ Append(<<"Main">>, "Sensors") = <<"Main", "Sensors">>
      /\ Append(<<"Sensors">>, "Main") = <<"Sensors", "Main">>
  BY AppendBehind DEF Threads
<1>2. \/ turn = <<>> /\ Append(turn, thread) = <<thread>>
      \/ turn = <<"Main">> /\ Append(turn, thread) = <<"Main", "Sensors">> /\ thread = "Sensors"
      \/ turn = <<"Sensors">> /\ Append(turn, thread) = <<"Sensors", "Main">> /\ thread = "Main"
  BY <1>1, TurnCases DEF Turns, Threads
<1>3. Append(turn, thread) \in Turns
  BY <1>2 DEF Turns, Threads
<1> QED
  BY <1>2, <1>3, TurnCases DEF Turns, Threads, Other

LEMMA TurnOver ==
  ASSUME NEW turn \in Turns, turn # <<>>
  PROVE  /\ Tail(turn) \in Turns
         /\ \A thread \in Threads : ReadyIn(Tail(turn), thread) => ReadyIn(turn, thread)
         /\ First(turn, "Sensors") => ~ReadyIn(Tail(turn), "Sensors")
         /\ First(turn, "Sensors") /\ ReadyIn(turn, "Main") => First(Tail(turn), "Main")
<1>1. /\ Tail(<<"Main">>) = <<>> /\ Tail(<<"Sensors">>) = <<>>
      /\ Tail(<<"Main", "Sensors">>) = <<"Sensors">>
      /\ Tail(<<"Sensors", "Main">>) = <<"Main">>
  OBVIOUS
<1> QED
  BY <1>1, TurnCases DEF Turns, Threads, Other

LEMMA TurnNow ==
  /\ \A thread : (Runs(thread) <=> First(ready, thread))
                 /\ (IsReady(thread) <=> ReadyIn(ready, thread))
  /\ ~(First(ready, "Main") /\ First(ready, "Sensors"))
  /\ ready \in Turns =>
       /\ \A thread \in Threads : First(ready, thread) => ReadyIn(ready, thread)
       /\ ReadyIn(ready, "Main") => First(ready, "Main") \/ First(ready, "Sensors")
<1>1. \A thread : (Runs(thread) <=> First(ready, thread))
                 /\ (IsReady(thread) <=> ReadyIn(ready, thread))
  BY DEF Runs, IsReady, First, ReadyIn
<1>2. ~(First(ready, "Main") /\ First(ready, "Sensors"))
  BY DEF First
<1>3. ASSUME ready \in Turns
      PROVE  /\ \A thread \in Threads : First(ready, thread) => ReadyIn(ready, thread)
             /\ ReadyIn(ready, "Main") => First(ready, "Main") \/ First(ready, "Sensors")
  BY <1>3, TurnCases DEF Turns, Threads, Other
<1> QED
  BY <1>1, <1>2, <1>3

(* An event wakes main, and disturbs nobody's turn.                        *)
LEMMA WokenBehind ==
  ASSUME ready \in Turns
  PROVE  /\ Woken(ready) \in Turns
         /\ \A thread \in Threads : First(ready, thread) => First(Woken(ready), thread)
         /\ main # "Run" \/ ReadyIn(ready, "Main") => Woken(ready) = ready
         /\ main = "Run" /\ queue' # <<>> => ReadyIn(Woken(ready), "Main")
<1>1. IsReady("Main") <=> ReadyIn(ready, "Main")
  BY TurnNow
<1>2. CASE Woken(ready) = ready /\ ~(main = "Run" /\ ~IsReady("Main") /\ queue' # <<>>)
  BY <1>1, <1>2
<1>3. CASE Woken(ready) = Append(ready, "Main") /\ main = "Run" /\ ~IsReady("Main")
  BY <1>1, <1>3, TurnBehind DEF Threads
<1> QED
  BY <1>2, <1>3 DEF Woken

(* The poll is over: main has its turn if there is an event.               *)
LEMMA WokenAfter ==
  ASSUME ready \in Turns, First(ready, "Sensors")
  PROVE  /\ Woken(Tail(ready)) \in Turns
         /\ main = "Run" /\ queue' # <<>> => First(Woken(Tail(ready)), "Main")
<1>1. IsReady("Main") <=> ReadyIn(ready, "Main")
  BY TurnNow
<1>2. Tail(ready) \in Turns /\ ready # <<>>
  BY TurnOver DEF First
<1>3. CASE Woken(Tail(ready)) = Tail(ready)
           /\ ~(main = "Run" /\ ~IsReady("Main") /\ queue' # <<>>)
  BY <1>1, <1>2, <1>3, TurnOver
<1>4. CASE Woken(Tail(ready)) = Append(Tail(ready), "Main") /\ ~IsReady("Main")
  <2>1. ~ReadyIn(Tail(ready), "Main") /\ ~ReadyIn(Tail(ready), "Sensors")
    BY <1>1, <1>2, <1>4, TurnOver DEF Threads
  <2>2. Tail(ready) = <<>>
    BY <1>2, <2>1, TurnCases DEF Turns, Threads
  <2> QED
    BY <1>2, <1>4, <2>1, <2>2, TurnBehind DEF Threads
<1> QED
  BY <1>3, <1>4 DEF Woken

-----------------------------------------------------------------------------
(* The types, a group of variables at a time.                              *)
PowerType ==
  main \in MainPc /\ btnPin \in BOOLEAN /\ chgPin \in BOOLEAN /\ wakePress \in BOOLEAN
SensorsType ==
  /\ poll \in {"Usb", "Button"} /\ usbSns \in PinStates /\ btnSns \in PinStates
  /\ IsLongPress \in BOOLEAN /\ held \in 0 .. LongPolls
  /\ UsbIsConnected \in BOOLEAN /\ told \in Nat
QueueType == queue \in Seq(Events) /\ Len(queue) <= QueueLen
IndType == ind \in [SomeoneIsNear : BOOLEAN, UsbConnected : BOOLEAN,
                    IsCharging : BOOLEAN, IsDischarged : BOOLEAN]
LightsType ==
  /\ IndType
  /\ blade \in {"Black", "Indi"}
  /\ gem \in {"Black", "Blue", "Green", "Blink", "BlinkOnce"}
  /\ lumos \in {"Idle", "Charging", "Discharged", "Failure"}

LEMMA TypeGroups ==
  TypeOK <=> PowerType /\ SensorsType /\ QueueType /\ LightsType /\ ready \in Turns
  BY DEF TypeOK, PowerType, SensorsType, QueueType, LightsType, IndType

LEMMA PinTypes ==
  ASSUME NEW state \in PinStates, NEW isHi \in BOOLEAN
  PROVE  NextPinState(state, isHi) \in PinStates
  BY DEF NextPinState, PinStates

LEMMA InitTypes == Init => TypeOK
<1> SUFFICES ASSUME Init PROVE TypeOK
  OBVIOUS
<1>1. PowerType
  BY DEF Init, PowerType, MainPc
<1>2. SensorsType
  <2>1. held \in 0 .. LongPolls /\ told \in Nat
    BY DEF Init
  <2>2. /\ poll \in {"Usb", "Button"} /\ usbSns \in PinStates /\ btnSns \in PinStates
        /\ IsLongPress \in BOOLEAN /\ UsbIsConnected \in BOOLEAN
    BY DEF Init, PinStates
  <2> QED
    BY <2>1, <2>2 DEF SensorsType
<1>3. QueueType
  BY EmptyQueue DEF Init, QueueType
<1>4. LightsType
  BY DEF Init, LightsType, IndType, AllOff
<1>5. ready \in Turns
  BY DEF Init, Turns
<1> QED
  BY <1>1, <1>2, <1>3, <1>4, <1>5, TypeGroups

LEMMA ReadyStep == TypeOK /\ [Next]_vars => ready' \in Turns
<1> SUFFICES ASSUME TypeOK, [Next]_vars PROVE ready' \in Turns
  OBVIOUS
<1>0. ready \in Turns
  BY DEF TypeOK
<1>1. CASE ready' = ready
  BY <1>0, <1>1
<1>2. CASE ready' = <<>> \/ ready' = <<"Main", "Sensors">>
  BY <1>2 DEF Turns
<1>3. CASE ready' = Woken(ready)
  BY <1>0, <1>3, WokenBehind
<1>4. CASE PollButton
  BY <1>0, <1>4, TurnNow, WokenAfter DEF PollButton
<1>5. CASE SleepOver
  BY <1>0, <1>5, TurnNow, TurnBehind DEF SleepOver, Threads
<1>6. CASE Runs("Main") /\ ready' = Tail(ready)
  BY <1>0, <1>6, TurnOver DEF Runs
<1>7. ITask => ready' = ready \/ (Runs("Main") /\ ready' = Tail(ready))
  BY DEF ITask, HandleAdc, CheckRxTable, HandleButtons, HandleUsb, Fetched, EnterSleep
<1>8. StartUp \/ FailureShown => ready' = ready \/ ready' = <<"Main", "Sensors">>
  BY DEF StartUp, FailureShown, EnterITask
<1>9. OnAdcDoneI \/ TmrCheckRxTable \/ PollUsb => ready' = Woken(ready)
  BY DEF OnAdcDoneI, TmrCheckRxTable, PollUsb
<1>10. /\ LedsAreOff => ready' = <<>>
       /\ WaitForEvent => Runs("Main") /\ ready' = Tail(ready)
  BY DEF LedsAreOff, WaitForEvent
<1>11. \/ Press \/ ReleaseButton \/ ChargerSwitches \/ WakeByButton \/ WakeByCable
       \/ BackToStandby \/ PressedLongEnough \/ FailureEnds \/ UNCHANGED vars
       => ready' = ready
  BY DEF Press, ReleaseButton, ChargerSwitches, WakeByButton, WakeByCable, BackToStandby,
         PressedLongEnough, FailureEnds, vars
<1> QED
  BY <1>1, <1>2, <1>3, <1>4, <1>5, <1>6, <1>7, <1>8, <1>9, <1>10, <1>11 DEF Next

(* Fetching an event.                                                      *)
LEMMA FetchedTypes ==
  ASSUME TypeOK, NEW id, Fetched(id)
  PROVE  QueueType' /\ SensorsType' /\ Head(queue) \in Events
<1>1. queue \in Seq(Events) /\ Len(queue) <= QueueLen /\ queue # <<>>
  BY DEF TypeOK, Fetched
<1>2. Head(queue) \in Events
  BY <1>1
<1>3. QueueType'
  BY <1>1, TailType DEF Fetched, QueueType
<1>4. SensorsType'
  BY TypeGroups DEF Fetched, sensors, SensorsType
<1> QED
  BY <1>2, <1>3, <1>4

(* Indication_t::Process, whatever it is told.                             *)
LEMMA ProcessTypes ==
  ASSUME NEW i \in [SomeoneIsNear : BOOLEAN, UsbConnected : BOOLEAN,
                    IsCharging : BOOLEAN, IsDischarged : BOOLEAN],
         Process(i)
  PROVE  LightsType'
<1>1. IndType'
  BY DEF Process, IndType
<1>2. blade' \in {"Black", "Indi"}
  BY DEF Process
<1>3. gem' \in {"Black", "Blue", "Green", "Blink", "BlinkOnce"}
  BY DEF Process
<1>4. lumos' \in {"Idle", "Charging", "Discharged", "Failure"}
  BY DEF Process
<1> QED
  BY <1>1, <1>2, <1>3, <1>4 DEF LightsType

LEMMA OnPwrTypes ==
  ASSUME TypeOK, NEW charging \in BOOLEAN, NEW battery, OnPwr(charging, battery)
  PROVE  LightsType'
<1> DEFINE i == [ind EXCEPT !.UsbConnected = UsbIsConnected, !.IsCharging = charging,
                            !.IsDischarged = (battery # "Ok")]
<1>1. i \in [SomeoneIsNear : BOOLEAN, UsbConnected : BOOLEAN,
             IsCharging : BOOLEAN, IsDischarged : BOOLEAN]
  BY DEF TypeOK
<1>2. Process(i)
  BY DEF OnPwr
<1> QED
  BY <1>1, <1>2, ProcessTypes
LEMMA PostTypes ==
  ASSUME TypeOK, NEW evt \in Events, queue' = With(queue, evt)
  PROVE  QueueType'
  BY WithType DEF TypeOK, QueueType

LEMMA PollUsbTypes == TypeOK /\ PollUsb => SensorsType' /\ QueueType'
<1> SUFFICES ASSUME TypeOK, PollUsb PROVE SensorsType' /\ QueueType'
  OBVIOUS
<1>1. PICK isHi \in BOOLEAN :
        /\ usbSns' = NextPinState(usbSns, isHi)
        /\ UsbIsConnected' = isHi
        /\ queue' = IF isHi = UsbIsConnected THEN queue
                    ELSE With(queue, Evt(IF isHi THEN "UsbConnect" ELSE "UsbDisconnect"))
  BY DEF PollUsb
<1>2. usbSns' \in PinStates /\ UsbIsConnected' \in BOOLEAN
  BY <1>1, PinTypes DEF TypeOK
<1>3. poll' \in {"Usb", "Button"} /\ btnSns' \in PinStates /\ held' \in 0 .. LongPolls
      /\ told' \in Nat
  BY DEF PollUsb, TypeOK
<1>4. IsLongPress' \in BOOLEAN
  BY DEF PollUsb, TypeOK
<1>5. QueueType'
  <2>1. CASE queue' = queue
    BY <2>1 DEF TypeOK, QueueType
  <2>2. CASE queue' = With(queue, Evt("UsbConnect"))
    BY <2>2, EventTypes, PostTypes
  <2>3. CASE queue' = With(queue, Evt("UsbDisconnect"))
    BY <2>3, EventTypes, PostTypes
  <2> QED
    BY <1>1, <2>1, <2>2, <2>3
<1> QED
  BY <1>2, <1>3, <1>4, <1>5 DEF SensorsType

(* What a poll of the button may do, and to whom it matters.               *)
LEMMA ButtonCases ==
  ASSUME TypeOK, NEW periods \in 1 .. LongPolls, ProcessButtons(periods)
  PROVE  \/ /\ btnSns' = "Rising"
            /\ IsLongPress' = FALSE /\ held' = 0 /\ told' = 0 /\ queue' = queue
         \/ /\ btnSns' = "Falling" /\ ~IsLongPress
            /\ queue' = With(queue, BtnEvt("Release")) /\ told' = told + 1
            /\ IsLongPress' = IsLongPress /\ held' = held
         \/ /\ btnSns' = "Hi" /\ ~IsLongPress
            /\ queue' = With(queue, BtnEvt("LongPress")) /\ told' = told + 1
            /\ IsLongPress' = TRUE /\ held' = LongPolls
         \/ /\ btnSns' # "Rising" /\ (btnSns' = "Falling" => IsLongPress)
            /\ held' = HeldFor(periods)
            /\ IsLongPress' = IsLongPress /\ queue' = queue /\ told' = told
  BY DEF ProcessButtons

LEMMA PollButtonTypes == TypeOK /\ PollButton => SensorsType' /\ QueueType'
<1> SUFFICES ASSUME TypeOK, PollButton PROVE SensorsType' /\ QueueType'
  OBVIOUS
<1> USE ButtonCases
<1>0. PICK periods \in 1 .. LongPolls : ProcessButtons(periods)
  BY DEF PollButton
<1>1. btnSns' \in PinStates
  BY PinTypes DEF PollButton, TypeOK
<1>2. poll' \in {"Usb", "Button"} /\ usbSns' \in PinStates
  BY DEF PollButton, TypeOK
<1>3. UsbIsConnected' \in BOOLEAN
  BY DEF PollButton, TypeOK
<1>4. IsLongPress' \in BOOLEAN
  <2>1. IsLongPress \in BOOLEAN
    BY DEF TypeOK
  <2>2. IsLongPress' = FALSE \/ IsLongPress' = TRUE \/ IsLongPress' = IsLongPress
    BY <1>0
  <2> QED
    BY <2>1, <2>2
<1>5. held' \in 0 .. LongPolls
  <2>1. held \in 0 .. LongPolls
    BY DEF TypeOK
  <2>2. held' = 0 \/ held' = held \/ held' = LongPolls \/ held' = HeldFor(periods)
    BY <1>0
  <2>3. HeldFor(periods) \in 0 .. LongPolls
    BY <2>1 DEF HeldFor
  <2> QED
    BY <2>1, <2>2, <2>3
<1>6. told' \in Nat
  <2>1. told \in Nat
    BY DEF TypeOK
  <2>2. told' = 0 \/ told' = told \/ told' = told + 1
    BY <1>0
  <2> QED
    BY <2>1, <2>2
<1>7. QueueType'
  <2>1. CASE queue' = queue
    BY <2>1 DEF TypeOK, QueueType
  <2>2. CASE queue' = With(queue, BtnEvt("Release"))
    BY <2>2, EventTypes, PostTypes
  <2>3. CASE queue' = With(queue, BtnEvt("LongPress"))
    BY <2>3, EventTypes, PostTypes
  <2> QED
    BY <1>0, <2>1, <2>2, <2>3
<1> QED
  BY <1>1, <1>2, <1>3, <1>4, <1>5, <1>6, <1>7 DEF SensorsType
LEMMA HandleAdcTypes == TypeOK /\ HandleAdc => LightsType' /\ PowerType'
<1> SUFFICES ASSUME TypeOK, HandleAdc PROVE LightsType' /\ PowerType'
  OBVIOUS
<1>1. Fetched("ADC") /\ chgPin' \in BOOLEAN /\ chgPin \in BOOLEAN
  BY DEF HandleAdc, TypeOK
<1>2. btnPin' \in BOOLEAN /\ wakePress' \in BOOLEAN
  BY <1>1 DEF Fetched, TypeOK
<1>3. CASE EnterSleep /\ ind' = [ind EXCEPT !.UsbConnected = FALSE, !.IsCharging = chgPin,
                                           !.IsDischarged = TRUE]
           /\ lumos' = IF chgPin THEN "Charging" ELSE "Discharged"
  <2>1. IndType'
    BY <1>1, <1>3 DEF IndType, TypeOK
  <2>2. /\ blade' \in {"Black", "Indi"}
        /\ gem' \in {"Black", "Blue", "Green", "Blink", "BlinkOnce"}
        /\ lumos' \in {"Idle", "Charging", "Discharged", "Failure"}
    BY <1>3 DEF EnterSleep
  <2>3. main' \in MainPc
    BY <1>3 DEF EnterSleep, MainPc
  <2> QED
    BY <1>1, <1>2, <2>1, <2>2, <2>3 DEF LightsType, PowerType
<1>4. CASE OnPwr(chgPin, Head(queue).value) /\ main' = main
  <2>1. LightsType'
    BY <1>1, <1>4, OnPwrTypes
  <2>2. main' \in MainPc
    BY <1>4 DEF TypeOK
  <2> QED
    BY <1>1, <1>2, <2>1, <2>2 DEF PowerType
<1>5. \/ OnPwr(chgPin, Head(queue).value) /\ main' = main
      \/ /\ EnterSleep
         /\ ind' = [ind EXCEPT !.UsbConnected = FALSE, !.IsCharging = chgPin,
                               !.IsDischarged = TRUE]
         /\ lumos' = IF chgPin THEN "Charging" ELSE "Discharged"
  <2>1. CASE ~chgPin' /\ ~UsbIsConnected /\ Head(queue).value = "Dead"
    BY <2>1 DEF HandleAdc
  <2>2. CASE ~(~chgPin' /\ ~UsbIsConnected /\ Head(queue).value = "Dead")
    BY <2>2 DEF HandleAdc
  <2> QED
    BY <2>1, <2>2
<1> QED
  BY <1>3, <1>4, <1>5

LEMMA HandlerTypes == TypeOK /\ ITask => TypeOK'
<1> SUFFICES ASSUME TypeOK, ITask PROVE TypeOK'
  OBVIOUS
<1>1. \E id : Fetched(id)
  BY DEF ITask, HandleAdc, CheckRxTable, HandleButtons, HandleUsb
<1>2. QueueType' /\ SensorsType'
  BY <1>1, FetchedTypes
<1>3. LightsType' /\ PowerType'
  <2> USE DEF PowerType
  <2>1. CASE HandleAdc
    BY <2>1, HandleAdcTypes
  <2>2. CASE CheckRxTable
    <3>1. PICK near \in BOOLEAN : Process([ind EXCEPT !.SomeoneIsNear = near])
      BY <2>2 DEF CheckRxTable
    <3>2. [ind EXCEPT !.SomeoneIsNear = near]
            \in [SomeoneIsNear : BOOLEAN, UsbConnected : BOOLEAN,
                 IsCharging : BOOLEAN, IsDischarged : BOOLEAN]
      BY DEF TypeOK
    <3>3. LightsType'
      BY <3>1, <3>2, ProcessTypes
    <3> QED
      BY <2>2, <3>3 DEF CheckRxTable, Fetched, TypeOK
  <2>3. CASE HandleButtons
    <3>1. PowerType'
      BY <2>3 DEF HandleButtons, EnterSleep, Fetched, TypeOK, MainPc
    <3>2. LightsType'
      BY <2>3, TypeGroups DEF HandleButtons, EnterSleep, lights, LightsType, IndType
    <3> QED
      BY <3>1, <3>2
  <2>4. CASE HandleUsb
    <3>1. PowerType'
      BY <2>4 DEF HandleUsb, Fetched, TypeOK
    <3>2. LightsType'
      BY <2>4, TypeGroups DEF HandleUsb, LightsType, IndType
    <3> QED
      BY <3>1, <3>2
  <2> QED
    BY <2>1, <2>2, <2>3, <2>4 DEF ITask
<1>4. PowerType' /\ SensorsType' /\ QueueType' /\ LightsType' => TypeOK'
  <2>1. ready' \in Turns
    BY ReadyStep DEF Next
  <2> QED
    BY <2>1 DEF TypeOK, PowerType, SensorsType, QueueType, LightsType, IndType
<1> QED
  BY <1>2, <1>3, <1>4

LEMMA StandbyTypes == TypeOK /\ LedsAreOff => TypeOK'
<1> SUFFICES ASSUME TypeOK, LedsAreOff PROVE TypeOK'
  OBVIOUS
<1>1. PowerType'
  BY DEF LedsAreOff, PowerType, MainPc, TypeOK
<1>2. held' \in 0 .. LongPolls /\ told' \in Nat
  BY DEF LedsAreOff
<1>3. /\ poll' \in {"Usb", "Button"} /\ usbSns' \in PinStates /\ btnSns' \in PinStates
      /\ IsLongPress' \in BOOLEAN /\ UsbIsConnected' \in BOOLEAN
  BY DEF LedsAreOff, PinStates
<1>4. QueueType'
  BY EmptyQueue DEF LedsAreOff, QueueType
<1>5. LightsType'
  BY DEF LedsAreOff, LightsType, IndType, AllOff
<1>6. PowerType' /\ SensorsType' /\ QueueType' /\ LightsType' => TypeOK'
  <2>1. ready' \in Turns
    BY ReadyStep DEF Next
  <2> QED
    BY <2>1 DEF TypeOK, PowerType, SensorsType, QueueType, LightsType, IndType
<1> QED
  BY <1>1, <1>2, <1>3, <1>4, <1>5, <1>6 DEF SensorsType
LEMMA TypeStep == TypeOK /\ [Next]_vars => TypeOK'
<1> SUFFICES ASSUME TypeOK, [Next]_vars PROVE TypeOK'
  OBVIOUS
<1>0. /\ PowerType' /\ SensorsType' /\ QueueType' /\ LightsType' => TypeOK'
      /\ UNCHANGED sensors => SensorsType'
      /\ UNCHANGED lights => LightsType'
      /\ UNCHANGED queue => QueueType'
      /\ UNCHANGED power => PowerType'
  <2>1. PowerType' /\ SensorsType' /\ QueueType' /\ LightsType' => TypeOK'
    BY ReadyStep DEF TypeOK, PowerType, SensorsType, QueueType, LightsType, IndType
  <2>2. UNCHANGED sensors => SensorsType'
    BY TypeGroups DEF sensors, SensorsType
  <2>3. UNCHANGED lights => LightsType'
    BY TypeGroups DEF lights, LightsType, IndType
  <2>4. UNCHANGED queue => QueueType'
    BY TypeGroups DEF QueueType
  <2>5. UNCHANGED power => PowerType'
    BY TypeGroups DEF power, PowerType
  <2> QED
    BY <2>1, <2>2, <2>3, <2>4, <2>5
<1>1. CASE Press \/ ReleaseButton \/ ChargerSwitches
  <2>1. PowerType'
    BY <1>1 DEF Press, ReleaseButton, ChargerSwitches, TypeOK, PowerType
  <2> QED
    BY <1>0, <1>1, <2>1 DEF Press, ReleaseButton, ChargerSwitches
<1>2. CASE WakeByButton \/ WakeByCable \/ BackToStandby \/ PressedLongEnough \/ FailureShown
  <2>1. PowerType'
    BY <1>2 DEF WakeByButton, WakeByCable, BackToStandby, PressedLongEnough, FailureShown,
                EnterITask, TypeOK, PowerType, MainPc
  <2> QED
    BY <1>0, <1>2, <2>1 DEF WakeByButton, WakeByCable, BackToStandby, PressedLongEnough,
                            FailureShown
<1>3. CASE StartUp
  <2>1. PowerType'
    BY <1>3 DEF StartUp, EnterITask, TypeOK, PowerType, MainPc
  <2>2. LightsType'
    BY <1>3, TypeGroups DEF StartUp, LightsType, IndType
  <2> QED
    BY <1>0, <1>3, <2>1, <2>2 DEF StartUp
<1>4. CASE OnAdcDoneI
  <2>1. QueueType'
    BY <1>4, EventTypes, PostTypes DEF OnAdcDoneI
  <2> QED
    BY <1>0, <1>4, <2>1 DEF OnAdcDoneI
<1>5. CASE TmrCheckRxTable
  <2>1. QueueType'
    BY <1>5, EventTypes, PostTypes DEF TmrCheckRxTable
  <2> QED
    BY <1>0, <1>5, <2>1 DEF TmrCheckRxTable
<1>6. CASE PollUsb
  BY <1>0, <1>6, PollUsbTypes DEF PollUsb
<1>7. CASE PollButton
  <2>1. UNCHANGED <<power, lights>>
    BY <1>7 DEF PollButton
  <2> QED
    BY <1>0, <1>7, <2>1, PollButtonTypes
<1>8. CASE ITask
  BY <1>8, HandlerTypes
<1>9. CASE LedsAreOff
  BY <1>9, StandbyTypes
<1>10. CASE FailureEnds
  <2>1. LightsType'
    BY <1>10, TypeGroups DEF FailureEnds, LightsType, IndType
  <2> QED
    BY <1>0, <1>10, <2>1 DEF FailureEnds
<1>11. CASE SleepOver \/ WaitForEvent \/ UNCHANGED vars
  BY <1>0, <1>11 DEF SleepOver, WaitForEvent, vars
<1> QED
  BY <1>1, <1>2, <1>3, <1>4, <1>5, <1>6, <1>7, <1>8, <1>9, <1>10, <1>11 DEF Next

(* main.cpp:72-105, 226-317: events, indication and pins keep their types, *)
(* and the queue never has more than QueueLen events.                      *)
THEOREM TypeCorrect == Spec => []TypeOK
<1>1. TypeOK /\ [Next]_vars => TypeOK'
  BY TypeStep
<1> QED
  BY <1>1, InitTypes, PTL DEF Spec

-----------------------------------------------------------------------------
(* The button.                                                             *)
LEMMA ButtonStep == TypeOK /\ ButtonStory /\ [Next]_vars => ButtonStory'
<1> SUFFICES ASSUME TypeOK, ButtonStory, [Next]_vars PROVE ButtonStory'
  OBVIOUS
<1>1. CASE PollButton
  <2>0. PICK periods \in 1 .. LongPolls : ProcessButtons(periods)
    BY <1>1 DEF PollButton
  <2>1. /\ btnSns' = NextPinState(btnSns, btnPin) /\ btnPin \in BOOLEAN
        /\ btnSns \in PinStates
    BY <1>1 DEF PollButton, TypeOK
  <2>2. /\ btnSns' # "None"
        /\ btnSns' = "Falling" => btnSns \in {"Rising", "Hi"}
        /\ btnSns' = "Hi" => btnSns \in {"None", "Rising", "Hi"}
    BY <2>1 DEF NextPinState, PinStates
  <2>3. CASE btnSns' = "Rising" /\ IsLongPress' = FALSE /\ told' = 0
    BY <2>3 DEF ButtonStory
  <2>4. CASE btnSns' = "Falling" /\ ~IsLongPress /\ told' = told + 1
    <3>1. told = 0
      BY <2>2, <2>4 DEF ButtonStory
    <3>2. told' = 1
      BY <2>4, <3>1
    <3> QED
      BY <2>4, <3>2 DEF ButtonStory
  <2>5. CASE btnSns' = "Hi" /\ ~IsLongPress /\ told' = told + 1 /\ IsLongPress' = TRUE
    <3>1. told = 0
      BY <2>2, <2>5 DEF ButtonStory
    <3>2. told' = 1
      BY <2>5, <3>1
    <3> QED
      BY <2>5, <3>2 DEF ButtonStory
  <2>6. CASE btnSns' # "Rising" /\ (btnSns' = "Falling" => IsLongPress)
             /\ IsLongPress' = IsLongPress /\ told' = told
    <3>1. btnSns' = "Hi" => (told = 1 <=> IsLongPress)
      BY <2>2 DEF ButtonStory
    <3>2. btnSns' = "Falling" => told = 1
      BY <2>2, <2>6 DEF ButtonStory
    <3> QED
      BY <2>2, <2>6, <3>1, <3>2 DEF ButtonStory
  <2> QED
    BY <2>0, <2>3, <2>4, <2>5, <2>6, ButtonCases
<1>2. CASE LedsAreOff
  BY <1>2 DEF LedsAreOff, ButtonStory
<1>3. CASE UNCHANGED <<btnSns, IsLongPress, told>>
  BY <1>3 DEF ButtonStory
<1>4. PollButton \/ LedsAreOff \/ UNCHANGED <<btnSns, IsLongPress, told>>
  BY DEF Next, vars, sensors, Press, ReleaseButton, ChargerSwitches, WakeByButton, WakeByCable,
         BackToStandby, PressedLongEnough, StartUp, FailureShown, OnAdcDoneI, TmrCheckRxTable,
         SleepOver, PollUsb, WaitForEvent, ITask, HandleAdc, CheckRxTable, HandleButtons,
         HandleUsb, Fetched, FailureEnds
<1> QED
  BY <1>1, <1>2, <1>3, <1>4

(* buttons.cpp:107-158: from one press to the next exactly one event is    *)
(* posted, also for a button that was down before the first poll.          *)
THEOREM PressCorrect == Spec => []OneEventPerPress
<1>1. Init => ButtonStory
  BY DEF Init, ButtonStory
<1>2. ButtonStory => OneEventPerPress
  BY DEF ButtonStory, OneEventPerPress
<1>3. TypeOK /\ ButtonStory /\ [Next]_vars => ButtonStory'
  BY ButtonStep
<1> QED
  BY <1>1, <1>2, <1>3, TypeCorrect, PTL DEF Spec

-----------------------------------------------------------------------------
(* The press that woke the sword.                                          *)
LEMMA WakeStep == WakeStory /\ [Next]_vars => WakeStory'
<1> SUFFICES ASSUME WakeStory, [Next]_vars PROVE WakeStory'
  OBVIOUS
<1> USE DEF WakeStory
<1>1. CASE Press \/ ReleaseButton \/ ChargerSwitches
  BY <1>1 DEF Press, ReleaseButton, ChargerSwitches
<1>2. CASE WakeByButton \/ WakeByCable \/ BackToStandby \/ PressedLongEnough \/ FailureShown
           \/ StartUp
  BY <1>2 DEF WakeByButton, WakeByCable, BackToStandby, PressedLongEnough, FailureShown, StartUp,
              EnterITask
<1>3. CASE \/ OnAdcDoneI \/ TmrCheckRxTable \/ SleepOver \/ PollUsb \/ PollButton
           \/ WaitForEvent \/ FailureEnds
  BY <1>3 DEF OnAdcDoneI, TmrCheckRxTable, SleepOver, PollUsb, PollButton, WaitForEvent,
              FailureEnds, power
<1>4. CASE ITask
  BY <1>4 DEF ITask, HandleAdc, CheckRxTable, HandleButtons, HandleUsb, Fetched
<1>5. CASE LedsAreOff
  BY <1>5 DEF LedsAreOff
<1>6. CASE UNCHANGED vars
  BY <1>6 DEF vars, power
<1> QED
  BY <1>1, <1>2, <1>3, <1>4, <1>5, <1>6 DEF Next

(* main.cpp:128-139, 205-208: that press is over when the pins are polled. *)
THEOREM WakePressCorrect == Spec => []WakePressIsOver
<1>1. Init => WakeStory
  BY DEF Init, WakeStory
<1>2. WakeStory => WakePressIsOver
  BY DEF WakeStory, WakePressIsOver
<1>3. WakeStory /\ [Next]_vars => WakeStory'
  BY WakeStep
<1> QED
  BY <1>1, <1>2, <1>3, PTL DEF Spec
-----------------------------------------------------------------------------
(* The events of the pins.                                                 *)

LEMMA NoneIsSingle ==
  ASSUME NEW q, NEW ids, None(q, ids) PROVE Single(q, ids)
  BY DEF None, Single

LEMMA TurnStep == TypeOK /\ TurnStory /\ [Next]_vars => TurnStory'
<1> SUFFICES ASSUME TypeOK, TurnStory, [Next]_vars PROVE TurnStory'
  OBVIOUS
<1>0. ready \in Turns
  BY DEF TypeOK
<1>1. CASE OnAdcDoneI \/ TmrCheckRxTable
  <2>1. UNCHANGED <<main, poll>> /\ ready' = Woken(ready)
    BY <1>1 DEF OnAdcDoneI, TmrCheckRxTable, power, sensors
  <2> QED
    BY <1>0, <2>1, WokenBehind DEF TurnStory, Threads
<1>2. CASE PollUsb
  <2>1. main' = main /\ ready' = Woken(ready) /\ First(ready, "Sensors")
    BY <1>2, TurnNow DEF PollUsb, power
  <2>2. main \in {"Run", "Fade"}
    BY <2>1 DEF TurnStory, First
  <2> QED
    BY <1>0, <2>1, <2>2, WokenBehind DEF TurnStory, Threads
<1>3. CASE PollButton
  <2>1. main' = main /\ poll' = "Usb" /\ ready' = Woken(Tail(ready)) /\ First(ready, "Sensors")
    BY <1>3, TurnNow DEF PollButton, power
  <2>2. main \in {"Run", "Fade"}
    BY <2>1 DEF TurnStory, First
  <2>3. main = "Run" /\ queue' # <<>> => ReadyIn(ready', "Main")
    <3>1. ready' \in Turns
      BY ReadyStep
    <3>2. First(ready', "Main") => ReadyIn(ready', "Main")
      BY <3>1, TurnCases DEF Turns, Threads, Other
    <3> QED
      BY <1>0, <2>1, <3>2, WokenAfter
  <2> QED
    BY <2>1, <2>2, <2>3 DEF TurnStory
<1>4. CASE SleepOver
  <2>1. UNCHANGED <<main, poll, queue>> /\ main \in {"Run", "Fade"}
        /\ ready' = Append(ready, "Sensors") /\ ~ReadyIn(ready, "Sensors")
    BY <1>4, TurnNow DEF SleepOver, power, sensors
  <2> QED
    BY <1>0, <2>1, TurnBehind DEF TurnStory, Threads
<1>5. CASE WaitForEvent
  <2>1. UNCHANGED <<main, poll, queue>> /\ main = "Run" /\ queue = <<>> /\ First(ready, "Main")
    BY <1>5, TurnNow DEF WaitForEvent, power, sensors
  <2>2. poll # "Button"
    BY <2>1, TurnNow DEF TurnStory
  <2> QED
    BY <2>1, <2>2 DEF TurnStory
<1>6. CASE ITask
  <2>1. /\ main = "Run" /\ poll' = poll /\ First(ready, "Main")
        /\ main' = "Fade" \/ UNCHANGED <<main, ready>>
    BY <1>6, TurnNow DEF ITask, HandleAdc, CheckRxTable, HandleButtons, HandleUsb, Fetched,
       EnterSleep, sensors
  <2>2. poll' # "Button" /\ ReadyIn(ready, "Main")
    BY <1>0, <2>1, TurnNow DEF TurnStory, Threads
  <2> QED
    BY <2>1, <2>2 DEF TurnStory
<1>7. CASE LedsAreOff
  BY <1>7 DEF LedsAreOff, TurnStory
<1>8. CASE StartUp \/ FailureShown
  <2>1. /\ main \notin {"Run", "Fade"} /\ poll' = poll
        /\ \/ main' = "NoRadio" /\ ready' = ready
           \/ main' = "Run" /\ ready' = <<"Main", "Sensors">>
    BY <1>8 DEF StartUp, FailureShown, EnterITask, sensors
  <2>2. poll' = "Usb"
    BY <2>1 DEF TurnStory
  <2>3. ready' = <<"Main", "Sensors">> => ReadyIn(ready', "Main")
    BY TurnCases DEF Turns, Threads
  <2> QED
    BY <2>1, <2>2, <2>3 DEF TurnStory
<1>9. CASE WakeByButton \/ WakeByCable \/ BackToStandby \/ PressedLongEnough
  BY <1>9 DEF WakeByButton, WakeByCable, BackToStandby, PressedLongEnough, sensors, TurnStory
<1>10. CASE Press \/ ReleaseButton \/ ChargerSwitches \/ FailureEnds \/ UNCHANGED vars
  <2>1. UNCHANGED <<main, ready, queue, poll>>
    BY <1>10 DEF Press, ReleaseButton, ChargerSwitches, FailureEnds, vars, power, sensors
  <2> QED
    BY <2>1 DEF TurnStory
<1> QED
  BY <1>1, <1>2, <1>3, <1>4, <1>5, <1>6, <1>7, <1>8, <1>9, <1>10 DEF Next

(* An interrupt posts an event that is not of a pin.                       *)
LEMMA PostStep ==
  ASSUME TypeOK, QueueStory, UNCHANGED <<main, poll>>, ready' = Woken(ready),
         NEW evt \in Events, evt.ID \notin UsbIDs, evt.ID \notin BtnIDs,
         queue' = With(queue, evt)
  PROVE  QueueStory'
<1>1. queue \in Seq(Events) /\ ready \in Turns
  BY DEF TypeOK
<1>2. \A ids \in {UsbIDs, BtnIDs} : None(queue, ids) => None(queue', ids)
  BY <1>1, WithNone
<1>3. \A ids \in {UsbIDs, BtnIDs} : Single(queue, ids) => Single(queue', ids)
  BY <1>1, WithSingle
<1>4. First(ready, "Main") => First(ready', "Main")
  BY <1>1, WokenBehind DEF Threads
<1> QED
  BY <1>2, <1>3, <1>4 DEF QueueStory

(* A poll that begins while other events wait, and main behind it.         *)
LEMMA PollBegins ==
  ASSUME TypeOK, QueueStory, PollUsb, main = "Run"
  PROVE  None(queue, UsbIDs) /\ None(queue, BtnIDs) /\ queue \in Seq(Events)
  BY TurnNow DEF PollUsb, QueueStory, TypeOK

LEMMA PollUsbStep == TypeOK /\ TurnStory /\ QueueStory /\ PollUsb => QueueStory'
<1> SUFFICES ASSUME TypeOK, TurnStory, QueueStory, PollUsb PROVE QueueStory'
  OBVIOUS
<1>1. main' = main /\ poll' = "Button" /\ main \in {"Run", "Fade"}
  BY TurnNow DEF PollUsb, TurnStory, First, power
<1>2. ASSUME main = "Run"
      PROVE  Single(queue', UsbIDs) /\ None(queue', BtnIDs)
  <2>1. None(queue, UsbIDs) /\ None(queue, BtnIDs) /\ queue \in Seq(Events)
    BY <1>2, PollBegins
  <2>2. PICK id \in UsbIDs : queue' = queue \/ queue' = With(queue, Evt(id))
    BY DEF PollUsb, UsbIDs
  <2>3. Evt(id) \in Events /\ Evt(id).ID \notin BtnIDs
    BY EventTypes DEF UsbIDs, BtnIDs
  <2>4. CASE queue' = queue
    BY <2>1, <2>4, NoneIsSingle
  <2>5. CASE queue' = With(queue, Evt(id))
    BY <2>1, <2>3, <2>5, WithNone
  <2> QED
    BY <2>2, <2>4, <2>5
<1> QED
  BY <1>1, <1>2, NoneIsSingle DEF QueueStory

LEMMA PollButtonStep == TypeOK /\ TurnStory /\ QueueStory /\ PollButton => QueueStory'
<1> SUFFICES ASSUME TypeOK, TurnStory, QueueStory, PollButton PROVE QueueStory'
  OBVIOUS
<1>1. /\ main' = main /\ poll = "Button" /\ poll' = "Usb"
      /\ ready' = Woken(Tail(ready)) /\ First(ready, "Sensors") /\ ready \in Turns
  BY TurnNow DEF PollButton, TypeOK, power
<1>2. main \in {"Run", "Fade"}
  BY <1>1 DEF TurnStory
<1>3. ASSUME main = "Run"
      PROVE  Single(queue', UsbIDs) /\ Single(queue', BtnIDs)
  <2>1. Single(queue, UsbIDs) /\ None(queue, BtnIDs) /\ queue \in Seq(Events)
    BY <1>1, <1>3 DEF QueueStory, TypeOK
  <2>2. PICK periods \in 1 .. LongPolls : ProcessButtons(periods)
    BY DEF PollButton
  <2>3. PICK type \in {"LongPress", "Release"} :
          queue' = queue \/ queue' = With(queue, BtnEvt(type))
    BY <2>2, ButtonCases
  <2>4. BtnEvt(type) \in Events /\ BtnEvt(type).ID \notin UsbIDs
    BY EventTypes DEF UsbIDs
  <2>5. CASE queue' = queue
    BY <2>1, <2>5, NoneIsSingle
  <2>6. CASE queue' = With(queue, BtnEvt(type))
    BY <2>1, <2>4, <2>6, WithNone, WithSingle
  <2> QED
    BY <2>3, <2>5, <2>6
<1>4. main = "Run" => First(ready', "Main") \/ (None(queue', UsbIDs) /\ None(queue', BtnIDs))
  <2>1. CASE queue' = <<>>
    BY <2>1, EmptyQueue
  <2>2. CASE queue' # <<>>
    BY <1>1, <2>2, WokenAfter
  <2> QED
    BY <2>1, <2>2
<1> QED
  BY <1>1, <1>2, <1>3, <1>4 DEF QueueStory

LEMMA HandlerStep == TypeOK /\ TurnStory /\ QueueStory /\ ITask => QueueStory'
<1> SUFFICES ASSUME TypeOK, TurnStory, QueueStory, ITask PROVE QueueStory'
  OBVIOUS
<1>1. PICK id : Fetched(id)
  BY DEF ITask, HandleAdc, CheckRxTable, HandleButtons, HandleUsb
<1>2. /\ main = "Run" /\ First(ready, "Main") /\ poll' = poll
      /\ queue # <<>> /\ queue' = Tail(queue) /\ queue \in Seq(Events)
  BY <1>1, TurnNow DEF Fetched, sensors, TypeOK
<1>3. poll' # "Button"
  BY <1>2, TurnNow DEF TurnStory
<1>4. main' = "Fade" \/ (main' = "Run" /\ ready' = ready)
  BY <1>2 DEF ITask, HandleAdc, CheckRxTable, HandleButtons, HandleUsb, EnterSleep
<1>5. Single(queue', UsbIDs) /\ Single(queue', BtnIDs)
  BY <1>2, TailSingle DEF QueueStory
<1> QED
  BY <1>2, <1>3, <1>4, <1>5 DEF QueueStory

LEMMA QueueStep == TypeOK /\ TurnStory /\ QueueStory /\ [Next]_vars => QueueStory'
<1> SUFFICES ASSUME TypeOK, TurnStory, QueueStory, [Next]_vars PROVE QueueStory'
  OBVIOUS
<1>1. CASE OnAdcDoneI
  <2>1. PICK battery \in Battery : queue' = With(queue, AdcEvt(battery))
    BY <1>1 DEF OnAdcDoneI
  <2>2. AdcEvt(battery) \in Events /\ AdcEvt(battery).ID \notin UsbIDs
        /\ AdcEvt(battery).ID \notin BtnIDs
    BY EventTypes DEF UsbIDs, BtnIDs
  <2> QED
    BY <1>1, <2>1, <2>2, PostStep DEF OnAdcDoneI, power, sensors
<1>2. CASE TmrCheckRxTable
  <2>1. Evt("CheckRxTable") \in Events /\ Evt("CheckRxTable").ID \notin UsbIDs
        /\ Evt("CheckRxTable").ID \notin BtnIDs
    BY EventTypes DEF UsbIDs, BtnIDs
  <2> QED
    BY <1>2, <2>1, PostStep DEF TmrCheckRxTable, power, sensors
<1>3. CASE PollUsb \/ PollButton
  BY <1>3, PollUsbStep, PollButtonStep
<1>4. CASE ITask
  BY <1>4, HandlerStep
<1>5. CASE LedsAreOff
  BY <1>5, EmptyQueue DEF LedsAreOff, QueueStory
<1>6. CASE StartUp \/ FailureShown
  BY <1>6, NoneIsSingle DEF StartUp, FailureShown, sensors, QueueStory
<1>7. CASE WakeByButton \/ WakeByCable \/ BackToStandby \/ PressedLongEnough
  BY <1>7 DEF WakeByButton, WakeByCable, BackToStandby, PressedLongEnough, sensors, QueueStory
<1>8. CASE SleepOver
  <2>1. UNCHANGED <<main, poll, queue>> /\ ready \in Turns
        /\ ready' = Append(ready, "Sensors") /\ ~ReadyIn(ready, "Sensors")
    BY <1>8, TurnNow DEF SleepOver, TypeOK, power, sensors
  <2>2. First(ready, "Main") => First(ready', "Main")
    BY <2>1, TurnBehind DEF Threads
  <2> QED
    BY <2>1, <2>2 DEF QueueStory
<1>9. CASE WaitForEvent
  <2>1. UNCHANGED <<main, poll, queue>> /\ None(queue, UsbIDs) /\ None(queue, BtnIDs)
    BY <1>9, EmptyQueue DEF WaitForEvent, power, sensors
  <2> QED
    BY <2>1 DEF QueueStory
<1>10. CASE Press \/ ReleaseButton \/ ChargerSwitches \/ FailureEnds \/ UNCHANGED vars
  <2>1. UNCHANGED <<main, ready, queue, poll>>
    BY <1>10 DEF Press, ReleaseButton, ChargerSwitches, FailureEnds, vars, power, sensors
  <2> QED
    BY <2>1 DEF QueueStory
<1> QED
  BY <1>1, <1>2, <1>3, <1>4, <1>5, <1>6, <1>7, <1>8, <1>9, <1>10 DEF Next

LEMMA QueueCorrect == Spec => [](TurnStory /\ QueueStory)
<1>1. Init => TurnStory /\ QueueStory
  BY EmptyQueue DEF Init, TurnStory, QueueStory
<1>2. TypeOK /\ TurnStory /\ QueueStory /\ [Next]_vars => TurnStory' /\ QueueStory'
  BY TurnStep, QueueStep
<1> QED
  BY <1>1, <1>2, TypeCorrect, PTL DEF Spec

(* SimpleSensors.cpp:50, 64, chschd.c:218: threads of one priority take    *)
(* turns in the order in which they were made ready, so main serves the    *)
(* event of a pin before the next poll begins, although the queue need not *)
(* be empty, may even be full, when a poll begins: the event that main     *)
(* fetches is the last one of that pin.                                    *)
THEOREM PinEventsCorrect == Spec => []FreshPinEvents
<1>1. TypeOK /\ QueueStory => FreshPinEvents
  BY DEF TypeOK, QueueStory, FreshPinEvents, AtMostOne, PlacesOf, Single, UsbIDs, BtnIDs
<1> QED
  BY <1>1, TypeCorrect, QueueCorrect, PTL

-----------------------------------------------------------------------------
(***************************************************************************)
(* What the lights show: the safety core of LightsSettle.                  *)
(***************************************************************************)
Inds == [SomeoneIsNear : BOOLEAN, UsbConnected : BOOLEAN,
         IsCharging : BOOLEAN, IsDischarged : BOOLEAN]

(* What Process sets for an indication.                                    *)
NearOf(i) == i.SomeoneIsNear /\ ~i.UsbConnected /\ ~i.IsCharging
GemOf(i) == CASE NearOf(i) -> "Blue"
              [] i.UsbConnected /\ ~i.IsCharging -> "Green"
              [] i.UsbConnected /\ i.IsCharging -> "Blink"
              [] OTHER -> "Black"
LumosOf(i) == CASE i.IsCharging -> "Charging"
                [] i.IsDischarged /\ ~i.IsCharging -> "Discharged"
                [] OTHER -> "Idle"

(* The lights show Indication, unless the sword fades out.  A failure of   *)
(* the radio is shown before anything else is known, and the blade may     *)
(* have been switched off by a connected cable.                            *)
ShowsInd ==
  /\ gem = GemOf(ind)
  /\ blade = "Indi" => NearOf(ind)
  /\ lumos = LumosOf(ind) \/ (lumos = "Failure" /\ ind = AllOff)

(* An event of the USB pin in the queue is true when it is served.         *)
UsbTruth ==
  /\ ~UsbIsConnected => None(queue, {"UsbConnect"})
  /\ UsbIsConnected => None(queue, {"UsbDisconnect"})

LightStory ==
  /\ main # "Fade" => ShowsInd
  /\ main \notin {"Run", "Fade"} => ind = AllOff
  /\ main = "Run" => UsbTruth

LEMMA AllOffShown ==
  /\ AllOff \in Inds /\ ~NearOf(AllOff) /\ GemOf(AllOff) = "Black" /\ LumosOf(AllOff) = "Idle"
  BY DEF AllOff, NearOf, GemOf, LumosOf, Inds

LEMMA ProcessShows == ASSUME NEW i, Process(i) PROVE ShowsInd' /\ ind' = i
  BY DEF Process, ShowsInd, NearOf, GemOf, LumosOf

LEMMA GemValues ==
  ASSUME NEW i \in Inds
  PROVE  /\ GemOf(i) = "Blue" <=> NearOf(i)
         /\ GemOf(i) = "Blink" <=> i.UsbConnected /\ i.IsCharging
         /\ GemOf(i) = "Green" <=> i.UsbConnected /\ ~i.IsCharging
         /\ LumosOf(i) = "Charging" <=> i.IsCharging
         /\ LumosOf(i) = "Discharged" <=> i.IsDischarged /\ ~i.IsCharging
  BY DEF NearOf, GemOf, LumosOf, Inds

(* Lights that Process has just set for the pins as they are.              *)
LEMMA ProcessSettles ==
  ASSUME NEW i \in Inds, Process(i), i.UsbConnected = UsbIsConnected', i.IsCharging = chgPin'
  PROVE  Settled'
<1>1. ind' = i /\ blade' = (IF NearOf(i) THEN "Indi" ELSE "Black")
      /\ gem' = GemOf(i) /\ lumos' = LumosOf(i)
  BY DEF Process, NearOf, GemOf, LumosOf
<1>2. NearOf(i) <=> ind'.SomeoneIsNear /\ ~UsbIsConnected' /\ ~chgPin'
  BY <1>1 DEF NearOf
<1>3. blade' = "Indi" <=> NearOf(i)
  BY <1>1
<1>4. /\ gem' = "Blue" <=> NearOf(i)
      /\ gem' = "Blink" <=> UsbIsConnected' /\ chgPin'
      /\ gem' = "Green" <=> UsbIsConnected' /\ ~chgPin'
      /\ lumos' = "Charging" <=> chgPin'
      /\ lumos' = "Discharged" <=> ind'.IsDischarged /\ ~chgPin'
  BY <1>1, GemValues
<1> QED
  BY <1>2, <1>3, <1>4 DEF Settled

(* Each event of the ADC that is served in Run sets the lights right,      *)
(* whatever was lost before it.                                            *)
AdcSettles == HandleAdc /\ main' = "Run" /\ chgPin' = chgPin => Settled'

LEMMA AdcStep == TypeOK => AdcSettles
<1> SUFFICES ASSUME TypeOK, HandleAdc, main' = "Run", chgPin' = chgPin PROVE Settled'
  BY DEF AdcSettles
<1> DEFINE i == [ind EXCEPT !.UsbConnected = UsbIsConnected, !.IsCharging = chgPin,
                            !.IsDischarged = (Head(queue).value # "Ok")]
<1>1. OnPwr(chgPin, Head(queue).value)
  BY DEF HandleAdc, EnterSleep
<1>2. Process(i)
  BY <1>1 DEF OnPwr
<1>3. i \in Inds /\ i.UsbConnected = UsbIsConnected /\ i.IsCharging = chgPin
  BY DEF Inds, TypeOK
<1>4. UsbIsConnected' = UsbIsConnected
  BY DEF HandleAdc, Fetched, sensors
<1> HIDE DEF i
<1> QED
  BY <1>2, <1>3, <1>4, ProcessSettles

(* Lights that are right tell that Indication is.                          *)
LEMMA SettledKnows ==
  ASSUME TypeOK, ShowsInd, Settled
  PROVE  ind.UsbConnected = UsbIsConnected /\ ind.IsCharging = chgPin
<1>0. ind \in Inds /\ UsbIsConnected \in BOOLEAN /\ chgPin \in BOOLEAN
      /\ ind.UsbConnected \in BOOLEAN /\ ind.IsCharging \in BOOLEAN
  BY DEF TypeOK, Inds
<1>1. ind.IsCharging <=> chgPin
  <2>1. CASE lumos = LumosOf(ind)
    BY <1>0, <2>1, GemValues DEF Settled
  <2>2. CASE lumos = "Failure" /\ ind = AllOff
    BY <2>2 DEF Settled, AllOff
  <2> QED
    BY <2>1, <2>2 DEF ShowsInd
<1>2. ind.UsbConnected <=> UsbIsConnected
  BY <1>0, <1>1, GemValues DEF Settled, ShowsInd
<1> QED
  BY <1>0, <1>1, <1>2

LEMMA TailNone ==
  ASSUME NEW q \in Seq(Events), q # <<>>, NEW ids, None(q, ids)
  PROVE  None(Tail(q), ids)
  BY DEF None

LEMMA LightInit == Init => LightStory
<1> SUFFICES ASSUME Init PROVE LightStory
  OBVIOUS
<1>1. ShowsInd /\ ind = AllOff
  BY AllOffShown DEF Init, ShowsInd
<1>2. UsbTruth
  BY EmptyQueue DEF Init, UsbTruth
<1> QED
  BY <1>1, <1>2 DEF LightStory

(* The queue under the steps that post or fetch in Run.                    *)
LEMMA TruthKept ==
  ASSUME TypeOK, UsbTruth, UsbIsConnected' = UsbIsConnected,
         \/ queue' = queue
         \/ queue # <<>> /\ queue' = Tail(queue)
         \/ \E evt \in Events : evt.ID \notin UsbIDs /\ queue' = With(queue, evt)
  PROVE  UsbTruth'
<1>0. queue \in Seq(Events)
  BY DEF TypeOK
<1>1. CASE queue' = queue
  BY <1>1 DEF UsbTruth
<1>2. CASE queue # <<>> /\ queue' = Tail(queue)
  BY <1>0, <1>2, TailNone DEF UsbTruth
<1>3. CASE \E evt \in Events : evt.ID \notin UsbIDs /\ queue' = With(queue, evt)
  <2>1. PICK evt \in Events : evt.ID \notin UsbIDs /\ queue' = With(queue, evt)
    BY <1>3
  <2>2. evt.ID \notin {"UsbConnect"} /\ evt.ID \notin {"UsbDisconnect"}
    BY <2>1 DEF UsbIDs
  <2> QED
    BY <1>0, <2>1, <2>2, WithNone DEF UsbTruth
<1> QED
  BY <1>1, <1>2, <1>3

(* ProcessUsbDetect, which begins when main has served its last event.     *)
LEMMA PollUsbTruth ==
  ASSUME TypeOK, QueueStory, PollUsb, main = "Run"
  PROVE  UsbTruth'
<1>1. None(queue, {"UsbConnect"}) /\ None(queue, {"UsbDisconnect"}) /\ queue \in Seq(Events)
  BY PollBegins DEF None, UsbIDs
<1>2. PICK isHi \in BOOLEAN :
        /\ UsbIsConnected' = isHi
        /\ queue' = IF isHi = UsbIsConnected THEN queue
                    ELSE With(queue, Evt(IF isHi THEN "UsbConnect" ELSE "UsbDisconnect"))
  BY DEF PollUsb
<1>3. CASE queue' = queue
  BY <1>1, <1>3 DEF UsbTruth
<1>4. CASE isHi /\ queue' = With(queue, Evt("UsbConnect"))
  <2>1. Evt("UsbConnect") \in Events /\ Evt("UsbConnect").ID \notin {"UsbDisconnect"}
    BY EventTypes
  <2> QED
    BY <1>1, <1>2, <1>4, <2>1, WithNone DEF UsbTruth
<1>5. CASE ~isHi /\ queue' = With(queue, Evt("UsbDisconnect"))
  <2>1. Evt("UsbDisconnect") \in Events /\ Evt("UsbDisconnect").ID \notin {"UsbConnect"}
    BY EventTypes
  <2> QED
    BY <1>1, <1>2, <1>5, <2>1, WithNone DEF UsbTruth
<1> QED
  BY <1>2, <1>3, <1>4, <1>5

(* Events whose ID is not one of the pin.                                  *)
LEMMA OtherPosts ==
  /\ TypeOK /\ OnAdcDoneI => \E evt \in Events : evt.ID \notin UsbIDs /\ queue' = With(queue, evt)
  /\ TypeOK /\ TmrCheckRxTable =>
       \E evt \in Events : evt.ID \notin UsbIDs /\ queue' = With(queue, evt)
  /\ TypeOK /\ PollButton =>
       \/ queue' = queue
       \/ \E evt \in Events : evt.ID \notin UsbIDs /\ queue' = With(queue, evt)
<1>1. ASSUME OnAdcDoneI
      PROVE  \E evt \in Events : evt.ID \notin UsbIDs /\ queue' = With(queue, evt)
  <2>1. PICK battery \in Battery : queue' = With(queue, AdcEvt(battery))
    BY <1>1 DEF OnAdcDoneI
  <2>2. AdcEvt(battery) \in Events /\ AdcEvt(battery).ID \notin UsbIDs
    BY EventTypes DEF UsbIDs
  <2> QED
    BY <2>1, <2>2
<1>2. ASSUME TmrCheckRxTable
      PROVE  \E evt \in Events : evt.ID \notin UsbIDs /\ queue' = With(queue, evt)
  <2>1. Evt("CheckRxTable") \in Events /\ Evt("CheckRxTable").ID \notin UsbIDs
    BY EventTypes DEF UsbIDs
  <2> QED
    BY <1>2, <2>1 DEF TmrCheckRxTable
<1>3. ASSUME TypeOK, PollButton
      PROVE  \/ queue' = queue
             \/ \E evt \in Events : evt.ID \notin UsbIDs /\ queue' = With(queue, evt)
  <2>1. PICK periods \in 1 .. LongPolls : ProcessButtons(periods)
    BY <1>3 DEF PollButton
  <2>2. PICK type \in {"LongPress", "Release"} :
          queue' = queue \/ queue' = With(queue, BtnEvt(type))
    BY <1>3, <2>1, ButtonCases
  <2>3. BtnEvt(type) \in Events /\ BtnEvt(type).ID \notin UsbIDs
    BY EventTypes DEF UsbIDs
  <2> QED
    BY <2>2, <2>3
<1> QED
  BY <1>1, <1>2, <1>3

(* What the handlers do to the lights.                                     *)
LEMMA HandlerLights ==
  ASSUME TypeOK, ShowsInd, ITask
  PROVE  main' = "Fade" \/ (main' = "Run" /\ ShowsInd')
<1>0. main = "Run"
  BY DEF ITask, HandleAdc, CheckRxTable, HandleButtons, HandleUsb, Fetched
<1>1. CASE HandleAdc
  <2>1. EnterSleep \/ (OnPwr(chgPin, Head(queue).value) /\ main' = main)
    BY <1>1 DEF HandleAdc
  <2> QED
    BY <1>0, <2>1, ProcessShows DEF OnPwr, EnterSleep
<1>2. CASE CheckRxTable
  BY <1>0, <1>2, ProcessShows DEF CheckRxTable
<1>3. CASE HandleButtons
  BY <1>0, <1>3 DEF HandleButtons, EnterSleep, lights, ShowsInd
<1>4. CASE HandleUsb
  BY <1>0, <1>4 DEF HandleUsb, ShowsInd
<1> QED
  BY <1>1, <1>2, <1>3, <1>4 DEF ITask

LEMMA LightStep == TypeOK /\ QueueStory /\ LightStory /\ [Next]_vars => LightStory'
<1> SUFFICES ASSUME TypeOK, QueueStory, LightStory, [Next]_vars PROVE LightStory'
  OBVIOUS
<1>1. ASSUME UNCHANGED <<main, lights>>, main = "Run" => UsbTruth'
      PROVE  LightStory'
  BY <1>1 DEF LightStory, ShowsInd, lights
<1>2. CASE OnAdcDoneI \/ TmrCheckRxTable \/ PollButton
  <2>1. UNCHANGED <<main, lights, UsbIsConnected>>
    BY <1>2 DEF OnAdcDoneI, TmrCheckRxTable, PollButton, power, sensors
  <2>2. main = "Run" => UsbTruth'
    BY <1>2, <2>1, TruthKept, OtherPosts DEF LightStory
  <2> QED
    BY <1>1, <2>1, <2>2
<1>3. CASE PollUsb
  BY <1>1, <1>3, PollUsbTruth DEF PollUsb, power
<1>4. CASE ITask
  <2>1. /\ main = "Run" /\ queue # <<>> /\ queue' = Tail(queue)
        /\ UsbIsConnected' = UsbIsConnected
    BY <1>4 DEF ITask, HandleAdc, CheckRxTable, HandleButtons, HandleUsb, Fetched, sensors
  <2>2. UsbTruth'
    BY <2>1, TruthKept DEF LightStory
  <2>3. main' = "Fade" \/ (main' = "Run" /\ ShowsInd')
    BY <1>4, <2>1, HandlerLights DEF LightStory
  <2> QED
    BY <2>2, <2>3 DEF LightStory
<1>5. CASE LedsAreOff
  <2>1. ShowsInd' /\ ind' = AllOff
    BY <1>5, AllOffShown DEF LedsAreOff, ShowsInd
  <2> QED
    BY <1>5, <2>1 DEF LedsAreOff, LightStory
<1>6. CASE StartUp \/ FailureShown
  <2>1. None(queue, {"UsbConnect"}) /\ None(queue, {"UsbDisconnect"})
    BY <1>6 DEF StartUp, FailureShown, QueueStory, None, UsbIDs
  <2>2. UNCHANGED <<queue, UsbIsConnected>>
    BY <1>6 DEF StartUp, FailureShown, sensors
  <2>3. UsbTruth'
    BY <2>1, <2>2 DEF UsbTruth
  <2>4. ind = AllOff /\ ShowsInd /\ UNCHANGED <<ind, blade, gem>>
        /\ (lumos' = lumos \/ lumos' = "Failure")
    BY <1>6 DEF StartUp, FailureShown, EnterITask, LightStory, lights
  <2>5. ShowsInd'
    BY <2>4 DEF ShowsInd
  <2> QED
    BY <2>3, <2>4, <2>5 DEF LightStory
<1>7. CASE WakeByButton \/ WakeByCable \/ BackToStandby \/ PressedLongEnough
  BY <1>7 DEF WakeByButton, WakeByCable, BackToStandby, PressedLongEnough, lights, LightStory,
     ShowsInd
<1>8. CASE FailureEnds
  <2>1. UNCHANGED <<main, queue, UsbIsConnected, ind, blade, gem>>
        /\ lumos = "Failure" /\ lumos' = "Idle"
    BY <1>8 DEF FailureEnds, power, sensors
  <2>2. ShowsInd => ind = AllOff
    BY <2>1 DEF ShowsInd, LumosOf
  <2>3. ShowsInd => ShowsInd'
    BY <2>1, <2>2, AllOffShown DEF ShowsInd
  <2>4. UsbTruth => UsbTruth'
    BY <2>1 DEF UsbTruth
  <2> QED
    BY <2>1, <2>3, <2>4 DEF LightStory
<1>9. CASE Press \/ ReleaseButton \/ ChargerSwitches \/ SleepOver \/ WaitForEvent
           \/ UNCHANGED vars
  <2>1. UNCHANGED <<main, lights, queue, UsbIsConnected>>
    BY <1>9 DEF Press, ReleaseButton, ChargerSwitches, SleepOver, WaitForEvent, vars, power,
                sensors
  <2> QED
    BY <1>1, <2>1 DEF LightStory, UsbTruth
<1> QED
  BY <1>2, <1>3, <1>4, <1>5, <1>6, <1>7, <1>8, <1>9 DEF Next

(* Lights that are right stay so, whatever is served and lost, until the   *)
(* pin of USB or that of the charger changes.                              *)
StaysSettled ==
  main = "Run" /\ main' = "Run" /\ Settled /\ UNCHANGED <<UsbIsConnected, chgPin>> => Settled'

LEMMA SettledStep ==
  ASSUME TypeOK, QueueStory, LightStory, [Next]_vars
  PROVE  StaysSettled
<1> SUFFICES ASSUME main = "Run", main' = "Run", Settled, UsbIsConnected' = UsbIsConnected,
                    chgPin' = chgPin
             PROVE  Settled'
  BY DEF StaysSettled
<1>0. ShowsInd /\ UsbTruth
  BY DEF LightStory
<1>1. ASSUME UNCHANGED lights PROVE Settled'
  BY <1>1 DEF Settled, lights
<1>2. CASE HandleAdc
  BY <1>2, AdcStep DEF AdcSettles
<1>3. CASE CheckRxTable
  <2>1. PICK near \in BOOLEAN : Process([ind EXCEPT !.SomeoneIsNear = near])
    BY <1>3 DEF CheckRxTable
  <2> DEFINE i == [ind EXCEPT !.SomeoneIsNear = near]
  <2>2. i \in Inds /\ i.UsbConnected = ind.UsbConnected /\ i.IsCharging = ind.IsCharging
    BY DEF Inds, TypeOK
  <2>3. i.UsbConnected = UsbIsConnected' /\ i.IsCharging = chgPin'
    BY <1>0, <2>2, SettledKnows
  <2> HIDE DEF i
  <2> QED
    BY <2>1, <2>2, <2>3, ProcessSettles DEF i
<1>4. CASE HandleButtons
  BY <1>1, <1>4 DEF HandleButtons, EnterSleep
<1>5. CASE HandleUsb
  <2>1. UNCHANGED <<ind, gem, lumos>> /\ queue # <<>> /\ queue \in Seq(Events)
        /\ \/ blade' = blade
           \/ blade' = "Black" /\ Head(queue).ID = "UsbConnect"
    BY <1>5 DEF HandleUsb, Fetched, TypeOK
  <2>2. CASE blade' = blade
    BY <1>1, <2>1, <2>2 DEF lights
  <2>3. CASE blade' = "Black" /\ Head(queue).ID = "UsbConnect"
    <3>1. 1 \in 1 .. Len(queue) /\ queue[1].ID = "UsbConnect"
      BY <2>1, <2>3
    <3>2. UsbIsConnected
      BY <1>0, <3>1 DEF UsbTruth, None
    <3> QED
      BY <2>1, <2>3, <3>2 DEF Settled
  <2> QED
    BY <2>1, <2>2, <2>3
<1>6. CASE FailureEnds
  BY <1>6 DEF FailureEnds, Settled
<1>7. CASE \/ OnAdcDoneI \/ TmrCheckRxTable \/ SleepOver \/ PollUsb \/ PollButton
           \/ WaitForEvent \/ Press \/ ReleaseButton \/ ChargerSwitches \/ FailureShown
           \/ UNCHANGED vars
  BY <1>1, <1>7 DEF OnAdcDoneI, TmrCheckRxTable, SleepOver, PollUsb, PollButton, WaitForEvent,
     Press, ReleaseButton, ChargerSwitches, FailureShown, vars
<1>8. CASE \/ StartUp \/ LedsAreOff \/ WakeByButton \/ WakeByCable \/ BackToStandby
           \/ PressedLongEnough
  BY <1>8 DEF StartUp, LedsAreOff, WakeByButton, WakeByCable, BackToStandby, PressedLongEnough
<1> QED
  BY <1>2, <1>3, <1>4, <1>5, <1>6, <1>7, <1>8 DEF Next, ITask

(* LightsSettle: each event of the ADC sets the lights right (main.cpp,    *)
(* OnPwr), and no other event, none that was lost, and no stale one of the *)
(* USB pin ever sets them wrong again; only the pins can.                  *)
THEOREM LightsCorrect == Spec => []LightStory /\ [][AdcSettles /\ StaysSettled]_vars
<1>1. TypeOK /\ QueueStory /\ LightStory /\ [Next]_vars => AdcSettles /\ StaysSettled
  BY AdcStep, SettledStep
<1> QED
  BY <1>1, LightInit, LightStep, QueueCorrect, TypeCorrect, PTL DEF Spec

-----------------------------------------------------------------------------
(***************************************************************************)
(* The events of the ADC, which keep the watchdog quiet and end the sword  *)
(* with its battery: the safety core of WatchdogFed and DeadBatterySleeps. *)
(***************************************************************************)
FirstAdc(k) ==
  /\ k \in 1 .. Len(queue) /\ queue[k].ID = "ADC"
  /\ \A j \in 1 .. k - 1 : queue[j].ID # "ADC"

(* How far main is from it: the events before and including it, and the    *)
(* polls that SensorsThread has the turn for before main has.              *)
AdcAway(k) == k + IF First(ready, "Main") THEN 0 ELSE IF poll = "Usb" THEN 2 ELSE 1

(* The first event of the ADC in the queue is served next, and then a dead *)
(* battery without a cable does not leave the sword in Run; or it keeps    *)
(* its value and its distance, and each step of main, and of               *)
(* SensorsThread, brings main closer to it.                                *)
AdcComesThrough ==
  main = "Run" /\ main' = "Run" =>
    \A k \in Nat : FirstAdc(k) =>
      \/ HandleAdc /\ (queue[k].value = "Dead" => UsbIsConnected \/ chgPin')
      \/ \E j \in Nat :
           /\ FirstAdc(j)' /\ queue'[j] = queue[k]
           /\ AdcAway(j)' <= AdcAway(k)
           /\ ITask \/ PollUsb \/ PollButton => AdcAway(j)' < AdcAway(k)

LEMMA FirstAdcStays ==
  ASSUME TypeOK, NEW k \in Nat, FirstAdc(k),
         queue' = queue \/ \E evt \in Events : queue' = With(queue, evt)
  PROVE  FirstAdc(k)' /\ queue'[k] = queue[k]
<1>1. /\ Len(queue) \in Nat /\ Len(queue') \in Nat /\ Len(queue) <= Len(queue')
      /\ \A i \in 1 .. Len(queue) : queue'[i] = queue[i]
  BY DEF TypeOK, With
<1>2. k \in 1 .. Len(queue) /\ \A j \in 1 .. k - 1 : j \in 1 .. Len(queue)
  BY <1>1 DEF FirstAdc
<1> QED
  BY <1>1, <1>2 DEF FirstAdc

LEMMA FirstAdcMoves ==
  ASSUME TypeOK, NEW k \in Nat, FirstAdc(k), queue' = Tail(queue), Head(queue).ID # "ADC"
  PROVE  k - 1 \in Nat /\ FirstAdc(k - 1)' /\ queue'[k - 1] = queue[k]
<1>1. /\ queue \in Seq(Events) /\ k \in 1 .. Len(queue) /\ queue[k].ID = "ADC"
      /\ \A j \in 1 .. k - 1 : queue[j].ID # "ADC"
  BY DEF TypeOK, FirstAdc
<1>2. queue # <<>> /\ Head(queue) = queue[1] /\ Len(queue) \in Nat
  BY <1>1
<1>3. k # 1 /\ k - 1 \in Nat
  BY <1>1, <1>2
<1>4. Len(queue') = Len(queue) - 1 /\ \A i \in 1 .. Len(queue) - 1 : queue'[i] = queue[i + 1]
  BY <1>1, <1>2
<1>5. k - 1 \in 1 .. Len(queue') /\ queue'[k - 1] = queue[k]
  BY <1>1, <1>3, <1>4
<1>6. ASSUME NEW j \in 1 .. (k - 1) - 1 PROVE queue'[j].ID # "ADC"
  <2>1. j + 1 \in 1 .. k - 1 /\ queue'[j] = queue[j + 1]
    BY <1>1, <1>2, <1>4, <1>6
  <2> QED
    BY <1>1, <2>1
<1> QED
  BY <1>1, <1>3, <1>5, <1>6 DEF FirstAdc

LEMMA AdcStepComes == ASSUME TypeOK, TurnStory, [Next]_vars PROVE AdcComesThrough
<1> SUFFICES ASSUME main = "Run", main' = "Run", NEW k \in Nat, FirstAdc(k)
             PROVE  \/ HandleAdc /\ (queue[k].value = "Dead" => UsbIsConnected \/ chgPin')
                    \/ \E j \in Nat :
                         /\ FirstAdc(j)' /\ queue'[j] = queue[k]
                         /\ AdcAway(j)' <= AdcAway(k)
                         /\ ITask \/ PollUsb \/ PollButton => AdcAway(j)' < AdcAway(k)
  BY DEF AdcComesThrough
<1>0. /\ queue \in Seq(Events) /\ queue # <<>> /\ Head(queue) = queue[1]
      /\ ready \in Turns /\ ReadyIn(ready, "Main")
  BY DEF TypeOK, FirstAdc, TurnStory
<1>1. CASE HandleAdc
  <2>1. queue[1].ID = "ADC"
    BY <1>0, <1>1 DEF HandleAdc, Fetched
  <2>2. k = 1
    BY <2>1 DEF FirstAdc
  <2>3. ~(~chgPin' /\ ~UsbIsConnected /\ Head(queue).value = "Dead")
    BY <1>1 DEF HandleAdc, EnterSleep
  <2> QED
    BY <1>0, <1>1, <2>2, <2>3
<1>2. CASE ITask /\ ~HandleAdc
  <2>1. /\ queue' = Tail(queue) /\ Head(queue).ID # "ADC" /\ ready' = ready
        /\ First(ready, "Main")
    BY <1>2, TurnNow DEF ITask, CheckRxTable, HandleButtons, HandleUsb, Fetched, EnterSleep
  <2>2. k - 1 \in Nat /\ FirstAdc(k - 1)' /\ queue'[k - 1] = queue[k]
    BY <2>1, FirstAdcMoves
  <2>3. AdcAway(k - 1)' < AdcAway(k) /\ AdcAway(k - 1)' <= AdcAway(k)
    BY <2>1, <2>2 DEF AdcAway
  <2> QED
    BY <2>2, <2>3
<1>3. CASE PollButton
  <2>1. queue' = queue \/ \E evt \in Events : queue' = With(queue, evt)
    BY <1>3, OtherPosts
  <2>2. FirstAdc(k)' /\ queue'[k] = queue[k] /\ queue' # <<>>
    BY <2>1, FirstAdcStays DEF FirstAdc
  <2>3. poll = "Button" /\ First(ready, "Sensors") /\ First(ready', "Main")
    BY <1>0, <1>3, <2>2, TurnNow, WokenAfter DEF PollButton
  <2>4. AdcAway(k)' < AdcAway(k) /\ AdcAway(k)' <= AdcAway(k)
    BY <2>3, TurnNow DEF AdcAway
  <2> QED
    BY <2>2, <2>4
<1>4. CASE PollUsb
  <2>1. queue' = queue \/ \E evt \in Events : queue' = With(queue, evt)
    <3>1. PICK id \in UsbIDs : queue' = queue \/ queue' = With(queue, Evt(id))
      BY <1>4 DEF PollUsb, UsbIDs
    <3> QED
      BY <3>1, EventTypes DEF UsbIDs
  <2>2. FirstAdc(k)' /\ queue'[k] = queue[k]
    BY <2>1, FirstAdcStays
  <2>3. poll = "Usb" /\ poll' = "Button" /\ First(ready, "Sensors") /\ ready' = ready
    BY <1>0, <1>4, TurnNow, WokenBehind DEF PollUsb
  <2>4. AdcAway(k)' < AdcAway(k) /\ AdcAway(k)' <= AdcAway(k)
    BY <2>3, TurnNow DEF AdcAway
  <2> QED
    BY <2>2, <2>4
<1>5. CASE ~ITask /\ ~PollButton /\ ~PollUsb
  <2>1. /\ poll' = poll
        /\ queue' = queue \/ \E evt \in Events : queue' = With(queue, evt)
        /\ First(ready', "Main") <=> First(ready, "Main")
    <3>1. CASE OnAdcDoneI \/ TmrCheckRxTable
      <4>1. poll' = poll /\ ready' = Woken(ready)
        BY <3>1 DEF OnAdcDoneI, TmrCheckRxTable, sensors
      <4> QED
        BY <1>0, <3>1, <4>1, OtherPosts, WokenBehind
    <3>2. CASE SleepOver
      <4>1. UNCHANGED <<poll, queue>> /\ ready' = Append(ready, "Sensors")
            /\ ~ReadyIn(ready, "Sensors")
        BY <3>2, TurnNow DEF SleepOver, sensors
      <4>2. First(ready, "Main")
        BY <1>0, <4>1, TurnNow DEF Threads
      <4> QED
        BY <1>0, <4>1, <4>2, TurnBehind DEF Threads
    <3>3. CASE \/ Press \/ ReleaseButton \/ ChargerSwitches \/ FailureEnds \/ UNCHANGED vars
      BY <3>3 DEF Press, ReleaseButton, ChargerSwitches, FailureEnds, vars, sensors
    <3>4. CASE \/ StartUp \/ FailureShown \/ LedsAreOff \/ WakeByButton \/ WakeByCable
               \/ BackToStandby \/ PressedLongEnough \/ WaitForEvent
      BY <1>0, <3>4 DEF StartUp, FailureShown, LedsAreOff, WakeByButton, WakeByCable,
         BackToStandby, PressedLongEnough, WaitForEvent
    <3> QED
      BY <1>5, <3>1, <3>2, <3>3, <3>4 DEF Next
  <2>2. FirstAdc(k)' /\ queue'[k] = queue[k]
    BY <2>1, FirstAdcStays
  <2>3. AdcAway(k)' <= AdcAway(k)
    BY <2>1 DEF AdcAway
  <2> QED
    BY <1>5, <2>2, <2>3
<1> QED
  BY <1>1, <1>2, <1>3, <1>4, <1>5

(* main.cpp:142, 226-239: whatever is queued, posted or refused, an event  *)
(* of the ADC that has been accepted comes through to main, which then     *)
(* reloads the watchdog, or puts the sword to sleep if the battery is dead *)
(* and nothing charges it.                                                 *)
THEOREM AdcCorrect == Spec => [][AdcComesThrough]_vars
<1>1. TypeOK /\ TurnStory /\ [Next]_vars => AdcComesThrough
  BY AdcStepComes
<1> QED
  BY <1>1, TypeCorrect, QueueCorrect, PTL DEF Spec
=============================================================================
