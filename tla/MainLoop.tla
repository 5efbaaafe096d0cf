------------------------------ MODULE MainLoop ------------------------------
(***************************************************************************)
(* The life of the sword (Tirusse_fw: main.cpp, kl_lib/SimpleSensors.cpp,  *)
(* kl_lib/buttons.cpp): power-on, the event loop of the main thread, the   *)
(* polling of the USB and button pins, the indication, standby and wake-up.*)
(*                                                                         *)
(* SensorsThread has the priority of the main thread and there is no time  *)
(* quantum: each runs until it blocks, and they take turns in the order in *)
(* which they were made ready, SensorsThread by the end of its sleep, main *)
(* by the first event in an empty queue.  The ADC and timer interrupts     *)
(* post events at any point.  What the LEDs do with a command is the       *)
(* subject of LedEffects, the verdict of a check that of SwordRadio, the   *)
(* queue that of EvtMsgQ.                                                  *)
(***************************************************************************)
EXTENDS Integers, Sequences

CONSTANTS QueueLen,   \* MAIN_EVT_Q_LEN
          LongPolls   \* polls of SNS_POLL_PERIOD_MS in BTN_LONGPRESS_DELAY_MS

ASSUME MAssumption == QueueLen \in Nat \ {0} /\ LongPolls \in Nat \ {0}

VARIABLES
  main,             \* where the main thread is, see MainPc
  ready,            \* who of "Main" and "Sensors" runs, and who is ready behind it
  queue,            \* EvtQMain
  poll,             \* what SensorsThread does next
  usbSns, btnSns,   \* States of the two pins
  IsLongPress,
  held,             \* poll periods since LongPressTimer was set
  UsbIsConnected,
  ind,              \* Indication
  blade, gem, lumos,
  btnPin, chgPin,   \* whether the button is down, and the charger at work
  told,             \* button events posted since the last press
  wakePress         \* the button has been down since it woke the sword

power == <<main, btnPin, chgPin, wakePress>>
sensors == <<poll, usbSns, btnSns, IsLongPress, held, UsbIsConnected, told>>
lights == <<ind, blade, gem, lumos>>
vars == <<power, ready, queue, sensors, lights>>

MainPc == {"Standby", "WakeUp", "PowerOn", "NoRadio", "Run", "Fade"}
Turns == {<<>>, <<"Main">>, <<"Sensors">>, <<"Main", "Sensors">>, <<"Sensors", "Main">>}
PinStates == {"None", "Lo", "Hi", "Rising", "Falling"}
Battery == {"Ok", "Low", "Dead"}

Evt(id) == [ID |-> id, value |-> "None"]
BtnEvt(type) == [ID |-> "Buttons", value |-> type]
AdcEvt(battery) == [ID |-> "ADC", value |-> battery]
Events == {Evt(id) : id \in {"CheckRxTable", "UsbConnect", "UsbDisconnect"}}
            \cup {BtnEvt(type) : type \in {"LongPress", "Release"}}
            \cup {AdcEvt(battery) : battery \in Battery}

(* A variant that drops nothing.                                           *)
WithAlways(q, evt) == Append(q, evt)

(* SendNowOrExit.                                                          *)
With(q, evt) == IF Len(q) < QueueLen THEN Append(q, evt) ELSE q

(* chSchReadyI: behind all others of the same priority.                    *)
IsReady(thread) == \E i \in DOMAIN ready : ready[i] = thread
Runs(thread) == ready # <<>> /\ Head(ready) = thread

(* An event wakes main if it sleeps in Fetch.                              *)
Woken(threads) ==
  IF main = "Run" /\ ~IsReady("Main") /\ queue' # <<>> THEN Append(threads, "Main")
  ELSE threads

AllOff == [SomeoneIsNear |-> FALSE, UsbConnected |-> FALSE,
           IsCharging |-> FALSE, IsDischarged |-> FALSE]

Init ==
  /\ main = "PowerOn" /\ btnPin = FALSE /\ chgPin = FALSE /\ wakePress = FALSE
  /\ queue = <<>> /\ ready = <<>>
  /\ poll = "Usb" /\ usbSns = "None" /\ btnSns = "None"
  /\ IsLongPress = FALSE /\ held = LongPolls /\ UsbIsConnected = FALSE
  /\ told = 0
  /\ ind = AllOff /\ blade = "Black" /\ gem = "Black" /\ lumos = "Idle"

-----------------------------------------------------------------------------
(* The user and the charger.                                               *)
Press ==
  /\ main # "Standby" /\ ~btnPin
  /\ btnPin' = TRUE
  /\ UNCHANGED <<main, chgPin, wakePress, ready, queue, sensors, lights>>

ReleaseButton ==
  /\ btnPin /\ btnPin' = FALSE
  /\ wakePress' = FALSE
  /\ UNCHANGED <<main, chgPin, ready, queue, sensors, lights>>

ChargerSwitches ==
  /\ chgPin' = ~chgPin
  /\ UNCHANGED <<main, btnPin, wakePress, ready, queue, sensors, lights>>

-----------------------------------------------------------------------------
(* Standby, and main() up to ITask.                                        *)

(* A reset by the edge of the button, or by that of USB or the charger.    *)
WakeByButton ==
  /\ main = "Standby" /\ ~btnPin
  /\ btnPin' = TRUE /\ wakePress' = TRUE
  /\ main' = "WakeUp"
  /\ UNCHANGED <<chgPin, ready, queue, sensors, lights>>

WakeByCable ==
  /\ main = "Standby"
  /\ main' = "PowerOn"
  /\ UNCHANGED <<btnPin, chgPin, wakePress, ready, queue, sensors, lights>>

(* Released too fast, or kept in pressed state long enough.                *)
BackToStandby ==
  /\ main = "WakeUp" /\ ~btnPin
  /\ main' = "Standby"
  /\ UNCHANGED <<btnPin, chgPin, wakePress, ready, queue, sensors, lights>>

PressedLongEnough ==
  /\ main = "WakeUp" /\ btnPin
  /\ main' = "PowerOn"
  /\ UNCHANGED <<btnPin, chgPin, wakePress, ready, queue, sensors, lights>>

(* SimpleSensors::Init creates SensorsThread, which waits for its turn.    *)
EnterITask == main' = "Run" /\ ready' = <<"Main", "Sensors">>

(* A variant that does not wait for the release of the button.             *)
StartUpAtOnce ==
  /\ main = "PowerOn"
  /\ \/ EnterITask /\ UNCHANGED lumos
     \/ main' = "NoRadio" /\ lumos' = "Failure" /\ UNCHANGED ready
  /\ UNCHANGED <<btnPin, chgPin, wakePress, queue, sensors, ind, blade, gem>>

(* The green flash is over and the button is up; Radio.Init.               *)
StartUp ==
  /\ main = "PowerOn" /\ ~btnPin
  /\ \/ EnterITask /\ UNCHANGED lumos
     \/ main' = "NoRadio" /\ lumos' = "Failure" /\ UNCHANGED ready
  /\ UNCHANGED <<btnPin, chgPin, wakePress, queue, sensors, ind, blade, gem>>

FailureShown ==
  /\ main = "NoRadio"
  /\ EnterITask
  /\ UNCHANGED <<btnPin, chgPin, wakePress, queue, sensors, lights>>

-----------------------------------------------------------------------------
(* The interrupts.                                                         *)
Awake == main \notin {"Standby", "WakeUp"}

(* A variant that does not disturb main while it has work to do.           *)
OnAdcDoneWhenEmpty ==
  /\ Awake /\ queue = <<>>
  /\ \E battery \in Battery : queue' = With(queue, AdcEvt(battery))
  /\ ready' = Woken(ready)
  /\ UNCHANGED <<power, sensors, lights>>

OnAdcDoneI ==
  /\ Awake
  /\ \E battery \in Battery : queue' = With(queue, AdcEvt(battery))
  /\ ready' = Woken(ready)
  /\ UNCHANGED <<power, sensors, lights>>

TmrCheckRxTable ==
  /\ main \in {"Run", "Fade"}
  /\ queue' = With(queue, Evt("CheckRxTable"))
  /\ ready' = Woken(ready)
  /\ UNCHANGED <<power, sensors, lights>>

-----------------------------------------------------------------------------
(* SensorsThread.                                                          *)

(* A variant in which the thread has a higher priority than main.          *)
SleepOverAhead ==
  /\ main \in {"Run", "Fade"} /\ ~IsReady("Sensors")
  /\ ready' = <<"Sensors">> \o ready
  /\ UNCHANGED <<power, queue, sensors, lights>>

(* SNS_POLL_PERIOD_MS are over.                                            *)
SleepOver ==
  /\ main \in {"Run", "Fade"} /\ ~IsReady("Sensors")
  /\ ready' = Append(ready, "Sensors")
  /\ UNCHANGED <<power, queue, sensors, lights>>

NextPinState(state, isHi) ==
  CASE isHi /\ state \in {"Lo", "Falling"} -> "Rising"
    [] isHi /\ state \notin {"Lo", "Falling"} -> "Hi"
    [] ~isHi /\ state \in {"Hi", "Rising"} -> "Falling"
    [] ~isHi /\ state \notin {"Hi", "Rising"} -> "Lo"

(* ProcessUsbDetect: the pins of the first group.                          *)
PollUsb ==
  /\ Runs("Sensors") /\ poll = "Usb"
  /\ \E isHi \in BOOLEAN :
       /\ usbSns' = NextPinState(usbSns, isHi)
       /\ UsbIsConnected' = isHi
       /\ queue' = IF isHi = UsbIsConnected THEN queue
                   ELSE With(queue, Evt(IF isHi THEN "UsbConnect" ELSE "UsbDisconnect"))
  /\ ready' = Woken(ready)
  /\ poll' = "Button"
  /\ UNCHANGED <<power, btnSns, IsLongPress, held, told, lights>>

(* The button has been down for another so many poll periods: more than    *)
(* one if main kept SensorsThread waiting.                                 *)
HeldFor(periods) == IF held + periods < LongPolls THEN held + periods ELSE LongPolls

(* A variant that reports every release.                                   *)
ProcessButtonsEveryRelease(periods) ==
  CASE btnSns' = "Rising" ->
         /\ IsLongPress' = FALSE /\ held' = 0 /\ told' = 0
         /\ UNCHANGED queue
    [] btnSns' = "Falling" ->
         /\ queue' = With(queue, BtnEvt("Release")) /\ told' = told + 1
         /\ UNCHANGED <<IsLongPress, held>>
    [] btnSns' = "Hi" /\ ~IsLongPress /\ HeldFor(periods) = LongPolls ->
         /\ IsLongPress' = TRUE /\ held' = LongPolls
         /\ queue' = With(queue, BtnEvt("LongPress")) /\ told' = told + 1
    [] OTHER ->
         /\ held' = HeldFor(periods)
         /\ UNCHANGED <<IsLongPress, queue, told>>

ProcessButtons(periods) ==
  CASE btnSns' = "Rising" ->
         /\ IsLongPress' = FALSE /\ held' = 0 /\ told' = 0
         /\ UNCHANGED queue
    [] btnSns' = "Falling" /\ ~IsLongPress ->
         /\ queue' = With(queue, BtnEvt("Release")) /\ told' = told + 1
         /\ UNCHANGED <<IsLongPress, held>>
    [] btnSns' = "Hi" /\ ~IsLongPress /\ HeldFor(periods) = LongPolls ->
         /\ IsLongPress' = TRUE /\ held' = LongPolls
         /\ queue' = With(queue, BtnEvt("LongPress")) /\ told' = told + 1
    [] OTHER ->
         /\ held' = HeldFor(periods)
         /\ UNCHANGED <<IsLongPress, queue, told>>

PollButton ==
  /\ Runs("Sensors") /\ poll = "Button"
  /\ btnSns' = NextPinState(btnSns, btnPin)
  /\ \E periods \in 1 .. LongPolls : ProcessButtons(periods)
  /\ poll' = "Usb"
  /\ ready' = Woken(Tail(ready))   \* SensorsThread sleeps
  /\ UNCHANGED <<power, usbSns, UsbIsConnected, lights>>

-----------------------------------------------------------------------------
(* The event loop, ITask.                                                  *)

(* Indication_t::Process.                                                  *)
Process(i) ==
  LET near == i.SomeoneIsNear /\ ~i.UsbConnected /\ ~i.IsCharging
  IN  /\ ind' = i
      /\ blade' = IF near THEN "Indi" ELSE "Black"
      /\ gem' = CASE near -> "Blue"
                  [] i.UsbConnected /\ ~i.IsCharging -> "Green"
                  [] i.UsbConnected /\ i.IsCharging -> "Blink"
                  [] OTHER -> "Black"
      /\ lumos' = CASE i.IsCharging -> "Charging"
                    [] i.IsDischarged /\ ~i.IsCharging -> "Discharged"
                    [] OTHER -> "Idle"

OnPwr(charging, battery) ==
  Process([ind EXCEPT !.UsbConnected = UsbIsConnected, !.IsCharging = charging,
                      !.IsDischarged = (battery # "Ok")])

(* EnterSleep, up to its waits, for the radio and for the LEDs.            *)
EnterSleep ==
  /\ main' = "Fade" /\ ready' = Tail(ready)
  /\ blade' = "Black" /\ gem' = "BlinkOnce"

Fetched(id) ==
  /\ main = "Run" /\ Runs("Main")
  /\ queue # <<>> /\ Head(queue).ID = id
  /\ queue' = Tail(queue)
  /\ UNCHANGED <<btnPin, wakePress, sensors>>

(* Fetch in an empty queue.                                                *)
WaitForEvent ==
  /\ main = "Run" /\ Runs("Main") /\ queue = <<>>
  /\ ready' = Tail(ready)
  /\ UNCHANGED <<power, queue, sensors, lights>>

(* Variants: one that leaves the connection to the events of the pin, and  *)
(* one that never gives up.                                                *)
HandleAdcKeepsUsb ==
  /\ Fetched("ADC")
  /\ Process([ind EXCEPT !.IsCharging = chgPin, !.IsDischarged = (Head(queue).value # "Ok")])
  /\ UNCHANGED <<main, chgPin, ready>>

HandleAdcGoesOn ==
  /\ Fetched("ADC")
  /\ OnPwr(chgPin, Head(queue).value)
  /\ UNCHANGED <<main, chgPin, ready>>

(* The pin of the charger is read again for the decision to sleep, and may *)
(* have switched.  EnterSleep sets blade and gem once more.                *)
HandleAdc ==
  /\ Fetched("ADC")
  /\ chgPin' \in BOOLEAN
  /\ IF ~chgPin' /\ ~UsbIsConnected /\ Head(queue).value = "Dead"
     THEN /\ ind' = [ind EXCEPT !.UsbConnected = FALSE, !.IsCharging = chgPin,
                                !.IsDischarged = TRUE]
          /\ lumos' = IF chgPin THEN "Charging" ELSE "Discharged"
          /\ EnterSleep
     ELSE OnPwr(chgPin, Head(queue).value) /\ UNCHANGED <<main, ready>>

CheckRxTable ==
  /\ Fetched("CheckRxTable")
  /\ \E near \in BOOLEAN : Process([ind EXCEPT !.SomeoneIsNear = near])
  /\ UNCHANGED <<main, chgPin, ready>>

HandleButtons ==
  /\ Fetched("Buttons")
  /\ IF Head(queue).value = "LongPress"
     THEN EnterSleep /\ UNCHANGED <<ind, lumos>>
     ELSE UNCHANGED <<main, ready, lights>>     \* StartBatteryIndication
  /\ UNCHANGED chgPin

HandleUsb ==
  /\ \/ Fetched("UsbConnect") /\ blade' = "Black"
     \/ Fetched("UsbDisconnect") /\ UNCHANGED blade
  /\ UNCHANGED <<main, chgPin, ready, ind, gem, lumos>>

(* Between two polls of the pins main finds the LEDs dark; EnterSleepNow.  *)
(* No memory survives standby.                                             *)
LedsAreOff ==
  /\ main = "Fade" /\ poll = "Usb"
  /\ main' = "Standby"
  /\ queue' = <<>> /\ ready' = <<>>
  /\ poll' = "Usb" /\ usbSns' = "None" /\ btnSns' = "None"
  /\ IsLongPress' = FALSE /\ held' = LongPolls /\ UsbIsConnected' = FALSE
  /\ told' = 0
  /\ ind' = AllOff /\ blade' = "Black" /\ gem' = "Black" /\ lumos' = "Idle"
  /\ UNCHANGED <<btnPin, chgPin, wakePress>>

(* lsqFailure comes to its csEnd.                                          *)
FailureEnds ==
  /\ Awake /\ lumos = "Failure"
  /\ lumos' = "Idle"
  /\ UNCHANGED <<power, ready, queue, sensors, ind, blade, gem>>

ITask == HandleAdc \/ CheckRxTable \/ HandleButtons \/ HandleUsb

Next ==
  \/ Press \/ ReleaseButton \/ ChargerSwitches
  \/ WakeByButton \/ WakeByCable \/ BackToStandby \/ PressedLongEnough
  \/ StartUp \/ FailureShown
  \/ OnAdcDoneI \/ TmrCheckRxTable
  \/ SleepOver \/ PollUsb \/ PollButton
  \/ ITask \/ WaitForEvent \/ LedsAreOff \/ FailureEnds

Spec == Init /\ [][Next]_vars

(* Fairness: threads go on; the ADC, once a second, does not always meet a *)
(* full queue, which main empties within milliseconds; LedsAreOff is what  *)
(* LedEffects shows of WaitLedsOff.                                        *)
AdcPosts == Len(queue) < QueueLen /\ OnAdcDoneI
FairSpec ==
  /\ Spec
  /\ WF_vars(ITask) /\ WF_vars(WaitForEvent)
  /\ WF_vars(PollUsb) /\ WF_vars(PollButton) /\ WF_vars(LedsAreOff)
  /\ SF_vars(AdcPosts) /\ WF_vars(FailureEnds)

-----------------------------------------------------------------------------
TypeOK ==
  /\ main \in MainPc
  /\ ready \in Turns
  /\ queue \in Seq(Events) /\ Len(queue) <= QueueLen
  /\ poll \in {"Usb", "Button"}
  /\ usbSns \in PinStates /\ btnSns \in PinStates
  /\ IsLongPress \in BOOLEAN /\ held \in 0 .. LongPolls
  /\ UsbIsConnected \in BOOLEAN
  /\ ind \in [SomeoneIsNear : BOOLEAN, UsbConnected : BOOLEAN,
              IsCharging : BOOLEAN, IsDischarged : BOOLEAN]
  /\ blade \in {"Black", "Indi"}
  /\ gem \in {"Black", "Blue", "Green", "Blink", "BlinkOnce"}
  /\ lumos \in {"Idle", "Charging", "Discharged", "Failure"}
  /\ btnPin \in BOOLEAN /\ chgPin \in BOOLEAN /\ wakePress \in BOOLEAN
  /\ told \in Nat

(* A press gives exactly one event by the time it is released, a long or a *)
(* short one, also if the button was down before the first poll.           *)
OneEventPerPress == told <= 1 /\ (btnSns = "Falling" => told = 1)

(* The press that woke the sword up does not put it to sleep again: it is  *)
(* over before the pins are polled (main.cpp:205).                         *)
WakePressIsOver == wakePress => main \in {"WakeUp", "PowerOn"}

(* At most one event of each pin waits in the queue while main serves it,  *)
(* so a stale press or an outdated connection is never acted upon.         *)
PlacesOf(ids) == {i \in DOMAIN queue : queue[i].ID \in ids}
AtMostOne(ids) == \A i, j \in PlacesOf(ids) : i = j
FreshPinEvents ==
  main = "Run" => AtMostOne({"Buttons"}) /\ AtMostOne({"UsbConnect", "UsbDisconnect"})

(* Once beacons, power and battery stay as they are, the lights show them, *)
(* whatever events were lost and in whatever order the others came.        *)
Settled ==
  LET near == ind.SomeoneIsNear /\ ~UsbIsConnected /\ ~chgPin
  IN  /\ blade = "Indi" <=> near
      /\ gem = "Blue" <=> near
      /\ gem = "Blink" <=> UsbIsConnected /\ chgPin
      /\ gem = "Green" <=> UsbIsConnected /\ ~chgPin
      /\ lumos = "Charging" <=> chgPin
      /\ lumos = "Discharged" <=> ind.IsDischarged /\ ~chgPin
LightsSettle ==
  <>[](main = "Run") /\ <>[][UNCHANGED <<UsbIsConnected, chgPin, ind.SomeoneIsNear,
                                         ind.IsDischarged>>]_vars
    => <>[]Settled

(* main.cpp:142: the watchdog is reloaded by the events of the ADC.  They  *)
(* are served again and again as long as the sword runs.                   *)
WatchdogFed == []<>(main # "Run") \/ []<><<HandleAdc>>_vars

(* A battery that stays dead without a charger brings the sword to standby.*)
DeadBatterySleeps ==
  <>[](/\ ~UsbIsConnected /\ ~chgPin
       /\ \A i \in DOMAIN queue : queue[i].ID = "ADC" => queue[i].value = "Dead")
    => []<>(main # "Run")
=============================================================================
