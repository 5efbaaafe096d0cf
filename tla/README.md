# Verification of the Tirusse firmwares

The repository holds two firmwares that meet on the radio.  **Tx2_fw** runs on
the beacons (STM32F100 with a CC1101): each carries an ID and a type, all of
them keep one common time, and each sends a packet in its own slot of every
cycle.  **Tirusse_fw** runs on the sword (STM32L433 with a CC1101 and WS2812
LEDs): it listens now and then, decides whether a beacon that matters is near,
and shows it with light; it has a button, a battery, USB and a standby mode.

Both stand on ChibiOS and on the library `kl_lib`.  All names below are names
of the source.

## 1. The system

| component | state | operations | interacts with |
|---|---|---|---|
| event queue `EvtMsgQ_t` (`kl_lib/MsgQ.h`) | ring `IBuf`, `ReadPtr`, `WritePtr`, semaphores `FullSem`, `EmptySem` | `Fetch`, `SendNowOrExit(I)`, `SendWaitingAbility` | every producer (ADC, timers, button and USB sensors, UART) posts to it, mostly from interrupts; the main thread fetches |
| beacon, common time (`Tx2_fw/Radio`) | `TimeSrc`, `HopCnt`, `TimeSrcTimeout`, the timer | `AdjustRadioTimeI`, `IOnTxSlotI`, `IOnNewSupercycleI` | other beacons, by packets |
| beacon, timer and chip | registers of `RADIO_TIM`, state and callback of the CC1101 | `RTIM_IRQ_HNDLR`, `PrepareNextTx`, `RxCallback`, `TxCallback` | the two interrupts of one beacon |
| sword, radio thread (`Tirusse_fw/Radio`) | `Enabled`, `IsSleeping`, two `RxTable_t` | `ITask`, `Receive_st`, `GetRxTable`, `Stop` | the GDO0 interrupt; the main thread by the tables and `Stop()` |
| sword, main loop | `Battery_mV`, `UsbIsConnected`, `Indication` | `main`, `ITask`, `CheckRxTable`, `EnterSleep` | all events |
| LED effects | `Blade`, `Gem`, their timers, `ThdRef`, `Leds.ClrBuf`, `TransmitDone` | `Draw`, `UpdateI`, `Set*`, `WaitLedsOff` | a thread, timer callbacks, the DMA interrupt, the main thread |
| LED sequencer | `IPCurrentChunk`, `RepeatCounter`, timer | `StartOrRestart`, `StartOrContinue`, `Stop` | the main thread and its timer callback |
| pin sensors and button | `States`, `IsLongPress`, `LongPressTimer` | `SensorsThread`, `ProcessButtons`, `ProcessUsbDetect` | posts events |
| UART and shell | transmit ring, `IDmaIsIdle` | `IPutByte`, `IRQDmaTxHandler`, parser | any thread or interrupt that prints, DMA |
| ADC | two halves of a DMA buffer | `OnAdcDoneI`, `Adc2mV` | posts events that keep the watchdog quiet |
| USB mass storage, settings, motion sensor | — | — | not started by `main.cpp` |

What is hard in it: handlers preempt threads, and threads of unequal priority
preempt each other, everywhere but under `chSysLock`; a thread that was readied
by a signal runs later, or finds that its time-out fired first; the timer of a
beacon counts on while handlers read and write it; packets get lost, collide
and arrive with news that is out of date; beacons restart; and the main thread
of the sword is the only one that serves the watchdog.  `PROJECT.json` lists
each such hazard at its line with the properties that would see it go wrong.

What makes the components correct:

* queue: every accepted message is fetched once and in order; a refusal means
  the queue is full; no sleeper is forgotten;
* common time: what a beacon says of its source is true, beacons in reach of
  each other agree in the end, a dead source is forgotten;
* slots: a beacon sends in its own slot, in each cycle, and listens exactly in
  cycle 0;
* sword: a check reports what was received since the check before; standby with
  the radio off; the main thread always comes back to its events;
* LED effects: the strip goes on being refreshed, shows the last command in the
  end, and a wait for dark LEDs ends;
* button and pins: one press is one event, and what is served is not stale;
* main loop: the lights show power and beacons whatever events were dropped, the
  watchdog is served, a flat battery ends in standby;
* transmit ring: bytes leave in order, each once, and none stays behind.

## 2. The modules

| module | models | role |
|---|---|---|
| `EventChannel` | — | what the queue promises: a bounded FIFO channel |
| `EvtMsgQ` | `EvtMsgQ_t` and the ChibiOS semaphore and sleep code under it | detailed; implements `EventChannel` |
| `EvtMsgQProofs`, `EvtMsgQRefinement` | | theorems about `EvtMsgQ` |
| `TimeSync` | the common time of a network of beacons | |
| `TimeSyncDelivery` | `TimeSync` with an assumption about the radio | convergence |
| `MCTimeSync`, `MCTimeSyncDelivery` | | networks for TLC |
| `TimeSyncProofs` | | theorems about `TimeSync` and `TimeSyncDelivery` |
| `Presence` | — | what the sword promises about beacons near it |
| `SwordRadio` | radio thread, chip, GDO0 interrupt and main thread of the sword | detailed; implements `Presence` |
| `SwordRadioProofs` | | theorems about `SwordRadio` |
| `BeaconTimer` | timer registers, chip and handlers of one beacon | tick by tick |
| `MCBeaconTimer` | | the configured IDs for TLC |
| `BeaconTimerProofs` | | theorems about `BeaconTimer` |
| `LedEffects` | blade, gem, `NpxThread`, the strip's DMA, the main thread's commands | |
| `LedEffectsProofs` | | theorems about `LedEffects` |
| `MainLoop` | `main()`, `ITask`, `Indication`, pin sensors, button, standby | |
| `MainLoopProofs` | | theorems about `MainLoop` |
| `ByteStream` | — | what the debug output promises to those who print |
| `UartTx` | the transmit ring, its DMA channel and interrupt | detailed; implements `ByteStream` |
| `UartTxProofs` | | theorems about `UartTx` |

The components of the sword meet in events and calls.  `MainLoop` takes from the
others what they are shown to do: a queue that refuses when full (`EvtMsgQ`), a
check of the tables with either result (`SwordRadio`), LEDs that follow the last
command and a wait that ends (`LedEffects`).

### EvtMsgQ
One step is what runs under `chSysLock`, and the lock is given up where a
thread sleeps, so `Fetch` and `SendWaitingAbility` have a first part (the call
up to its return or its sleep) and a second one (`FetchResume`, `SendResume`).
Between them a thread is asleep (`pc` = `WtFull`, `WtEmpty`) or readied with
`MSG_OK` (`Ok...`) or `MSG_TIMEOUT` (`Tmo...`).  `TimerFires` is the callback
`wakeup` of `chschd.c`; `armed` says whose timer it may be.  `SemTake`,
`SemSleep`, `SemSignal` and `SemTimeout` are the paths of `chsem.c`.  `arg` is
the message a sleeping sender holds on its stack and `last` the result of the
last call, which `EventChannel` speaks of.  The handlers are one actor, `Isr`,
since they never sleep.

### TimeSync and TimeSyncDelivery
Every interrupt handler is one step.  A packet is in the air (`Air`) from the
slot handler that filled it in to its end, when any subset of the listeners
receives it: the others did not listen then, or its CRC failed.  What a timer
shows is reduced to whose scale it shows, `base`: each start of a beacon has a
scale of its own, and `AdjustRadioTime` copies the sender's.  The relation
`Links` says who hears whom.  `TimeSrcTimeout` is stopped behind its limit; the
code lets it run to 2^32.  `PowerDown` and `PowerUp` are bounded by
`MaxStarts`.  The comparison with `Cfg.ID` in `AdjustRadioTimeI` follows from
the others (`SourceTruthful` shows that no source is above the own ID); it is
kept as the code has it.

`TimeSyncDelivery` adds `missed`, the number of supercycles for which a
listener has not heard a neighbour, and lets it not exceed
`SCYCLES_TO_KEEP_TIMESRC`: the constant names exactly how much silence the
scheme is meant to bridge.  Without it nothing converges: a beacon whose
packets never arrive is followed by nobody.  `HopDistances(s)` is the set of the
one function that says how many hops each beacon with power is from `s`, cut at
`HOPS_CNT_MAX + 1`; it is stated by what it satisfies and not by recursion, so
that proofs can use it.

### SwordRadio
The main thread moves only while the radio thread (of higher priority) is
blocked, interrupts come between any two steps.  The main thread counts entry
by entry (`CountEntry`) because `ProcessCountingDistinctTypes` runs without a
lock.  Durations are events: `WindowEnds` (252 ms over), `ReceiveTimeout`,
`WakeUp` (999 ms).  A table entry is its type or `None`.  `Types` has a type
that matters, and one that nobody counts; IDs go one beyond the table.  The
constant `RadioPresent` says whether `Radio.Init()` succeeded.

### BeaconTimer
`CNT`, `CCR1`, `CC1IE` and `SR` are the registers; `Tick` is the counter, and
raises flags.  A handler that has been entered runs on while the counter ticks:
`ReadFlags` reads the flags whose interrupts are enabled, `ClearFlags` clears
`SR` as a whole, `OnTxSlot`, `OnCycle0End` and `OnNewSupercycle` serve what was
read in the code's order, and `PrepareNextTx` is split into `ReadCounter` and
`SetCompare`, also where `RxCallback` calls it behind a jump; `RxCallbackEnd` is
its last part, which looks at the counter again.  Ticks may come between any two
of them, so a jump may miss the slot it lands before.  The interrupt of GDO0
cannot run inside the timer's and vice versa (both hold the kernel lock).
`Latency` bounds the ticks during which handlers are due or running.  The time
in a received packet is the start of a slot of its sender, in any cycle but
behind the end of the supercycle (`SetCompare` never sets such a slot), plus up
to `Latency`.  Which packet is good enough to jump is the matter of `TimeSync`;
here any packet may be.  `Cfg.Type` is never changed, so `MustTxInEachOther` is
true throughout.  `slots`, `adjusted`, `deaf` and `lost` (the handler has
cleared a flag that it had not read) are history variables.  `TickInAdjust`
allows a tick between the clearing of the flags and the writing of the counter
in `AdjustRadioTimeI`.

### LedEffects
A colour is the level of one channel, `0 .. MaxLevel`; a command asks for black
or a colour in `Lit`.  `Blade` and `Gem` are records of the members of the two
objects, `bladeTmr` and `gemTmr` say what their timers are armed for.  A timer
callback or the DMA interrupt may come between any two steps, so `Draw` is cut
where it matters: `BladeDraw` compares the colours and `BladePixels` writes the
frame, `GemPixels` writes the frame and `GemDraw` compares the colours behind it;
`BladeArm` and `GemArm` look at the timer and arm it with the delay that the
colours of that moment give.  `SetCurrentColors` is cut behind its first assignment
(`TransmitDone = false`), before the transfer is started.  The main thread has
the priority of `NpxThread` and there is no time quantum (`chconf.h`), so its
steps fall into `NpxThread`'s delays and suspensions; the shell's `Set`, `SetIndx`
and `CLS` write the frame and start a transfer of their own from there, also while
one is running.  A part of the frame is dark only if all its pixels are
(`WithPixel`): with one pixel set it looks like that pixel or as before.
`SetIndx` does not check its index; one outside the strip writes elsewhere in
memory and is left out.  `Halt` is
`chSysHalt` and `Reset` the watchdog behind it, or the button behind standby.

### MainLoop
`power` is the world: the two pins, and where `main()` is, from a reset by the
button (`WakeUp`: is the press long enough?) through `PowerOn` and `Run` to
`Fade` (`EnterSleep`, waiting for the radio and the LEDs) and `Standby`.
`SensorsThread` has main's priority, and there is no time quantum: `ready` is
the ready list of `chSchReadyI`, with the thread that runs at its head.
`SleepOver` (the sleep of `SNS_POLL_PERIOD_MS` ends) puts `SensorsThread` at its
end, an event that finds main asleep in `Fetch` puts main there; each of them
runs until it blocks, main in `WaitForEvent`, `SensorsThread` behind its second
group of pins.  The ADC and the table timer post at any point, so a poll may
begin with events queued, even with a full queue, and its own event may be
refused or come behind theirs.  `With` is the refusal of a full queue.  `held`
is the system time since `LongPressTimer` was set, in poll periods, up to
`LongPolls`; from one poll to the next it grows by one or by more, since a busy
main keeps `SensorsThread` waiting.  It starts at the bound, because
`LongPressTimer` is zero and the clock is not when the pins are first polled.
Battery voltages are the three classes the thresholds make, and of a sequence on
the Lumos LED only its name is kept.  `told` and `wakePress` are history
variables.

### UartTx
Byte number `i` has the value `i`, so order, loss and duplication can be told.
`Printf` runs under the lock and is one step, for every number of bytes, also
those that do not fit (the rest of the line is cut).  `CmdUart_t::Print`, which
answers shell commands, takes no lock: `PrintByte` and `PrintStore` are the load
and the store of `IFullSlotsCount++`.  `torn` records that the interrupt came
between the two.  From then on the counter is wrong for good, and the properties
promise nothing: that is the code's own data race, listed as a hazard.

## 3. What the runs check

| run | instance | properties | result |
|---|---|---|---|
| `event_queue` | 3 threads, handlers, 2 messages, 2 slots | `TypeOK`, `SemaphoresConsistent`, `SlotAccounting`, `ImplementsChannel`, `FetcherServed` | hold, 211 thousand states |
| `time_sync` | 3 beacons in a line, limits 4 and 4, one power-down and -up | `TypeOK`, `SourceTruthful`, `NeverWorse`, `GhostFlushed` | hold, 114 thousand states |
| `time_sync_delivery` | 3 beacons, highest ID in the middle, limits 2 and 1 | `Converges` | holds, 13 thousand states |
| `sword_radio` | 2 table entries, 3 types, an ID beyond the table | `TypeOK`, `StandbyRadioOff`, `NoLostWakeUp`, `ImplementsPresence`, `WatchdogFed` | hold, 338 thousand states |
| `beacon_timer` | 3 cycles of 6 slots of 6 ticks, 3 IDs | `TypeOK`, `EverySlotServed`, `ListensInCycle0`, `NoFlagLost`, `SendsInOwnSlot` | hold, 100 thousand states |
| `led_effects` | one level, one colour | `TypeOK`, `NoLostWakeUp`, `IndicationTimed`, `BatteryShown`, `BladeFollows`, `GemFollows`, `KeepsBlinking`, `WaitLedsOffEnds` | hold, 161 thousand states |
| `uart_tx` | ring of 4, 13 bytes | `TypeOK`, `RingIntact`, `IdleMeansSent`, `ImplementsStream`, `EveryByteLeaves` | hold, 37 thousand states |
| `main_loop` | queue of 2, long press of 2 polls | `TypeOK`, `OneEventPerPress`, `WakePressIsOver`, `FreshPinEvents`, `LightsSettle`, `WatchdogFed`, `DeadBatterySleeps` | hold, 792 thousand states |
| `led_zero_delay` | two levels | `NoZeroDelay` | violated |
| `sword_no_radio` | as `sword_radio`, no radio | `WatchdogFed` | violated |
| `beacon_timer_race` | as `beacon_timer`, with `TickInAdjust` | `SendsInOwnSlot` | violated |
| `beacon_ids` | 4 cycles of 104 slots, IDs 50 to 177 | `SlotsAfterCalibration` | violated |

**Queue.** `SlotAccounting` is the key: messages, free slots and slots promised
to readied senders add up to `Sz`, and the pointers are as far apart as there
are messages.  `ImplementsChannel` maps the ring to a sequence.  Three threads
are enough for a sleeper, a readied thread and a third one that comes between
them; two slots for a ring that wraps and may be partly full.

**Common time.** The real limits are used.  In a line of three the middle and
the far beacon can keep offering each other the time of a first one that has
lost power: this is the loop that `HOPS_CNT_MAX` is there to end
(`radio_lvl1.h:74`), and `GhostFlushed` shows that it does, whichever packets
arrive.  `SourceTruthful` says that a hop count is the length of a real route;
`NeverWorse` that a source is exchanged for a higher ID only by the beacon's
own, and only after the full number of silent supercycles.

**Convergence.** With the highest ID in the middle, the lowest must win over a
second one on the far side, across a beacon that hears both.

**Sword.** `ImplementsPresence` would see an entry counted twice, dropped at a
swap, or leaking from the table being written.  `NoLostWakeUp` depends on the
lock around `EnterRX` and the suspension; `StandbyRadioOff` on `Enabled` being
cleared before `IsSleeping` is polled.  The run stops in standby, so deadlock
is not looked for.

**Beacon timer.** `EverySlotServed` would see a slot served twice after the
reading of the counter, or missed; `SendsInOwnSlot` a flag of the old time that
survives a jump; `NoFlagLost` a flag that rises between the reading of `SR` and
its clearing, which the code could not notice.  `ListensInCycle0` says both that
the receiver is off outside cycle 0, but for the time a pending interrupt takes,
and that it is on in cycle 0 but for the own packet or a channel check that
failed (`deaf`).

**LED effects.** One level is enough for a fade that is over with the step it
began with, which is where the races are; two levels (a fade with a step in its
middle) were checked once with the same result and are the instance of
`led_zero_delay`.  `BladeFollows` and `GemFollows` would see a frozen strip, an
effect that waits for a timer nobody armed, or a last frame never sent.
`KeepsBlinking` is about `Indication`, which calls
`GemBlinkForeverOrContinue` with every event.  `BladeFollows` speaks of a sword
whose short presses have stopped: presses that come faster than an indication
lasts keep the bars on, as they should.

**Transmit ring.** Four slots and thirteen bytes let the ring wrap three times
with transfers cut at its end.  `IdleMeansSent` is what `FlushTx` relies on.

**Main loop.** The queue of two is full after two interrupts, so every event is
refused somewhere, those of the pins too: a poll that finds two events of the
ADC queued loses its own, one that finds a single event queues behind it.
`LightsSettle` says that nothing is lost for good all the same: every ADC event
brings the whole state of the power, so a USB event that was refused is made good
by the next of them.  `FreshPinEvents` holds because the two threads take turns:
once an event of the pins is posted, main is in the ready list before the next
poll can begin and empties the queue first.  With `SensorsThread` ahead of main
(the mutant `SleepOverAhead`) a second press would queue up behind the first.  Two
poll periods make a press that is too short, one that is just long enough and one
that goes on.

### Findings
* `led_zero_delay`: `Draw` compares the colours, then asks whether the timer is
  armed, then computes the delay, all without a lock.  The callback of the last
  step of a fade may come after the comparison; the delay is 0, which the kernel
  takes for an error, and the sword resets.  A few instructions wide, but open
  at the end of each fade.
* `sword_no_radio`: if the radio did not start, `Stop()` waits for ever for a
  thread that does not exist, and the watchdog resets the sword instead of its
  going to sleep.
* `beacon_timer_race`: `AdjustRadioTimeI` clears the flags before it writes the
  counter of a running timer; a tick between the two lets the old time raise a
  flag that is served at the new one.  The window is a few instructions wide.
  All other properties of `beacon_timer` are checked without this tick, so the
  race is the only thing they are free of by assumption.
* `beacon_ids`: `main.cpp:53` gives out IDs 50 to 177, the slot scheme has room
  for 0 to 99.  IDs that are 104 apart, such as 50 and 154, share their slots
  (lemma `SharedSlots` of `BeaconTimerProofs`).

### Fairness
`EvtMsgQ`: a readied thread runs, and handlers keep posting (the periodic ADC
and table timers do).  `TimeSync`: a packet ends, and supercycles keep ending
(the timer runs on; strong, since a beacon is also sending now and then).
`TimeSyncDelivery` adds that slots keep coming.  `SwordRadio`: a ready thread
runs, interrupts and time-outs come; the main thread runs between them (strong:
it is preempted again and again), and its poll every 7 ms falls into a sleep of
999 ms.  `LedEffects`: a ready thread runs, armed timers fire, a transfer ends;
the main thread, at `Boot` and in the poll of `WaitLedsOff`, finds the other
thread blocked again and again (strong).  Commands are under no fairness.
`UartTx`: the DMA channel and its interrupt go on, and so does a print that has
begun.  `MainLoop`: both threads go on when it is their turn (`ITask`,
`WaitForEvent`, `PollUsb`, `PollButton`); the ADC, which measures once a second,
meets a queue that is not full again and again (strong), since main empties it
within milliseconds; nothing is assumed of the user, the charger or the table
timer.  `BeaconTimer` needs none.

## 4. What is proved

TLAPS proves, for any values of the constants that satisfy the named
assumptions:

* `EvtMsgQProofs`: `QueueTypeOK`, `QueueSemaphoresConsistent`,
  `QueueSlotAccounting`, from an invariant that joins the three: the counter of
  a semaphore is minus the number of its sleepers or the number of units, and
  the units, with those promised to readied threads, are the slots.
* `EvtMsgQRefinement`: `QueueIsChannel`, every step of the queue is a step of
  the channel or none.  `QueueNoIdleSleep`: nobody sleeps while there is a
  message, or a slot, not promised to a readied thread.  `QueueFetcherAdvances`
  and `QueueSenderAdvances`: a sleeper is never overtaken, each message (slot)
  brings it nearer to the front, and a readied thread comes back with one.
* `TimeSyncProofs`: `BeaconTypeOK`, `BeaconSourceTruthful`, `BeaconNeverWorse`.
  The invariant adds `ExpiredIsSelf`: a beacon whose counter is past its limit
  follows itself.  Without it `NeverWorse` is not inductive.
  `BeaconGhostWanes` and `BeaconGhostBounded`: the followers of a source that is
  off at the least hop count only get fewer and older, and the least hop count
  ends behind `HOPS_CNT_MAX`.
  `BeaconLiesWane` says the same of every false claim, also of a source that is
  on but further away than claimed, since a beacon between has lost power.
  `BeaconSyncSpreads` then takes the beacons by their hop distance from the lowest
  ID: when all that are nearer are in sync, the first packet from one of them
  brings a beacon into sync, it cannot miss such a packet for longer than it keeps
  its source, and once in sync it stays there.  The proofs need
  `PacketsAreCurrent` (a packet says what its sender says, until it ends) and that
  a follower's timeout is at most the number of supercycles for which it has
  missed the one it follows.
* `SwordRadioProofs`: `SwordTypeOK`, `SwordNoLostWakeUp`,
  `SwordStandbyRadioOff`.  The invariant adds how the chip follows the thread
  (`ChipFollowsThread`) and that a stopped radio never listens again
  (`StoppedForGood`).
  There too: `SwordIsPresence`, the two tables implement
  `Presence`.  It needs `CleanBehind`: of the table that is not being written,
  the part a check has already counted holds nothing that counts.  Without it a
  swap could bring an old entry into the window of the next check.
  `SwordStopConverges`: after `Stop()` each step of the radio thread brings it
  nearer to its sleep, and none of anybody else throws it back.
* `UartTxProofs`: `TypeCorrect`, `RingCorrect`, `IdleCorrect`,
  `StreamRefinement`, for any ring size and number of bytes.  The invariant has
  a part that holds always (`Bounds`: counters and transfer stay inside the ring
  even after a torn increment) and one up to the first torn increment (`Exact`:
  the bytes from the read pointer on are the last accepted, and the transfer is
  a run of them that the counter covers).  `TransfersCorrect`: no transfer is
  restarted or cut short, and the channel is left idle only with everything sent.
* `LedEffectsProofs`: `TypeCorrect`, `WakeUpCorrect`, `IndicationCorrect`, for
  any number of levels.  A suspended thread needs `WakeUps`: a transfer that is
  marked as not done is running or about to be started by a thread that is not
  suspended.  The indication needs `Indication`, what `NpxThread` may still do
  with the state it has read.  `BarsCorrect`, `BladeCorrect`, `GemCorrect` and
  `BlinkCorrect` say that the bars, the two colours and each phase of a blink only
  come nearer to their ends, that the step or timer which is to take them there
  is always due, and that repeating a command does not set them back.
* `MainLoopProofs`: `TypeCorrect`, `PressCorrect`, `WakePressCorrect`,
  `PinEventsCorrect`, for any length of the queue and any number of polls that
  make a press long.  The invariants add what the state of the button and
  `IsLongPress` say of the events told so far (`ButtonStory`), that the pins
  are not polled before the press that woke the sword has ended (`WakeStory`),
  and, for `PinEventsCorrect`, whose turn it is (`TurnStory`: a poll that
  has begun is not interrupted by main, and main is in the ready list while an
  event waits for it) and what that leaves in the queue (`QueueStory`: at most one
  event of each pin; before a poll begins, none at all or main is first in the
  list).  Other events may be queued before, between and behind them.
  `LightsCorrect`: the LEDs show what `Indication` says, an ADC event served
  in `Run` settles it, and it stays settled until a pin changes.
  `AdcCorrect`: while main serves events, an ADC event that was accepted is not
  dropped or overtaken, each step of main brings it nearer, and serving it reloads
  the watchdog, or leads to standby when the battery is dead and nothing charges.
* `BeaconTimerProofs`, for any slot scheme.  `TypeCorrect` holds without a
  condition.  `FlagsKept` (`NoFlagLost`), `ListeningCorrect` (`ListensInCycle0`),
  `OwnSlotCorrect` (`SendsInOwnSlot`) and `SlotsCorrect` (`EverySlotServed`) are
  for `~TickInAdjust`: with the tick, `beacon_timer_race` shows the third to be
  false.  `OwnSlotCorrect` also needs the first slot of every ID to start within
  the supercycle (`SlotsInSupercycle`), or the compare register would keep its
  value 0; `SlotsCorrect` needs it within the first cycle (`SlotsInCycle`).
  The IDs that `main.cpp` gives out meet the first condition, and those up to
  100 the second.  `NoCollision` needs `SlotsInSupercycle` and the IDs to lie in
  a window of `RSLOT_CNT` consecutive ones, such as 50 to 153: then beacons that
  keep the same time never send at once, however late their handlers are.
  The argument: the first part of the invariant (`FlagInv`) is about the flags
  alone.  A pending flag is never older than the handlers are late
  (`YoungSupercycle`, `YoungCycle0End`, `YoungCompare`), the moments that raise
  flags are further apart than that, so no second flag of a kind comes before the
  first is served, and none while the handler is between reading and clearing
  (`Clearing`).  For the slots, `FlagIsYoung` gives a compare flag the time of a
  slot of the own ID, and the compare register holds the start of a slot
  from the first `PrepareNextTx` on (`CompareIsSlot`); in a supercycle
  without a jump the counter is between the slot served last and the next, which
  is the one the compare register holds (`Serving`).  `PrepareNextTx` yields the
  first slot behind the counter, by the lemma `TxAfter` on quotients.

Assumptions: `QAssumption` (a slot at least, finitely many threads),
`TAssumption` (IDs and limits are natural numbers), `RAssumption` (types that
matter are counted), `LAssumption` (a brightest level above black),
`UAssumption` (a slot at least), `MAssumption` (room for an event, a poll at
least), `BAssumption` (a slot has room for the latency, a packet and a tick more,
and there is a cycle besides cycle 0: with one only, the end of cycle 0 and the
start of a supercycle would be one moment, and a flag could be lost).

Model-checked only: liveness itself, since fairness and `ENABLED` are beyond the
prover.  What each liveness property needs besides fairness is a theorem: a
measure that the steps wanted make smaller, that no other step makes larger, and
that has reached the promised state when it is used up.

| property | its safety core |
|---|---|
| `FetcherServed` | `QueueNoIdleSleep`, `QueueFetcherAdvances` |
| `GhostFlushed` | `BeaconGhostWanes`, `BeaconGhostBounded` |
| `Converges` | `BeaconLiesWane`, `BeaconSyncSpreads` |
| `WatchdogFed` (`SwordRadio`) | `SwordStopConverges` |
| `WatchdogFed`, `DeadBatterySleeps` (`MainLoop`) | `AdcCorrect` |
| `LightsSettle` | `LightsCorrect` |
| `BatteryShown` | `BarsCorrect` |
| `BladeFollows` | `BladeCorrect` |
| `GemFollows`, `WaitLedsOffEnds` | `GemCorrect` |
| `KeepsBlinking` | `BlinkCorrect` |
| `EveryByteLeaves` | `TransfersCorrect` |

What joins a core to its property is that the wanted steps are taken (fairness)
and a count down the measure: for `Converges` twice, down the levels of the
false claims and up the hop distances.  Both stay with TLC.  Every other
property of a passing run is a theorem.

## 5. What is not modelled

* USB mass storage, the settings file and the motion sensor are not started by
  `main.cpp`.  FatFs and ChibiOS are third-party code, but for the semaphores
  and what the models say of threads, timers and the lock.
* Register and SPI access is I/O: clocks, pins, ADC, DMA set-up, the registers of
  the CC1101.  The polling loops of the CC1101 driver are taken to end.
* The listening window.  The timer of the beacons counts at 46.875 kHz (the
  prescaler value 2 divides by 3, `radio_lvl1.h:65` speaks of 4), a cycle of 104
  slots of 108 ticks lasts 239.6 ms, and `RX_DURATION_MS` is 252: a window has
  room for a whole cycle, with 12 ms to spare.  Divided by 4 it would be
  319.5 ms, and beacons could be missed for long.  Windows begin every 1251 ms
  and a check comes every 1800 ms, so at least one window begins between two
  checks; it is whole if it begins in the first 1548 ms.  A comparison of
  constants, with no state that a model would add.
* The interpreter of LED sequences (`ChunkTypes.h`): all its entry points run
  under the lock, and it is sequential.  `MainLoop` has which sequence plays.
* The shell: reception is polled by one thread, formatting and parsing are
  conversions of text.  What the commands do to the LEDs is in `LedEffects`.
* The contents of the beacon's transmit FIFO after an aborted packet.

## 6. What could follow

In order of what it would add: the interpreter of chunks against a definition of
what a sequence plays; a composition of `LedEffects` and `MainLoop` in one state
space; the half buffers of the ADC.
