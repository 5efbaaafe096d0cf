----------------------------- MODULE LedEffects -----------------------------
(***************************************************************************)
(* The LED effects of the sword (Tirusse_fw: LedEffects, ws2812b).         *)
(* NpxThread sends a frame to the LED strip by DMA and then computes the   *)
(* next one from two small state machines, the blade and the gem.  Each    *)
(* has a virtual timer whose callback moves its colour one step towards    *)
(* the target.  The main thread sets targets and starts indications and,   *)
(* after power-on and before standby, polls until the gem is dark.         *)
(*                                                                         *)
(* Main and NpxThread have the same priority and no time quantum: one runs *)
(* until it blocks.  Timer callbacks and the DMA interrupt come at any     *)
(* point that is not locked.  A colour is the level of one channel.        *)
(***************************************************************************)
EXTENDS Integers

CONSTANTS MaxLevel,   \* brightest level of a colour
          Lit         \* colours the commands ask for, besides black

ASSUME LAssumption == MaxLevel \in Nat \ {0} /\ Lit \subseteq 1 .. MaxLevel

Black == 0
Colors == 0 .. MaxLevel
Targets == Lit \cup {Black}
Bars == MaxLevel + 1  \* the pixels of the battery indication

VARIABLES
  blade,             \* Blade: ClrCurr, ClrTarget, State
  gem,               \* Gem: ClrCurr, ClrTarget, ClrBlink, State, BlinkForever
  bladeTmr, gemTmr,  \* what a timer is armed for, or "Off"
  npx,               \* where NpxThread is, see NpxPc
  branch, differs,   \* what Draw has read: State, and ClrCurr != ClrTarget
  ClrBuf,            \* the next frame: blade and gem
  shown,             \* what the strip shows; all black is also LedPwrOff
  TransmitDone, dma,
  main,              \* where the main thread is, see MainPc
  halted             \* chSysHalt was called

effects == <<blade, gem, bladeTmr, gemTmr>>
strip == <<ClrBuf, shown, TransmitDone, dma>>
draw == <<npx, branch, differs>>
vars == <<effects, draw, strip, main, halted>>

NpxPc == {"Delay", "Suspended", "Send", "Start", "Blade", "BladeArm",
          "Gem", "GemCompare", "GemArm"}
MainPc == {"Boot", "WaitOn", "Run", "SetColors", "Fade", "Standby"}
BladeStates == {"Idle", "IndicateBattery", "EnterIdle"}
GemStates == {"Idle", "BlinkFadeIn", "BlinkFadeOut"}
Frames == [blade : Colors \cup {Bars}, gem : Colors]
AllBlack == [blade |-> Black, gem |-> Black]

-----------------------------------------------------------------------------
Init ==
  /\ blade = [Curr |-> Black, Target |-> Black, State |-> "Idle"]
  /\ gem = [Curr |-> Black, Target |-> Black, Blink |-> Black,
            State |-> "Idle", Forever |-> FALSE]
  /\ bladeTmr = "Off" /\ gemTmr = "Off"
  /\ npx = "Delay" /\ branch = "Idle" /\ differs = FALSE
  /\ ClrBuf = AllBlack /\ shown = AllBlack
  /\ TransmitDone = TRUE /\ dma = "Idle"
  /\ main = "Boot"
  /\ halted = FALSE

Alive == ~halted /\ main # "Standby"
NpxBlocked == npx \in {"Delay", "Suspended"}
MainRuns == Alive /\ NpxBlocked

(* A variant that always steps.                                            *)
AdjustAlways(clr, target) == IF clr < target THEN clr + 1 ELSE clr - 1

(* Color_t::Adjust, one step of one channel.                               *)
Adjust(clr, target) ==
  IF clr < target THEN clr + 1 ELSE IF clr > target THEN clr - 1 ELSE clr

(* chVTDoSetI checks that the delay is not TIME_IMMEDIATE: kernel panic.   *)
Halt == halted' = TRUE /\ UNCHANGED <<effects, draw, strip, main>>

-----------------------------------------------------------------------------
(* The callbacks of the two timers, TmrCallbackUpdate.                     *)

(* A variant that knows only colour steps.                                 *)
BladeUpdateStep ==
  /\ Alive /\ bladeTmr # "Off"
  /\ bladeTmr' = "Off"
  /\ blade' = [blade EXCEPT !.Curr = Adjust(@, blade.Target)]
  /\ UNCHANGED <<gem, gemTmr, draw, strip, main, halted>>

BladeUpdateI ==
  /\ Alive /\ bladeTmr # "Off"
  /\ bladeTmr' = "Off"
  /\ blade' = IF blade.State = "IndicateBattery"
              THEN [blade EXCEPT !.State = "EnterIdle"]
              ELSE [blade EXCEPT !.Curr = Adjust(@, blade.Target)]
  /\ UNCHANGED <<gem, gemTmr, draw, strip, main, halted>>

GemUpdateI ==
  /\ Alive /\ gemTmr # "Off"
  /\ gemTmr' = "Off"
  /\ gem' = [gem EXCEPT !.Curr = Adjust(@, gem.Target)]
  /\ UNCHANGED <<blade, bladeTmr, draw, strip, main, halted>>

-----------------------------------------------------------------------------
(* NpxThread.                                                              *)

(* The frame rate allows the next frame; under the lock the thread looks   *)
(* at TransmitDone and suspends itself if a transfer is running.           *)
FrameStart ==
  /\ Alive /\ npx = "Delay"
  /\ npx' = IF TransmitDone THEN "Send" ELSE "Suspended"
  /\ UNCHANGED <<effects, branch, differs, strip, main, halted>>

(* A variant that asks only whether the blade is dark.                     *)
SendBladeOff ==
  /\ Alive /\ npx = "Send"
  /\ IF ClrBuf.blade = Black
     THEN npx' = "Blade" /\ shown' = AllBlack /\ UNCHANGED TransmitDone
     ELSE npx' = "Start" /\ TransmitDone' = FALSE /\ UNCHANGED shown
  /\ UNCHANGED <<effects, branch, differs, ClrBuf, dma, main, halted>>

(* AreOff: power off, no transfer.  Otherwise SetCurrentColors as far as   *)
(* its first assignment.                                                   *)
Send ==
  /\ Alive /\ npx = "Send"
  /\ IF ClrBuf = AllBlack
     THEN npx' = "Blade" /\ shown' = AllBlack /\ UNCHANGED TransmitDone
     ELSE npx' = "Start" /\ TransmitDone' = FALSE /\ UNCHANGED shown
  /\ UNCHANGED <<effects, branch, differs, ClrBuf, dma, main, halted>>

(* The rest of SetCurrentColors; a transfer under way is started again.    *)
SetCurrentColors ==
  /\ dma' = "Running"
  /\ shown' = ClrBuf
  /\ UNCHANGED TransmitDone

StartTransfer ==
  /\ Alive /\ npx = "Start"
  /\ SetCurrentColors
  /\ npx' = "Blade"
  /\ UNCHANGED <<effects, branch, differs, ClrBuf, main, halted>>

(* A variant in which nobody is told of the end of a transfer.             *)
DmaDoneUnheard ==
  /\ Alive /\ dma = "Running"
  /\ dma' = "Idle"
  /\ TransmitDone' = TRUE
  /\ UNCHANGED <<effects, draw, ClrBuf, shown, main, halted>>

(* NpxDmaDone and OnLedsTransmitEnd: with nobody suspended ThdRef is null, *)
(* and whatever is read through it, chThdResumeI does nothing.             *)
DmaDone ==
  /\ Alive /\ dma = "Running"
  /\ dma' = "Idle"
  /\ TransmitDone' = TRUE
  /\ npx' = IF npx = "Suspended" THEN "Send" ELSE npx
  /\ UNCHANGED <<effects, branch, differs, ClrBuf, shown, main, halted>>

(* Blade_t::Draw up to the comparison; a callback may follow.              *)
BladeDraw ==
  /\ Alive /\ npx = "Blade"
  /\ branch' = blade.State
  /\ differs' = (blade.Curr # blade.Target)
  /\ npx' = "BladeArm"
  /\ UNCHANGED <<effects, strip, main, halted>>

BladePixels ==
  CASE branch = "Idle" -> blade.Curr
    [] branch = "IndicateBattery" -> Bars
    [] branch = "EnterIdle" -> Black

(* The rest of it: TimerIsStarted, StartTimer, the pixels.  For a colour   *)
(* that has just become equal, DelayToNextAdj is 0.                        *)
BladeArm ==
  /\ Alive /\ npx = "BladeArm"
  /\ LET timed == branch = "IndicateBattery"
         arm == (timed \/ differs) /\ bladeTmr = "Off"
     IN  IF arm /\ ~timed /\ blade.Curr = blade.Target THEN Halt
         ELSE /\ bladeTmr' = IF arm THEN (IF timed THEN "Battery" ELSE "Step") ELSE bladeTmr
              /\ ClrBuf' = [ClrBuf EXCEPT !.blade = BladePixels]
              /\ blade' = IF branch = "EnterIdle" THEN [blade EXCEPT !.State = "Idle"]
                          ELSE blade
              /\ npx' = "Gem" /\ branch' = "Idle" /\ differs' = FALSE
              /\ UNCHANGED <<gem, gemTmr, shown, TransmitDone, dma, main, halted>>

(* Gem_t::Draw, its pixels; a callback may follow.                         *)
GemPixels ==
  /\ Alive /\ npx = "Gem"
  /\ ClrBuf' = [ClrBuf EXCEPT !.gem = gem.Curr]
  /\ npx' = "GemCompare"
  /\ UNCHANGED <<effects, branch, differs, shown, TransmitDone, dma, main, halted>>

(* Gem_t::Draw, the colour has reached its target.                         *)
NextBlinkPhase ==
  CASE gem.State = "BlinkFadeIn" -> [gem EXCEPT !.State = "BlinkFadeOut", !.Target = Black]
    [] gem.State = "BlinkFadeOut" ->
         [gem EXCEPT !.State = IF gem.Forever THEN "BlinkFadeIn" ELSE "Idle",
                     !.Target = gem.Blink]
    [] OTHER -> gem

GemDraw ==
  /\ Alive /\ npx = "GemCompare"
  /\ IF gem.Curr = gem.Target
     THEN gem' = NextBlinkPhase /\ npx' = "Delay"
     ELSE npx' = "GemArm" /\ UNCHANGED gem
  /\ UNCHANGED <<blade, bladeTmr, gemTmr, branch, differs, strip, main, halted>>

(* Gem_t::Draw, it had not when it was compared.                           *)
GemArm ==
  /\ Alive /\ npx = "GemArm"
  /\ IF gemTmr = "Off" /\ gem.Curr = gem.Target THEN Halt
     ELSE /\ gemTmr' = "Step"
          /\ npx' = "Delay"
          /\ UNCHANGED <<blade, gem, bladeTmr, branch, differs, strip, main, halted>>

-----------------------------------------------------------------------------
(* The commands of the main thread.                                        *)

SetBlade(clr) ==
  /\ blade' = [blade EXCEPT !.Target = clr]
  /\ UNCHANGED bladeTmr

(* A variant that leaves the timer of the last colour step armed.          *)
DoBatteryIndicationKeepTimer ==
  /\ blade' = [blade EXCEPT !.State = "IndicateBattery", !.Curr = Black]
  /\ UNCHANGED bladeTmr

DoBatteryIndication ==
  /\ bladeTmr' = "Off"
  /\ blade' = [blade EXCEPT !.State = "IndicateBattery", !.Curr = Black]

SetGem(clr) ==
  /\ gemTmr' = IF gem.State # "Idle" THEN "Off" ELSE gemTmr
  /\ gem' = [gem EXCEPT !.State = "Idle", !.Target = clr]

(* A variant that leaves BlinkForever as it was.                           *)
BlinkOnceKeepForever(clr) ==
  /\ gemTmr' = "Step"
  /\ gem' = [gem EXCEPT !.State = "BlinkFadeIn", !.Curr = Black, !.Target = clr,
                        !.Blink = Black]

BlinkOnce(clr) ==
  /\ gemTmr' = "Step"
  /\ gem' = [Curr |-> Black, Target |-> clr, Blink |-> Black,
             State |-> "BlinkFadeIn", Forever |-> FALSE]

(* A variant that starts over with every call.                             *)
BlinkForeverRestart(clr) ==
  /\ gemTmr' = "Step"
  /\ gem' = [Curr |-> Black, Target |-> clr, Blink |-> clr,
             State |-> "BlinkFadeIn", Forever |-> TRUE]

BlinkForeverOrContinue(clr) ==
  IF gem.State = "Idle"
  THEN /\ gemTmr' = "Step"
       /\ gem' = [Curr |-> Black, Target |-> clr, Blink |-> clr,
                  State |-> "BlinkFadeIn", Forever |-> TRUE]
  ELSE /\ gem' = [gem EXCEPT !.Blink = clr, !.Forever = TRUE]
       /\ UNCHANGED gemTmr

(* main(): the green flash of power-on.                                    *)
Boot ==
  /\ MainRuns /\ main = "Boot"
  /\ \E clr \in Lit : BlinkOnce(clr)
  /\ main' = "WaitOn"
  /\ UNCHANGED <<blade, bladeTmr, draw, strip, halted>>

GemIsIdle == gem.State = "Idle" /\ gem.Curr = Black

(* The poll of WaitLedsOff that finds the gem idle.                        *)
LedsAreOff ==
  /\ MainRuns /\ main \in {"WaitOn", "Fade"} /\ GemIsIdle
  /\ main' = IF main = "WaitOn" THEN "Run" ELSE "Standby"
  /\ UNCHANGED <<effects, draw, strip, halted>>

(* A handler of ITask: Indication or a shell command.                      *)
ShortPress ==
  /\ MainRuns /\ main = "Run"
  /\ DoBatteryIndication
  /\ UNCHANGED <<gem, gemTmr, draw, strip, main, halted>>

Command ==
  /\ MainRuns /\ main = "Run"
  /\ \/ \E clr \in Targets : SetBlade(clr) /\ UNCHANGED <<gem, gemTmr>>
     \/ \E clr \in Targets : SetGem(clr) /\ UNCHANGED <<blade, bladeTmr>>
     \/ \E clr \in Lit : BlinkForeverOrContinue(clr) /\ UNCHANGED <<blade, bladeTmr>>
  /\ UNCHANGED <<draw, strip, main, halted>>

(* A part of the frame is dark only if all its pixels are, and otherwise   *)
(* has the colour of one that is lit.  With one pixel set it may look as   *)
(* before, unless it was dark.                                             *)
WithPixel(part, clr) == IF part = Black THEN {clr} ELSE {part, clr}

(* The shell commands Set and CLS, and SetIndx with an index of the strip; *)
(* then SetCurrentColors of the main thread, interrupted where that of     *)
(* NpxThread is.                                                           *)
ShellSet ==
  /\ MainRuns /\ main = "Run"
  /\ \E clr \in Targets :
       \/ ClrBuf' = [blade |-> clr, gem |-> clr]
       \/ \E seen \in WithPixel(ClrBuf.blade, clr) : ClrBuf' = [ClrBuf EXCEPT !.blade = seen]
       \/ \E seen \in WithPixel(ClrBuf.gem, clr) : ClrBuf' = [ClrBuf EXCEPT !.gem = seen]
  /\ TransmitDone' = FALSE
  /\ main' = "SetColors"
  /\ UNCHANGED <<effects, draw, shown, dma, halted>>

ShellStart ==
  /\ Alive /\ main = "SetColors"
  /\ SetCurrentColors
  /\ main' = "Run"
  /\ UNCHANGED <<effects, draw, ClrBuf, halted>>

(* EnterSleep, once the radio is stopped.                                  *)
EnterSleep ==
  /\ MainRuns /\ main = "Run"
  /\ SetBlade(Black)
  /\ \E clr \in Lit : BlinkOnce(clr)
  /\ main' = "Fade"
  /\ UNCHANGED <<draw, strip, halted>>

-----------------------------------------------------------------------------
(* The watchdog after a panic, the button out of standby: a reset.         *)
Reset ==
  /\ ~Alive
  /\ blade' = [Curr |-> Black, Target |-> Black, State |-> "Idle"]
  /\ gem' = [Curr |-> Black, Target |-> Black, Blink |-> Black,
             State |-> "Idle", Forever |-> FALSE]
  /\ bladeTmr' = "Off" /\ gemTmr' = "Off"
  /\ npx' = "Delay" /\ branch' = "Idle" /\ differs' = FALSE
  /\ ClrBuf' = AllBlack /\ shown' = AllBlack
  /\ TransmitDone' = TRUE /\ dma' = "Idle"
  /\ main' = "Boot"
  /\ halted' = FALSE

NpxThread ==
  (* One of the two threads is inside SetCurrentColors at a time.          *)
  /\ main # "SetColors"
  /\ \/ FrameStart \/ Send \/ StartTransfer \/ BladeDraw \/ BladeArm
     \/ GemPixels \/ GemDraw \/ GemArm

Next ==
  \/ NpxThread
  \/ BladeUpdateI \/ GemUpdateI \/ DmaDone
  \/ Boot \/ LedsAreOff \/ Command \/ ShortPress \/ ShellSet \/ ShellStart \/ EnterSleep
  \/ Reset

Spec == Init /\ [][Next]_vars

(* Fairness: a ready thread runs, armed timers fire, transfers end, the    *)
(* watchdog bites, and the poll of WaitLedsOff, every 9 ms, finds a moment *)
(* in which the other thread is blocked.                                   *)
FairSpec ==
  /\ Spec
  /\ WF_vars(NpxThread) /\ WF_vars(BladeUpdateI) /\ WF_vars(GemUpdateI) /\ WF_vars(DmaDone)
  /\ SF_vars(Boot) /\ SF_vars(LedsAreOff) /\ WF_vars(ShellStart)
  /\ WF_vars(halted /\ Reset)

-----------------------------------------------------------------------------
TypeOK ==
  /\ blade \in [Curr : Colors, Target : Targets, State : BladeStates]
  /\ gem \in [Curr : Colors, Target : Targets, Blink : Targets,
              State : GemStates, Forever : BOOLEAN]
  /\ bladeTmr \in {"Off", "Step", "Battery"} /\ gemTmr \in {"Off", "Step"}
  /\ npx \in NpxPc /\ branch \in BladeStates /\ differs \in BOOLEAN
  /\ ClrBuf \in Frames /\ shown \in Frames
  /\ TransmitDone \in BOOLEAN /\ dma \in {"Idle", "Running"}
  /\ main \in MainPc /\ halted \in BOOLEAN

(* LedEffects.cpp:180-183, 196-201: NpxThread is suspended only while a     *)
(* transfer is running whose interrupt will resume it.                     *)
NoLostWakeUp == npx = "Suspended" => dma = "Running"

(* LedEffects.cpp:85-93: the time of a battery indication is never that of *)
(* a colour step left over from before.                                    *)
IndicationTimed == blade.State = "IndicateBattery" => bladeTmr # "Step"

(* A short press is followed by the bars on the strip, unless the main     *)
(* thread sets the pixels itself, goes to sleep, or the kernel panics.     *)
BatteryShown ==
  (blade.State = "IndicateBattery" /\ bladeTmr # "Battery")
    ~> (shown.blade = Bars \/ main # "Run" \/ halted)

(* The blade ends up in the colour it was last given, and stays so, once   *)
(* short presses and other commands stop.                                  *)
BladeFollows ==
  <>[](main = "Run") /\ <>[][~ShortPress /\ UNCHANGED blade.Target]_vars
    => <>[](shown.blade = blade.Target)

(* The gem ends up in the colour it was last given.                        *)
GemFollows ==
  <>[](gem.State = "Idle" /\ main = "Run") /\ <>[][UNCHANGED gem.Target]_vars
    => <>[](shown.gem = gem.Target)

(* While the sword charges, each ADC event and each radio check asks for   *)
(* the blinking again: it must go on and neither freeze nor start over.    *)
KeepsBlinking ==
  <>[](gem.State # "Idle" /\ main = "Run") => []<>(shown.gem # Black) /\ []<>(shown.gem = Black)

(* LedEffects.cpp:253-258: WaitLedsOff reloads the watchdog itself, so it  *)
(* must end: the sword comes up after power-on and reaches standby.        *)
WaitLedsOffEnds == main \in {"WaitOn", "Fade"} ~> main \in {"Run", "Standby"} \/ halted

(* chvt.c:101: no timer is ever armed with a zero delay.                   *)
NoZeroDelay == ~halted
=============================================================================
