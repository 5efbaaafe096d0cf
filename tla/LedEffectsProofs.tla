--------------------------- MODULE LedEffectsProofs ---------------------------
(***************************************************************************)
(* Proofs about LedEffects for every range of colours: what the thread,    *)
(* the timer callbacks and the DMA interrupt of the LED strip may do to    *)
(* each other, whatever the main thread asks for.                          *)
(***************************************************************************)
EXTENDS LedEffects, TLAPS

(* An end of transfer not yet seen: a transfer is running, or one of the   *)
(* two threads is inside SetCurrentColors, between TransmitDone = false    *)
(* and the start of the DMA.                                               *)
WakeUps ==
  /\ NoLostWakeUp
  /\ ~TransmitDone => dma = "Running" \/ npx = "Start" \/ main = "SetColors"

(* Between the two parts of Blade_t::Draw the callback may end an          *)
(* indication, but nobody can begin one.                                   *)
Indication ==
  /\ IndicationTimed
  /\ npx = "BladeArm" /\ blade.State = "IndicateBattery" => branch = "IndicateBattery"

USE LAssumption DEF LAssumption

-----------------------------------------------------------------------------
LEMMA AdjustType ==
  ASSUME NEW clr \in Colors, NEW target \in Colors
  PROVE  Adjust(clr, target) \in Colors
  BY DEF Adjust, Colors

LEMMA ColorTypes ==
  Black \in Colors /\ Black \in Targets /\ Targets \subseteq Colors /\ Lit \subseteq Targets
  BY DEF Black, Colors, Targets

LEMMA InitialTypes ==
  /\ AllBlack \in Frames
  /\ [Curr |-> Black, Target |-> Black, State |-> "Idle"]
       \in [Curr : Colors, Target : Targets, State : BladeStates]
  /\ [Curr |-> Black, Target |-> Black, Blink |-> Black, State |-> "Idle", Forever |-> FALSE]
       \in [Curr : Colors, Target : Targets, Blink : Targets, State : GemStates, Forever : BOOLEAN]
<1>1. AllBlack \in Frames
  BY ColorTypes DEF AllBlack, Frames
<1>2. "Idle" \in BladeStates /\ "Idle" \in GemStates
  BY DEF BladeStates, GemStates
<1> QED
  BY <1>1, <1>2, ColorTypes

LEMMA TypeInit == Init => TypeOK
<1> SUFFICES ASSUME Init PROVE TypeOK
  OBVIOUS
<1>1. blade \in [Curr : Colors, Target : Targets, State : BladeStates]
  BY InitialTypes DEF Init
<1>2. gem \in [Curr : Colors, Target : Targets, Blink : Targets, State : GemStates,
               Forever : BOOLEAN]
  BY InitialTypes DEF Init
<1>3. ClrBuf \in Frames /\ shown \in Frames
  BY InitialTypes DEF Init
<1>4. /\ bladeTmr \in {"Off", "Step", "Battery"} /\ gemTmr \in {"Off", "Step"}
      /\ npx \in NpxPc /\ branch \in BladeStates /\ dma \in {"Idle", "Running"} /\ main \in MainPc
  BY DEF Init, NpxPc, BladeStates, MainPc
<1>5. differs \in BOOLEAN /\ TransmitDone \in BOOLEAN /\ halted \in BOOLEAN
  BY DEF Init
<1> QED
  BY <1>1, <1>2, <1>3, <1>4, <1>5 DEF TypeOK

LEMMA ThreadTypes == TypeOK /\ NpxThread => TypeOK'
<1> SUFFICES ASSUME TypeOK, NpxThread PROVE TypeOK'
  OBVIOUS
<1> USE DEF TypeOK, NpxPc, effects, strip, draw
<1>1. CASE FrameStart
  BY <1>1 DEF FrameStart
<1>2. CASE Send
  BY <1>2, ColorTypes DEF Send, AllBlack, Frames
<1>3. CASE StartTransfer
  BY <1>3 DEF StartTransfer, SetCurrentColors
<1>4. CASE BladeDraw
  BY <1>4 DEF BladeDraw
<1>5. CASE BladeArm
  <2>1. CASE Halt
    BY <2>1 DEF Halt
  <2>2. CASE ~Halt
    <3>1. BladePixels \in Colors \cup {Bars}
      BY ColorTypes DEF BladePixels, BladeStates
    <3>2. ClrBuf' = [ClrBuf EXCEPT !.blade = BladePixels]
      BY <1>5, <2>2 DEF BladeArm
    <3>3. ClrBuf' \in Frames
      BY <3>1, <3>2 DEF Frames
    <3>4. blade' \in [Curr : Colors, Target : Targets, State : BladeStates]
      BY <1>5, <2>2 DEF BladeArm, BladeStates
    <3>5. bladeTmr' \in {"Off", "Step", "Battery"}
      BY <1>5, <2>2 DEF BladeArm
    <3>6. /\ npx' = "Gem" /\ branch' = "Idle" /\ differs' = FALSE
          /\ UNCHANGED <<gem, gemTmr, shown, TransmitDone, dma, main, halted>>
      BY <1>5, <2>2 DEF BladeArm
    <3> QED
      BY <3>3, <3>4, <3>5, <3>6 DEF BladeStates
  <2> QED
    BY <2>1, <2>2
<1>6. CASE GemPixels
  <2>1. ClrBuf' = [ClrBuf EXCEPT !.gem = gem.Curr]
    BY <1>6 DEF GemPixels
  <2>2. ClrBuf' \in Frames
    BY <2>1 DEF Frames
  <2> QED
    BY <1>6, <2>2 DEF GemPixels
<1>7. CASE GemDraw
  <2>1. NextBlinkPhase \in [Curr : Colors, Target : Targets, Blink : Targets,
                            State : GemStates, Forever : BOOLEAN]
    BY ColorTypes DEF NextBlinkPhase, GemStates
  <2> QED
    BY <1>7, <2>1 DEF GemDraw
<1>8. CASE GemArm
  BY <1>8 DEF GemArm, Halt
<1> QED
  BY <1>1, <1>2, <1>3, <1>4, <1>5, <1>6, <1>7, <1>8 DEF NpxThread

LEMMA InterruptTypes == TypeOK /\ (BladeUpdateI \/ GemUpdateI \/ DmaDone) => TypeOK'
<1> SUFFICES ASSUME TypeOK, BladeUpdateI \/ GemUpdateI \/ DmaDone PROVE TypeOK'
  OBVIOUS
<1> USE DEF TypeOK, NpxPc, effects, strip, draw
<1>1. CASE BladeUpdateI
  <2>1. Adjust(blade.Curr, blade.Target) \in Colors
    BY AdjustType, ColorTypes
  <2>2. blade' \in [Curr : Colors, Target : Targets, State : BladeStates]
    BY <1>1, <2>1 DEF BladeUpdateI, BladeStates
  <2> QED
    BY <1>1, <2>2 DEF BladeUpdateI
<1>2. CASE GemUpdateI
  <2>1. Adjust(gem.Curr, gem.Target) \in Colors
    BY AdjustType, ColorTypes
  <2> QED
    BY <1>2, <2>1 DEF GemUpdateI
<1>3. CASE DmaDone
  BY <1>3 DEF DmaDone
<1> QED
  BY <1>1, <1>2, <1>3

LEMMA MainTypes ==
  TypeOK /\ (Boot \/ LedsAreOff \/ Command \/ ShortPress \/ ShellSet \/ ShellStart \/ EnterSleep)
    => TypeOK'
<1> SUFFICES ASSUME TypeOK, Boot \/ LedsAreOff \/ Command \/ ShortPress \/ ShellSet
                            \/ ShellStart \/ EnterSleep
             PROVE  TypeOK'
  OBVIOUS
<1> USE ColorTypes DEF TypeOK, MainPc, effects, strip, draw
<1>1. CASE Boot
  BY <1>1 DEF Boot, BlinkOnce, GemStates
<1>2. CASE LedsAreOff
  BY <1>2 DEF LedsAreOff
<1>3. CASE Command
  <2>1. UNCHANGED <<draw, strip, main, halted>>
    BY <1>3 DEF Command
  <2>2. ASSUME NEW clr \in Targets, SetBlade(clr), UNCHANGED <<gem, gemTmr>> PROVE TypeOK'
    BY <2>1, <2>2 DEF SetBlade
  <2>3. ASSUME NEW clr \in Targets, SetGem(clr), UNCHANGED <<blade, bladeTmr>> PROVE TypeOK'
    <3>1. gem' \in [Curr : Colors, Target : Targets, Blink : Targets, State : GemStates,
                    Forever : BOOLEAN]
      BY <2>3 DEF SetGem, GemStates
    <3> QED
      BY <2>1, <2>3, <3>1 DEF SetGem
  <2>4. ASSUME NEW clr \in Lit, BlinkForeverOrContinue(clr), UNCHANGED <<blade, bladeTmr>>
        PROVE  TypeOK'
    <3>1. clr \in Targets /\ Black \in Colors
      OBVIOUS
    <3>2. gem' \in [Curr : Colors, Target : Targets, Blink : Targets, State : GemStates,
                    Forever : BOOLEAN]
      <4>1. CASE gem.State = "Idle"
        <5>1. gem' = [Curr |-> Black, Target |-> clr, Blink |-> clr,
                      State |-> "BlinkFadeIn", Forever |-> TRUE]
          BY <2>4, <4>1 DEF BlinkForeverOrContinue
        <5> QED
          BY <3>1, <5>1 DEF GemStates
      <4>2. CASE gem.State # "Idle"
        <5>1. gem' = [gem EXCEPT !.Blink = clr, !.Forever = TRUE]
          BY <2>4, <4>2 DEF BlinkForeverOrContinue
        <5> QED
          BY <3>1, <5>1
      <4> QED
        BY <4>1, <4>2
    <3> QED
      BY <2>1, <2>4, <3>2 DEF BlinkForeverOrContinue
  <2> QED
    BY <1>3, <2>2, <2>3, <2>4 DEF Command
<1>4. CASE ShortPress
  BY <1>4 DEF ShortPress, DoBatteryIndication, BladeStates
<1>5. CASE ShellSet
  <2>1. PICK clr \in Colors :
          \/ ClrBuf' = [blade |-> clr, gem |-> clr]
          \/ ClrBuf' = ClrBuf
          \/ ClrBuf' = [ClrBuf EXCEPT !.blade = clr]
          \/ ClrBuf' = [ClrBuf EXCEPT !.gem = clr]
    <3>1. PICK clr \in Targets :
            \/ ClrBuf' = [blade |-> clr, gem |-> clr]
            \/ \E seen \in {ClrBuf.blade, clr} : ClrBuf' = [ClrBuf EXCEPT !.blade = seen]
            \/ \E seen \in {ClrBuf.gem, clr} : ClrBuf' = [ClrBuf EXCEPT !.gem = seen]
      BY <1>5 DEF ShellSet, WithPixel
    <3>2. clr \in Colors
      OBVIOUS
    <3>3. /\ [ClrBuf EXCEPT !.blade = ClrBuf.blade] = ClrBuf
          /\ [ClrBuf EXCEPT !.gem = ClrBuf.gem] = ClrBuf
      BY DEF Frames
    <3> QED
      BY <3>1, <3>2, <3>3
  <2>3. ClrBuf' \in Frames
    BY <2>1 DEF Frames
  <2> QED
    BY <1>5, <2>3 DEF ShellSet
<1>6. CASE ShellStart
  BY <1>6 DEF ShellStart, SetCurrentColors
<1>7. CASE EnterSleep
  BY <1>7 DEF EnterSleep, SetBlade, BlinkOnce, GemStates
<1> QED
  BY <1>1, <1>2, <1>3, <1>4, <1>5, <1>6, <1>7

(* Every variable stays in its set; in particular a colour never runs past *)
(* its ends, whichever target it is given between two steps                *)
(* (LedEffects.cpp:57-60, 105).                                            *)
THEOREM TypeCorrect == Spec => []TypeOK
<1>1. Reset => TypeOK'
  <2> SUFFICES ASSUME Reset PROVE TypeOK'
    OBVIOUS
  <2>1. blade' \in [Curr : Colors, Target : Targets, State : BladeStates]
    BY InitialTypes DEF Reset
  <2>2. gem' \in [Curr : Colors, Target : Targets, Blink : Targets, State : GemStates,
                  Forever : BOOLEAN]
    BY InitialTypes DEF Reset
  <2>3. ClrBuf' \in Frames /\ shown' \in Frames
    BY InitialTypes DEF Reset
  <2>4. /\ bladeTmr' \in {"Off", "Step", "Battery"} /\ gemTmr' \in {"Off", "Step"}
        /\ npx' \in NpxPc /\ branch' \in BladeStates /\ dma' \in {"Idle", "Running"}
        /\ main' \in MainPc
    BY DEF Reset, NpxPc, BladeStates, MainPc
  <2>5. differs' \in BOOLEAN /\ TransmitDone' \in BOOLEAN /\ halted' \in BOOLEAN
    BY DEF Reset
  <2> QED
    BY <2>1, <2>2, <2>3, <2>4, <2>5 DEF TypeOK
<1>2. TypeOK /\ UNCHANGED vars => TypeOK'
  BY DEF TypeOK, vars, effects, strip, draw
<1>3. TypeOK /\ [Next]_vars => TypeOK'
  BY <1>1, <1>2, ThreadTypes, InterruptTypes, MainTypes DEF Next
<1> QED
  BY <1>3, TypeInit, PTL DEF Spec

-----------------------------------------------------------------------------
(* NpxThread never waits for an interrupt that has been or will not come   *)
(* (LedEffects.cpp:180-183, 196-201), also when the main thread starts     *)
(* transfers of its own.                                                   *)
THEOREM WakeUpCorrect == Spec => []NoLostWakeUp
<1> USE DEF WakeUps, NoLostWakeUp, effects, strip, draw
<1>1. Init => WakeUps
  BY DEF Init
<1>2. ASSUME TypeOK, WakeUps, Next PROVE WakeUps'
  <2>1. CASE NpxThread
    <3>1. CASE FrameStart
      BY <1>2, <2>1, <3>1 DEF FrameStart, NpxThread
    <3>2. CASE Send
      BY <1>2, <3>2 DEF Send
    <3>3. CASE StartTransfer
      BY <1>2, <3>3 DEF StartTransfer, SetCurrentColors
    <3>4. CASE BladeDraw \/ BladeArm \/ GemPixels \/ GemDraw \/ GemArm
      BY <1>2, <3>4 DEF BladeDraw, BladeArm, GemPixels, GemDraw, GemArm, Halt
    <3> QED
      BY <2>1, <3>1, <3>2, <3>3, <3>4 DEF NpxThread
  <2>2. CASE BladeUpdateI \/ GemUpdateI
    BY <1>2, <2>2 DEF BladeUpdateI, GemUpdateI
  <2>3. CASE DmaDone
    BY <1>2, <2>3 DEF DmaDone
  <2>4. CASE Boot \/ LedsAreOff \/ Command \/ ShortPress \/ EnterSleep
    BY <1>2, <2>4 DEF Boot, LedsAreOff, Command, ShortPress, EnterSleep
  <2>5. CASE ShellSet
    BY <1>2, <2>5 DEF ShellSet
  <2>6. CASE ShellStart
    BY <1>2, <2>6 DEF ShellStart, SetCurrentColors
  <2>7. CASE Reset
    BY <2>7 DEF Reset
  <2> QED
    BY <1>2, <2>1, <2>2, <2>3, <2>4, <2>5, <2>6, <2>7 DEF Next
<1>3. WakeUps /\ UNCHANGED vars => WakeUps'
  BY DEF vars
<1> QED
  BY <1>1, <1>2, <1>3, TypeCorrect, PTL DEF Spec

LEMMA IndicationInv == Spec => []Indication
<1> USE DEF Indication, IndicationTimed, effects, strip, draw
<1>1. Init => Indication
  BY DEF Init
<1>2. ASSUME TypeOK, Indication, Next PROVE Indication'
  <2>1. CASE NpxThread
    <3>1. CASE BladeArm
      BY <1>2, <3>1 DEF BladeArm, Halt, TypeOK
    <3>2. CASE BladeDraw
      BY <1>2, <3>2 DEF BladeDraw
    <3>3. CASE FrameStart \/ Send \/ StartTransfer \/ GemPixels \/ GemDraw \/ GemArm
      BY <1>2, <3>3 DEF FrameStart, Send, StartTransfer, GemPixels, GemDraw, GemArm, Halt
    <3> QED
      BY <2>1, <3>1, <3>2, <3>3 DEF NpxThread
  <2>2. CASE BladeUpdateI
    BY <1>2, <2>2 DEF BladeUpdateI, TypeOK
  <2>3. CASE GemUpdateI \/ DmaDone
    BY <1>2, <2>3 DEF GemUpdateI, DmaDone
  <2>4. CASE Boot \/ LedsAreOff \/ ShellSet \/ ShellStart
    BY <1>2, <2>4 DEF Boot, LedsAreOff, ShellSet, ShellStart
  <2>5. CASE Command
    BY <1>2, <2>5 DEF Command, SetBlade, TypeOK
  <2>6. CASE ShortPress
    BY <1>2, <2>6 DEF ShortPress, DoBatteryIndication, MainRuns, NpxBlocked
  <2>7. CASE EnterSleep
    BY <1>2, <2>7 DEF EnterSleep, SetBlade, TypeOK
  <2>8. CASE Reset
    BY <2>8 DEF Reset
  <2> QED
    BY <1>2, <2>1, <2>2, <2>3, <2>4, <2>5, <2>6, <2>7, <2>8 DEF Next
<1>3. Indication /\ UNCHANGED vars => Indication'
  BY DEF vars
<1> QED
  BY <1>1, <1>2, <1>3, TypeCorrect, PTL DEF Spec

(* A battery indication never ends with the time of a colour step: the     *)
(* timer is stopped when it begins, and nobody arms it for a step before   *)
(* it is over (LedEffects.cpp:57-93).                                      *)
THEOREM IndicationCorrect == Spec => []IndicationTimed
<1>1. Indication => IndicationTimed
  BY DEF Indication
<1> QED
  BY <1>1, IndicationInv, PTL

-----------------------------------------------------------------------------
(***************************************************************************)
(* What brings the LEDs where they are told to go: the safety cores of     *)
(* BatteryShown, of BladeFollows and of WaitLedsOffEnds.  With fairness,   *)
(* which only TLC's run assumes, what falls with every step comes to an    *)
(* end.                                                                    *)
(***************************************************************************)

(* What Blade_t::Draw has read stays true until it acts on it, but for the *)
(* callback; the strip shows what it is about to overwrite.                *)
DrawStory ==
  /\ npx \in {"Blade", "BladeArm"} => shown = ClrBuf /\ main # "SetColors"
  /\ npx = "BladeArm" =>
       /\ branch = blade.State \/ (branch = "IndicateBattery" /\ blade.State = "EnterIdle")
       /\ ~differs => blade.Curr = blade.Target
  /\ ~NpxBlocked => main # "SetColors" \/ npx = "Send"

LEMMA DrawInit == Init => DrawStory
  BY DEF Init, DrawStory, NpxBlocked

LEMMA DrawStep == TypeOK /\ DrawStory /\ [Next]_vars => DrawStory'
<1> USE DEF DrawStory, effects, strip, draw, NpxBlocked
<1> SUFFICES ASSUME TypeOK, DrawStory, [Next]_vars PROVE DrawStory'
  OBVIOUS
<1>1. CASE NpxThread
  <2>1. CASE Send
    BY <2>1, <1>1 DEF Send, NpxThread
  <2>2. CASE StartTransfer
    BY <2>2, <1>1 DEF StartTransfer, SetCurrentColors, NpxThread
  <2>3. CASE BladeDraw
    BY <2>3 DEF BladeDraw
  <2>4. CASE BladeArm
    BY <2>4 DEF BladeArm, Halt
  <2>5. CASE FrameStart \/ GemPixels \/ GemDraw \/ GemArm
    BY <2>5, <1>1 DEF FrameStart, GemPixels, GemDraw, GemArm, Halt, NpxThread
  <2> QED
    BY <1>1, <2>1, <2>2, <2>3, <2>4, <2>5 DEF NpxThread
<1>2. CASE BladeUpdateI
  <2>1. blade'.Target = blade.Target
    BY <1>2 DEF BladeUpdateI, TypeOK
  <2>2. blade.Curr = blade.Target => blade'.Curr = blade.Curr
    BY <1>2 DEF BladeUpdateI, TypeOK, Adjust, Colors, Targets
  <2>3. blade'.State = IF blade.State = "IndicateBattery" THEN "EnterIdle" ELSE blade.State
    BY <1>2 DEF BladeUpdateI, TypeOK
  <2>4. UNCHANGED <<npx, branch, differs, shown, ClrBuf, main>>
    BY <1>2 DEF BladeUpdateI
  <2> QED
    BY <2>1, <2>2, <2>3, <2>4
<1>3. CASE GemUpdateI \/ DmaDone
  BY <1>3 DEF GemUpdateI, DmaDone
<1>4. CASE Boot \/ LedsAreOff \/ Command \/ ShortPress \/ ShellSet \/ EnterSleep
  BY <1>4 DEF Boot, LedsAreOff, Command, ShortPress, ShellSet, EnterSleep, MainRuns
<1>5. CASE ShellStart
  BY <1>5 DEF ShellStart, SetCurrentColors
<1>6. CASE Reset
  BY <1>6 DEF Reset
<1>7. CASE UNCHANGED vars
  BY <1>7 DEF vars
<1> QED
  BY <1>1, <1>2, <1>3, <1>4, <1>5, <1>6, <1>7 DEF Next

-----------------------------------------------------------------------------
(* The indication of the battery.                                          *)

(* The bars are in the next frame, or the thread has yet to put them there.*)
BarsDrawn == ClrBuf.blade = Bars
BarsOwed ==
  /\ shown.blade # Bars
  /\ BarsDrawn \/ (blade.State = "IndicateBattery" /\ bladeTmr # "Battery")

(* How far NpxThread is from drawing, and then from sending: its places in *)
(* the order in which it passes them.                                      *)
ToArm ==
  [place \in NpxPc |->
     CASE place = "BladeArm" -> 1 [] place = "Blade" -> 2 [] place = "Start" -> 3
       [] place = "Send" -> 4 [] place = "Suspended" -> 5 [] place = "Delay" -> 6
       [] place = "GemArm" -> 7 [] place = "GemCompare" -> 8 [] place = "Gem" -> 9]
BarsAway == IF BarsDrawn THEN ToArm[npx] ELSE 9 + ToArm[npx]

BarsCome ==
  BarsOwed /\ main' = "Run" /\ ~halted' =>
    \/ shown'.blade = Bars
    \/ BarsOwed' /\ BarsAway' <= BarsAway /\ (NpxThread => BarsAway' < BarsAway)

LEMMA ToArmValues ==
  /\ ToArm["BladeArm"] = 1 /\ ToArm["Blade"] = 2 /\ ToArm["Start"] = 3 /\ ToArm["Send"] = 4
  /\ ToArm["Suspended"] = 5 /\ ToArm["Delay"] = 6 /\ ToArm["GemArm"] = 7
  /\ ToArm["GemCompare"] = 8 /\ ToArm["Gem"] = 9
  /\ \A place \in NpxPc : ToArm[place] \in 1 .. 9
  BY DEF ToArm, NpxPc

LEMMA BarsThread ==
  ASSUME TypeOK, Indication, DrawStory, NpxThread, BarsOwed, main' = "Run", ~halted',
         shown'.blade # Bars
  PROVE  BarsOwed' /\ BarsAway' < BarsAway
<1> USE ToArmValues DEF BarsOwed, BarsAway, BarsDrawn, effects, strip, draw
<1>0. Bars # Black /\ Bars \notin Colors
  BY DEF Bars, Black, Colors
<1>1. CASE FrameStart
  BY <1>1 DEF FrameStart
<1>2. CASE Send
  BY <1>0, <1>2 DEF Send, AllBlack
<1>3. CASE StartTransfer
  BY <1>3 DEF StartTransfer, SetCurrentColors
<1>4. CASE BladeDraw
  BY <1>4 DEF BladeDraw, DrawStory
<1>5. CASE BladeArm
  <2>1. ~BarsDrawn /\ blade.State = "IndicateBattery" /\ branch = "IndicateBattery"
    BY <1>5 DEF BladeArm, DrawStory, Indication
  <2>2. ClrBuf'.blade = Bars /\ shown' = shown /\ npx' = "Gem"
    BY <1>5, <2>1 DEF BladeArm, BladePixels, Halt, TypeOK, Frames
  <2> QED
    BY <1>5, <2>1, <2>2 DEF BladeArm
<1>6. CASE GemPixels
  <2>1. ClrBuf'.blade = ClrBuf.blade /\ npx = "Gem" /\ npx' = "GemCompare"
    BY <1>6 DEF GemPixels, TypeOK, Frames
  <2>2. UNCHANGED <<shown, blade, bladeTmr>>
    BY <1>6 DEF GemPixels
  <2> QED
    BY <2>1, <2>2
<1>7. CASE GemDraw
  BY <1>7 DEF GemDraw
<1>8. CASE GemArm
  BY <1>8 DEF GemArm, Halt
<1> QED
  BY <1>1, <1>2, <1>3, <1>4, <1>5, <1>6, <1>7, <1>8 DEF NpxThread

LEMMA BarsStep ==
  ASSUME TypeOK, Indication, DrawStory, [Next]_vars
  PROVE  BarsCome
<1> SUFFICES ASSUME BarsOwed, main' = "Run", ~halted', shown'.blade # Bars
             PROVE  BarsOwed' /\ BarsAway' <= BarsAway /\ (NpxThread => BarsAway' < BarsAway)
  BY DEF BarsCome
<1>0. ToArm[npx] \in 1 .. 9
  BY ToArmValues DEF TypeOK
<1>1. CASE NpxThread
  <2>1. BarsOwed' /\ BarsAway' < BarsAway
    BY <1>1, BarsThread
  <2>2. npx' \in NpxPc
    BY <1>1, ThreadTypes DEF TypeOK
  <2>3. ToArm[npx'] \in 1 .. 9
    BY <2>2, ToArmValues
  <2> QED
    BY <1>0, <2>1, <2>3 DEF BarsAway
<1>2. ASSUME ~NpxThread, UNCHANGED <<npx, shown>>,
             ClrBuf' = ClrBuf,
             \/ blade.State = "IndicateBattery" /\ bladeTmr # "Battery" =>
                  blade'.State = "IndicateBattery" /\ bladeTmr' # "Battery"
      PROVE  BarsOwed' /\ BarsAway' <= BarsAway /\ (NpxThread => BarsAway' < BarsAway)
  BY <1>0, <1>2 DEF BarsOwed, BarsAway, BarsDrawn
<1>3. CASE ~NpxThread /\ BladeUpdateI
  BY <1>2, <1>3 DEF BladeUpdateI, Indication, IndicationTimed, TypeOK, draw, strip
<1>4. CASE ~NpxThread /\ GemUpdateI
  BY <1>2, <1>4 DEF GemUpdateI, draw, strip
<1>5. CASE ~NpxThread /\ DmaDone
  BY <1>0, <1>5, ToArmValues DEF DmaDone, effects, BarsOwed, BarsAway, BarsDrawn
<1>6. CASE ~NpxThread /\ Command
  <2>1. blade'.State = blade.State /\ bladeTmr' = bladeTmr
    BY <1>6 DEF Command, SetBlade, TypeOK
  <2> QED
    BY <1>2, <1>6, <2>1 DEF Command, draw, strip
<1>7. CASE ~NpxThread /\ ShortPress
  BY <1>2, <1>7 DEF ShortPress, DoBatteryIndication, TypeOK, draw, strip
<1>8. CASE ~NpxThread /\ (Boot \/ ShellSet \/ EnterSleep \/ Reset)
  BY <1>8 DEF Boot, ShellSet, EnterSleep, Reset
<1>9. CASE ~NpxThread /\ LedsAreOff
  BY <1>2, <1>9 DEF LedsAreOff, effects, draw, strip
<1>10. CASE ~NpxThread /\ ShellStart
  BY <1>0, <1>10 DEF ShellStart, SetCurrentColors, effects, draw, BarsOwed, BarsAway, BarsDrawn
<1>11. CASE ~NpxThread /\ UNCHANGED vars
  BY <1>2, <1>11 DEF vars, effects, draw, strip
<1> QED
  BY <1>1, <1>3, <1>4, <1>5, <1>6, <1>7, <1>8, <1>9, <1>10, <1>11 DEF Next

LEMMA DrawInv == Spec => [](TypeOK /\ Indication /\ DrawStory)
  BY DrawInit, DrawStep, TypeCorrect, IndicationInv, PTL DEF Spec

(* A short press is never forgotten: until the bars are on the strip, they *)
(* stay owed, and each step of NpxThread, at most eighteen in all, brings  *)
(* them closer, whatever the callback of the timer and the DMA interrupt   *)
(* do in between (LedEffects.cpp:85-103, 190-203).                         *)
THEOREM BarsCorrect == Spec => [][BarsCome]_vars
<1>1. TypeOK /\ Indication /\ DrawStory /\ [Next]_vars => BarsCome
  BY BarsStep
<1> QED
  BY <1>1, DrawInv, PTL DEF Spec

-----------------------------------------------------------------------------
(* The way of a colour to its target.                                      *)
Distance(led) ==
  IF led.Curr < led.Target THEN led.Target - led.Curr ELSE led.Curr - led.Target

(* Phases that are still to come: an indication of the blade, a blink of   *)
(* the gem.                                                                *)
BladePhase ==
  [state \in BladeStates |->
     CASE state = "IndicateBattery" -> 2 [] state = "EnterIdle" -> 1 [] state = "Idle" -> 0]
GemPhase ==
  [state \in GemStates |->
     CASE state = "BlinkFadeIn" -> 2 [] state = "BlinkFadeOut" -> 1 [] state = "Idle" -> 0]

Nearer(phase, led1, led0) ==
  \/ phase[led1.State] < phase[led0.State]
  \/ phase[led1.State] = phase[led0.State] /\ Distance(led1) < Distance(led0)
NotFarther(phase, led1, led0) ==
  \/ Nearer(phase, led1, led0)
  \/ phase[led1.State] = phase[led0.State] /\ Distance(led1) = Distance(led0)

(* Without a command for the blade, nothing takes it away from the colour  *)
(* it was given; each callback of its timer brings it closer, and          *)
(* NpxThread sees to it that there is a timer as long as it has to go.     *)
BladeIsThere == blade.State = "Idle" /\ blade.Curr = blade.Target
BladeApproaches ==
  UNCHANGED <<main, blade.Target>> /\ ~ShortPress =>
    /\ NotFarther(BladePhase, blade', blade)
    /\ BladeUpdateI /\ (blade.State = "IndicateBattery" \/ blade.Curr # blade.Target) =>
         Nearer(BladePhase, blade', blade)
    /\ ~BladeIsThere /\ NpxThread /\ npx = "BladeArm" =>
         bladeTmr' # "Off" \/ Nearer(BladePhase, blade', blade) \/ halted'

(* Once it is there and the strip shows it, it stays so.                   *)
BladeRests ==
  BladeIsThere /\ ClrBuf.blade = blade.Target /\ shown.blade = blade.Target
BladeKeepsResting ==
  UNCHANGED <<main, blade.Target>> /\ main = "Run" /\ ~halted /\ ~ShortPress =>
    (BladeRests => BladeRests')

LEMMA DistanceStep ==
  ASSUME NEW curr \in Colors, NEW target \in Colors,
         NEW led0, led0.Curr = curr, led0.Target = target,
         NEW led1, led1.Curr = Adjust(curr, target), led1.Target = target
  PROVE  /\ Distance(led0) \in Nat /\ Distance(led1) \in Nat
         /\ curr # target => Distance(led1) < Distance(led0)
         /\ curr = target => Distance(led1) = Distance(led0)
  BY DEF Distance, Adjust, Colors

LEMMA DistanceType ==
  ASSUME NEW led, led.Curr \in Colors, led.Target \in Colors
  PROVE  /\ Distance(led) \in Nat
         /\ Distance(led) = 0 <=> led.Curr = led.Target
  BY DEF Distance, Colors

LEMMA Phases ==
  /\ BladePhase["IndicateBattery"] = 2 /\ BladePhase["EnterIdle"] = 1 /\ BladePhase["Idle"] = 0
  /\ GemPhase["BlinkFadeIn"] = 2 /\ GemPhase["BlinkFadeOut"] = 1 /\ GemPhase["Idle"] = 0
  BY DEF BladePhase, GemPhase, BladeStates, GemStates

LEMMA BladeStep ==
  ASSUME TypeOK, Indication, DrawStory, [Next]_vars
  PROVE  BladeApproaches /\ BladeKeepsResting
<1> USE DEF effects, strip, draw
<1>0. /\ blade.Curr \in Colors /\ blade.Target \in Colors
      /\ BladePhase[blade.State] \in 0 .. 2
  <2>1. blade.Curr \in Colors /\ blade.Target \in Colors
    BY ColorTypes DEF TypeOK
  <2>2. blade.State \in BladeStates
    BY DEF TypeOK
  <2>3. BladePhase[blade.State] \in 0 .. 2
    BY <2>2, Phases DEF BladeStates
  <2> QED
    BY <2>1, <2>3
<1>1. CASE BladeUpdateI
  <2>1. /\ UNCHANGED <<npx, ClrBuf, shown, main, halted>>
        /\ blade' = IF blade.State = "IndicateBattery"
                    THEN [blade EXCEPT !.State = "EnterIdle"]
                    ELSE [blade EXCEPT !.Curr = Adjust(blade.Curr, blade.Target)]
    BY <1>1 DEF BladeUpdateI
  <2>2. CASE blade.State = "IndicateBattery"
    <3>1. blade'.State = "EnterIdle"
      BY <2>1, <2>2 DEF TypeOK
    <3>2. Nearer(BladePhase, blade', blade)
      BY <2>2, <3>1, Phases DEF Nearer
    <3>3. ~BladeIsThere
      BY <2>2 DEF BladeIsThere
    <3>4. ~(NpxThread /\ npx = "BladeArm") \/ halted' \/ Nearer(BladePhase, blade', blade)
      BY <3>2
    <3> QED
      BY <3>2, <3>3 DEF BladeApproaches, BladeKeepsResting, NotFarther, BladeRests
  <2>3. CASE blade.State # "IndicateBattery"
    <3>1. /\ blade'.State = blade.State /\ blade'.Target = blade.Target
          /\ blade'.Curr = Adjust(blade.Curr, blade.Target)
      BY <2>1, <2>3 DEF TypeOK
    <3>2. /\ blade.Curr # blade.Target => Distance(blade') < Distance(blade)
          /\ blade.Curr = blade.Target => Distance(blade') = Distance(blade)
      BY <1>0, <3>1, DistanceStep
    <3>3. NotFarther(BladePhase, blade', blade)
      BY <3>1, <3>2 DEF NotFarther, Nearer
    <3>4. blade.Curr # blade.Target => Nearer(BladePhase, blade', blade)
      BY <3>1, <3>2 DEF Nearer
    <3>5. BladeIsThere => BladeIsThere' /\ blade'.Target = blade.Target
      BY <1>0, <3>1 DEF BladeIsThere, Adjust, Colors
    <3>6. ~NpxThread
      BY <1>1 DEF BladeUpdateI, NpxThread, FrameStart, Send, StartTransfer, BladeDraw, BladeArm,
         GemPixels, GemDraw, GemArm, Halt
    <3> QED
      BY <2>1, <2>3, <3>3, <3>4, <3>5, <3>6 DEF BladeApproaches, BladeKeepsResting, BladeRests
  <2> QED
    BY <2>2, <2>3
<1>2. ASSUME blade' = blade, ~BladeUpdateI,
             npx = "BladeArm" => ~NpxThread \/ bladeTmr' # "Off" \/ BladeIsThere \/ halted',
             main' = main /\ main = "Run" /\ ~halted /\ BladeRests => BladeRests'
      PROVE  BladeApproaches /\ BladeKeepsResting
  BY <1>2 DEF BladeApproaches, BladeKeepsResting, NotFarther
<1>3. CASE NpxThread
  <2>0. ~BladeUpdateI
    BY <1>3 DEF BladeUpdateI, NpxThread, FrameStart, Send, StartTransfer, BladeDraw, BladeArm,
       GemPixels, GemDraw, GemArm, Halt
  <2>1. CASE FrameStart \/ BladeDraw \/ GemDraw \/ GemArm
    BY <1>2, <2>0, <2>1 DEF FrameStart, BladeDraw, GemDraw, GemArm, Halt, BladeRests, BladeIsThere
  <2>2. CASE Send
    BY <1>2, <2>0, <2>2 DEF Send, BladeRests, BladeIsThere, AllBlack
  <2>3. CASE StartTransfer
    BY <1>2, <2>0, <2>3 DEF StartTransfer, SetCurrentColors, BladeRests, BladeIsThere
  <2>4. CASE GemPixels
    <3>1. ClrBuf'.blade = ClrBuf.blade /\ npx = "Gem"
      BY <2>4 DEF GemPixels, TypeOK, Frames
    <3>2. UNCHANGED <<blade, shown>>
      BY <2>4 DEF GemPixels
    <3> QED
      BY <1>2, <2>0, <3>1, <3>2 DEF BladeRests, BladeIsThere
  <2>5. CASE BladeArm /\ halted'
    <3>1. UNCHANGED <<blade, shown, ClrBuf>> \/ halted
      BY <2>5 DEF BladeArm, Halt
    <3> QED
      BY <1>2, <2>0, <2>5, <3>1 DEF BladeArm, Alive, BladeRests, BladeIsThere
  <2>6. CASE BladeArm /\ ~halted'
    <3> DEFINE timed == branch = "IndicateBattery"
               arm == (timed \/ differs) /\ bladeTmr = "Off"
    <3>1. /\ bladeTmr' = IF arm THEN (IF timed THEN "Battery" ELSE "Step") ELSE bladeTmr
          /\ ClrBuf' = [ClrBuf EXCEPT !.blade = BladePixels]
          /\ blade' = IF branch = "EnterIdle" THEN [blade EXCEPT !.State = "Idle"] ELSE blade
          /\ shown' = shown /\ npx = "BladeArm"
      BY <2>6 DEF BladeArm, Halt
    <3>2. CASE branch = "EnterIdle"
      <4>1. blade.State = "EnterIdle"
        BY <3>1, <3>2 DEF DrawStory
      <4>2. blade'.State = "Idle"
        BY <3>1, <3>2 DEF TypeOK
      <4>3. Nearer(BladePhase, blade', blade)
        BY <4>1, <4>2, Phases DEF Nearer
      <4> QED
        BY <2>0, <4>1, <4>3 DEF BladeApproaches, BladeKeepsResting, NotFarther, BladeRests,
           BladeIsThere
    <3>3. CASE branch # "EnterIdle"
      <4>1. blade' = blade
        BY <3>1, <3>3
      <4>2. bladeTmr' # "Off" \/ BladeIsThere
        <5>1. CASE bladeTmr # "Off"
          BY <3>1, <5>1
        <5>2. CASE bladeTmr = "Off" /\ (timed \/ differs)
          BY <3>1, <5>2
        <5>3. CASE ~timed /\ ~differs
          BY <3>1, <3>3, <5>3 DEF DrawStory, BladeIsThere, TypeOK, BladeStates
        <5> QED
          BY <5>1, <5>2, <5>3
      <4>3. BladeRests => BladeRests'
        <5> SUFFICES ASSUME BladeRests PROVE BladeRests'
          OBVIOUS
        <5>1. branch = "Idle"
          BY <3>1, <3>3 DEF DrawStory, BladeRests, BladeIsThere
        <5>2. ClrBuf'.blade = blade.Curr
          BY <3>1, <5>1 DEF BladePixels, TypeOK, Frames
        <5> QED
          BY <3>1, <4>1, <5>2 DEF BladeRests, BladeIsThere
      <4> QED
        BY <1>2, <2>0, <4>1, <4>2, <4>3
    <3> QED
      BY <3>2, <3>3
  <2> QED
    BY <1>3, <2>1, <2>2, <2>3, <2>4, <2>5, <2>6 DEF NpxThread
<1>4. ASSUME ~NpxThread, ~BladeUpdateI, blade' = blade, UNCHANGED <<ClrBuf, shown>>
      PROVE  BladeApproaches /\ BladeKeepsResting
  BY <1>2, <1>4 DEF BladeRests, BladeIsThere
<1>5. CASE ~NpxThread /\ ~BladeUpdateI /\ (GemUpdateI \/ DmaDone \/ LedsAreOff \/ UNCHANGED vars)
  BY <1>4, <1>5 DEF GemUpdateI, DmaDone, LedsAreOff, vars
<1>6. CASE ~NpxThread /\ ~BladeUpdateI /\ Command
  <2>1. UNCHANGED <<ClrBuf, shown>> /\ (blade'.Target = blade.Target => blade' = blade)
    BY <1>6 DEF Command, SetBlade, TypeOK
  <2> QED
    BY <1>4, <1>6, <2>1 DEF BladeApproaches, BladeKeepsResting
<1>7. CASE ~NpxThread /\ ~BladeUpdateI /\ ShortPress
  BY <1>7 DEF BladeApproaches, BladeKeepsResting
<1>8. CASE ~NpxThread /\ ~BladeUpdateI /\ (Boot \/ EnterSleep \/ ShellSet \/ ShellStart)
  BY <1>8 DEF Boot, EnterSleep, ShellSet, ShellStart, BladeApproaches, BladeKeepsResting
<1>9. CASE ~NpxThread /\ ~BladeUpdateI /\ Reset
  <2>1. blade' = [Curr |-> Black, Target |-> Black, State |-> "Idle"]
    BY <1>9 DEF Reset
  <2>2. blade'.Curr \in Colors /\ blade'.Target \in Colors /\ blade'.Curr = blade'.Target
    BY <2>1, ColorTypes
  <2>3. Distance(blade') = 0 /\ BladePhase[blade'.State] = 0
    BY <2>1, <2>2, DistanceType, Phases
  <2>4. Distance(blade) \in Nat
    BY <1>0, DistanceType
  <2>5. NotFarther(BladePhase, blade', blade)
    BY <1>0, <2>3, <2>4 DEF NotFarther, Nearer
  <2>6. ~(main = "Run" /\ ~halted)
    BY <1>9 DEF Reset, Alive
  <2> QED
    BY <1>9, <2>5, <2>6 DEF BladeApproaches, BladeKeepsResting
<1> QED
  BY <1>1, <1>3, <1>5, <1>6, <1>7, <1>8, <1>9 DEF Next

(* BladeFollows: the blade gets to the colour it was last given, from any  *)
(* colour and out of an indication, and never goes on past it: nothing but *)
(* a command or a short press takes it away, and NpxThread never leaves it *)
(* on its way without a timer (LedEffects.cpp:57-103).                     *)
THEOREM BladeCorrect == Spec => [][BladeApproaches /\ BladeKeepsResting]_vars
<1>1. TypeOK /\ Indication /\ DrawStory /\ [Next]_vars => BladeApproaches /\ BladeKeepsResting
  BY BladeStep
<1> QED
  BY <1>1, DrawInv, PTL DEF Spec

-----------------------------------------------------------------------------
(* The gem, and the flash that WaitLedsOff waits for.                      *)

(* The flash of power-on and of EnterSleep is a single one and ends dark,  *)
(* whatever blinking came before it.                                       *)
FlashStory ==
  /\ gem.State = "BlinkFadeOut" => gem.Target = Black
  /\ main \in {"WaitOn", "Fade"} =>
       /\ ~gem.Forever /\ gem.Blink = Black
       /\ gem.State = "Idle" => GemIsIdle /\ gem.Target = Black

(* Without a command for the gem, and unless it blinks forever, nothing    *)
(* takes it away from its end: each callback brings it closer, NpxThread   *)
(* goes on to the next phase at the end of one and otherwise sees to it    *)
(* that there is a timer.                                                  *)
GemApproaches ==
  UNCHANGED main /\ ~Command /\ ~gem.Forever =>
    /\ NotFarther(GemPhase, gem', gem)
    /\ GemUpdateI /\ gem.Curr # gem.Target => Nearer(GemPhase, gem', gem)
    /\ NpxThread /\ npx = "GemCompare" =>
         \/ gem.Curr = gem.Target /\ gem.State = "Idle"
         \/ Nearer(GemPhase, gem', gem)
         \/ npx' = "GemArm"
    /\ NpxThread /\ npx = "GemArm" => gemTmr' # "Off" \/ halted'

LEMMA FlashInit == Init => FlashStory
  BY DEF Init, FlashStory

LEMMA GemUpdate ==
  ASSUME TypeOK, GemUpdateI
  PROVE  /\ gem'.State = gem.State /\ gem'.Target = gem.Target
         /\ gem'.Blink = gem.Blink /\ gem'.Forever = gem.Forever
         /\ gem'.Curr = Adjust(gem.Curr, gem.Target)
         /\ main' = main
  BY DEF GemUpdateI, TypeOK

(* Gem_t::Draw at the end of a phase.                                      *)
LEMMA GemPhaseEnds ==
  ASSUME TypeOK, GemDraw, gem.Curr = gem.Target
  PROVE  /\ gem.State = "BlinkFadeIn" => /\ gem'.State = "BlinkFadeOut" /\ gem'.Target = Black
                                         /\ gem'.Curr = gem.Curr
                                         /\ gem'.Blink = gem.Blink /\ gem'.Forever = gem.Forever
         /\ gem.State = "BlinkFadeOut" =>
              /\ gem'.State = IF gem.Forever THEN "BlinkFadeIn" ELSE "Idle"
              /\ gem'.Curr = gem.Curr
              /\ gem'.Blink = gem.Blink /\ gem'.Forever = gem.Forever
         /\ gem.State = "Idle" => gem' = gem
         /\ main' = main
<1>1. gem' = NextBlinkPhase /\ main' = main
  BY DEF GemDraw
<1>2. gem.State \in GemStates
  BY DEF TypeOK
<1>3. CASE gem.State = "BlinkFadeIn"
  <2>1. gem' = [gem EXCEPT !.State = "BlinkFadeOut", !.Target = Black]
    BY <1>1, <1>3 DEF NextBlinkPhase
  <2> QED
    BY <1>1, <1>3, <2>1 DEF TypeOK
<1>4. CASE gem.State = "BlinkFadeOut"
  <2>1. gem' = [gem EXCEPT !.State = IF gem.Forever THEN "BlinkFadeIn" ELSE "Idle",
                           !.Target = gem.Blink]
    BY <1>1, <1>4 DEF NextBlinkPhase
  <2> QED
    BY <1>1, <1>4, <2>1 DEF TypeOK
<1>5. CASE gem.State = "Idle"
  BY <1>1, <1>5 DEF NextBlinkPhase
<1> QED
  BY <1>2, <1>3, <1>4, <1>5 DEF GemStates

LEMMA FlashStep == TypeOK /\ FlashStory /\ [Next]_vars => FlashStory'
<1> USE DEF FlashStory, GemIsIdle
<1> SUFFICES ASSUME TypeOK, FlashStory, [Next]_vars PROVE FlashStory'
  OBVIOUS
<1>1. ASSUME UNCHANGED <<gem, main>> PROVE FlashStory'
  BY <1>1
<1>2. CASE GemUpdateI
  <2>1. Adjust(Black, Black) = Black
    BY DEF Adjust, Black
  <2>2. main \in {"WaitOn", "Fade"} /\ gem.State = "Idle" =>
          gem.Curr = Black /\ gem'.Curr = Black
    BY <1>2, <2>1, GemUpdate
  <2> QED
    BY <1>2, <2>2, GemUpdate
<1>3. CASE GemDraw
  <2>1. CASE gem.Curr = gem.Target
    <3>0. main' = main /\ gem.State \in GemStates
      BY <1>3, <2>1, GemPhaseEnds DEF TypeOK
    <3>1. CASE gem.State = "BlinkFadeIn"
      <4>1. /\ gem'.State = "BlinkFadeOut" /\ gem'.Target = Black
            /\ gem'.Blink = gem.Blink /\ gem'.Forever = gem.Forever
        BY <1>3, <2>1, <3>1, GemPhaseEnds
      <4> QED
        BY <3>0, <4>1
    <3>2. CASE gem.State = "BlinkFadeOut"
      <4>1. /\ gem'.State = IF gem.Forever THEN "BlinkFadeIn" ELSE "Idle"
            /\ gem'.Curr = Black
            /\ gem'.Blink = gem.Blink /\ gem'.Forever = gem.Forever
        BY <1>3, <2>1, <3>2, GemPhaseEnds
      <4>2. gem'.State # "BlinkFadeOut"
        BY <4>1
      <4>3. main \in {"WaitOn", "Fade"} => gem'.Target = Black
        <5>1. gem' = [gem EXCEPT !.State = IF gem.Forever THEN "BlinkFadeIn" ELSE "Idle",
                                 !.Target = gem.Blink]
          BY <1>3, <2>1, <3>2 DEF GemDraw, NextBlinkPhase
        <5>2. gem'.Target = gem.Blink
          BY <5>1 DEF TypeOK
        <5> QED
          BY <5>2
      <4> QED
        BY <3>0, <4>1, <4>2, <4>3
    <3>3. CASE gem.State = "Idle"
      BY <1>1, <1>3, <2>1, <3>3, GemPhaseEnds
    <3> QED
      BY <3>0, <3>1, <3>2, <3>3 DEF GemStates
  <2>2. CASE gem.Curr # gem.Target
    BY <1>1, <1>3, <2>2 DEF GemDraw
  <2> QED
    BY <2>1, <2>2
<1>4. CASE NpxThread /\ ~GemDraw
  BY <1>1, <1>4 DEF NpxThread, FrameStart, Send, StartTransfer, BladeDraw, BladeArm, GemPixels,
     GemArm, Halt, effects
<1>5. CASE BladeUpdateI \/ DmaDone \/ ShortPress
  BY <1>1, <1>5 DEF BladeUpdateI, DmaDone, ShortPress, effects
<1>6. CASE Boot
  BY <1>6 DEF Boot, BlinkOnce
<1>7. CASE EnterSleep
  BY <1>7 DEF EnterSleep, BlinkOnce
<1>8. CASE LedsAreOff
  BY <1>8 DEF LedsAreOff, effects
<1>9. CASE Command
  <2>1. main = "Run" /\ main' = "Run"
    BY <1>9 DEF Command
  <2> DEFINE Kept ==
        gem'.State = "BlinkFadeOut" => gem.State = "BlinkFadeOut" /\ gem'.Target = gem.Target
  <2>2. Kept
    <3>1. ASSUME gem' = gem PROVE Kept
      BY <3>1
    <3>2. ASSUME NEW clr \in Targets, SetGem(clr) PROVE gem'.State = "Idle"
      BY <3>2 DEF SetGem, TypeOK
    <3>3. ASSUME NEW clr \in Lit, BlinkForeverOrContinue(clr)
          PROVE  Kept
      <4>1. CASE gem.State = "Idle"
        BY <3>3, <4>1 DEF BlinkForeverOrContinue
      <4>2. CASE gem.State # "Idle"
        BY <3>3, <4>2 DEF BlinkForeverOrContinue, TypeOK
      <4> QED
        BY <4>1, <4>2
    <3> QED
      BY <1>9, <3>1, <3>2, <3>3 DEF Command
  <2> QED
    BY <2>1, <2>2
<1>10. CASE ShellSet \/ ShellStart
  BY <1>10 DEF ShellSet, ShellStart, effects
<1>11. CASE Reset
  BY <1>11 DEF Reset
<1>12. CASE UNCHANGED vars
  BY <1>1, <1>12 DEF vars, effects
<1> QED
  BY <1>2, <1>3, <1>4, <1>5, <1>6, <1>7, <1>8, <1>9, <1>10, <1>11, <1>12 DEF Next

LEMMA GemStep == ASSUME TypeOK, [Next]_vars PROVE GemApproaches
<1> SUFFICES ASSUME main' = main, ~Command, gem.Forever = FALSE PROVE GemApproaches
  BY DEF GemApproaches, TypeOK
<1>0. gem.Curr \in Colors /\ gem.Target \in Colors
  BY ColorTypes DEF TypeOK
<1>1. CASE GemUpdateI
  <2>1. /\ gem.Curr # gem.Target => Distance(gem') < Distance(gem)
        /\ gem.Curr = gem.Target => Distance(gem') = Distance(gem)
    BY <1>0, <1>1, GemUpdate, DistanceStep
  <2>2. gem'.State = gem.State
    BY <1>1, GemUpdate
  <2>3. ~NpxThread
    BY <1>1 DEF GemUpdateI, NpxThread, FrameStart, Send, StartTransfer, BladeDraw, BladeArm,
       GemPixels, GemDraw, GemArm, Halt, draw, effects
  <2> QED
    BY <2>1, <2>2, <2>3 DEF GemApproaches, NotFarther, Nearer
<1>2. CASE ~GemUpdateI /\ GemDraw
  <2>1. npx = "GemCompare"
    BY <1>2 DEF GemDraw
  <2>2. CASE gem.Curr = gem.Target /\ gem.State # "Idle"
    <3>1. Nearer(GemPhase, gem', gem)
      BY <1>2, <2>2, GemPhaseEnds, Phases DEF Nearer, TypeOK, GemStates
    <3> QED
      BY <1>2, <2>1, <3>1 DEF GemApproaches, NotFarther
  <2>3. CASE gem.Curr = gem.Target /\ gem.State = "Idle"
    BY <1>2, <2>1, <2>3, GemPhaseEnds DEF GemApproaches, NotFarther
  <2>4. CASE gem.Curr # gem.Target
    BY <1>2, <2>1, <2>4 DEF GemDraw, GemApproaches, NotFarther
  <2> QED
    BY <2>2, <2>3, <2>4
<1>3. ASSUME ~GemUpdateI, gem' = gem,
             NpxThread => npx # "GemCompare" /\ (npx = "GemArm" => gemTmr' # "Off" \/ halted')
      PROVE  GemApproaches
  BY <1>3 DEF GemApproaches, NotFarther
<1>4. CASE ~GemUpdateI /\ NpxThread /\ ~GemDraw
  BY <1>3, <1>4 DEF NpxThread, FrameStart, Send, StartTransfer, BladeDraw, BladeArm, GemPixels,
     GemArm, Halt, effects
<1>5. CASE ~GemUpdateI /\ ~NpxThread
           /\ \/ BladeUpdateI \/ DmaDone \/ ShortPress \/ LedsAreOff \/ ShellSet \/ ShellStart
              \/ UNCHANGED vars
  BY <1>3, <1>5 DEF BladeUpdateI, DmaDone, ShortPress, LedsAreOff, ShellSet, ShellStart, vars,
     effects
<1>6. ~Boot /\ ~EnterSleep
  BY DEF Boot, EnterSleep
<1>7. CASE ~GemUpdateI /\ ~NpxThread /\ Reset
  <2>1. gem' = [Curr |-> Black, Target |-> Black, Blink |-> Black,
                State |-> "Idle", Forever |-> FALSE]
    BY <1>7 DEF Reset
  <2>2. gem'.Curr \in Colors /\ gem'.Target \in Colors /\ gem'.Curr = gem'.Target
    BY <2>1, ColorTypes
  <2>3. Distance(gem') = 0 /\ GemPhase[gem'.State] = 0
    BY <2>1, <2>2, DistanceType, Phases
  <2>4. Distance(gem) \in Nat
    BY <1>0, DistanceType
  <2>5. gem.State \in GemStates
    BY DEF TypeOK
  <2>6. GemPhase[gem.State] \in 0 .. 2
    BY <2>5, Phases DEF GemStates
  <2>7. NotFarther(GemPhase, gem', gem)
    BY <2>3, <2>4, <2>6 DEF NotFarther, Nearer
  <2> QED
    BY <1>7, <2>7 DEF GemApproaches
<1> QED
  BY <1>1, <1>2, <1>4, <1>5, <1>6, <1>7 DEF Next

(* WaitLedsOff reloads the watchdog itself, so it must end                 *)
(* (LedEffects.cpp:253-258): while it waits, the gem runs a single flash   *)
(* whose phases and colours only ever go towards black, and its end is     *)
(* what the poll waits for.  The same way it goes in Run to any colour it  *)
(* is given.                                                               *)
THEOREM GemCorrect == Spec => []FlashStory /\ [][GemApproaches]_vars
<1>1. TypeOK /\ [Next]_vars => GemApproaches
  BY GemStep
<1> QED
  BY <1>1, FlashInit, FlashStep, TypeCorrect, PTL DEF Spec

-----------------------------------------------------------------------------
(* The blinking that shows that the sword is charging.                     *)

(* A blink rises to a colour that is to be seen, and its timer is armed    *)
(* only while there is a way to go.                                        *)
BlinkStory ==
  /\ gem.State = "BlinkFadeIn" => gem.Target # Black
  /\ gem.State = "BlinkFadeOut" => gem.Target = Black
  /\ gem.Forever => gem.Blink # Black
  /\ gem.State # "Idle" /\ gemTmr # "Off" => gem.Curr # gem.Target

(* While the gem blinks, one step leaves the phase as it is and its colour *)
(* as far on, or ends the phase; and a phase ends only with its colour     *)
(* reached and no timer armed, so that the next frame shows it.  No        *)
(* command for more blinking and no radio check sets it back.              *)
KeepsPhase ==
  /\ gem'.State = gem.State /\ gem'.Target = gem.Target
  /\ Distance(gem') <= Distance(gem)
  /\ GemUpdateI /\ gem.Curr # gem.Target => Distance(gem') < Distance(gem)
  /\ NpxThread /\ npx = "GemCompare" => npx' = "GemArm"
  /\ NpxThread /\ npx = "GemArm" => gemTmr' # "Off" \/ halted'
EndsPhase ==
  /\ NpxThread /\ npx = "GemCompare" /\ gem.Curr = gem.Target
  /\ gem'.State # gem.State /\ gem'.Curr = gem.Curr
  /\ gemTmr' = "Off"
BlinkGoesOn ==
  gem.State # "Idle" /\ gem'.State # "Idle" /\ UNCHANGED main => KeepsPhase \/ EndsPhase

LEMMA BlinkInit == Init => BlinkStory
  BY DEF Init, BlinkStory

LEMMA BlinkStep == TypeOK /\ BlinkStory /\ [Next]_vars => BlinkStory'
<1> USE DEF BlinkStory
<1> SUFFICES ASSUME TypeOK, BlinkStory, [Next]_vars PROVE BlinkStory'
  OBVIOUS
<1>0. \A clr \in Lit : clr # Black
  BY LAssumption DEF LAssumption, Black
<1>1. ASSUME UNCHANGED <<gem, gemTmr>> PROVE BlinkStory'
  BY <1>1
<1>2. CASE GemUpdateI
  <2>1. gemTmr' = "Off"
    BY <1>2 DEF GemUpdateI
  <2> QED
    BY <1>2, <2>1, GemUpdate
<1>3. CASE GemDraw
  <2>1. /\ gemTmr' = gemTmr
        /\ gem' = gem \/ (gem' = NextBlinkPhase /\ gem.Curr = gem.Target)
    BY <1>3 DEF GemDraw
  <2>2. CASE gem' = NextBlinkPhase /\ gem.State = "BlinkFadeIn"
    <3>1. gem' = [gem EXCEPT !.State = "BlinkFadeOut", !.Target = Black]
      BY <2>2 DEF NextBlinkPhase
    <3>2. /\ gem'.State = "BlinkFadeOut" /\ gem'.Target = Black /\ gem'.Curr = gem.Curr
          /\ gem'.Forever = gem.Forever /\ gem'.Blink = gem.Blink
      BY <3>1 DEF TypeOK
    <3> QED
      BY <2>1, <2>2, <3>2
  <2>3. CASE gem' = NextBlinkPhase /\ gem.State = "BlinkFadeOut"
    <3>1. gem' = [gem EXCEPT !.State = IF gem.Forever THEN "BlinkFadeIn" ELSE "Idle",
                             !.Target = gem.Blink]
      BY <2>3 DEF NextBlinkPhase
    <3>2. /\ gem'.State = IF gem.Forever THEN "BlinkFadeIn" ELSE "Idle"
          /\ gem'.Target = gem.Blink /\ gem'.Curr = gem.Curr
          /\ gem'.Forever = gem.Forever /\ gem'.Blink = gem.Blink
      BY <3>1 DEF TypeOK
    <3> QED
      BY <2>1, <2>3, <3>2
  <2>4. CASE gem' = NextBlinkPhase /\ gem.State \notin {"BlinkFadeIn", "BlinkFadeOut"}
    BY <1>1, <2>1, <2>4 DEF NextBlinkPhase
  <2> QED
    BY <1>1, <2>1, <2>2, <2>3, <2>4
<1>4. CASE GemArm
  BY <1>1, <1>4 DEF GemArm, Halt, effects
<1>5. CASE NpxThread /\ ~GemDraw /\ ~GemArm
  BY <1>1, <1>5 DEF NpxThread, FrameStart, Send, StartTransfer, BladeDraw, BladeArm, GemPixels,
     Halt, effects
<1>6. CASE BladeUpdateI \/ DmaDone \/ ShortPress \/ LedsAreOff
  BY <1>1, <1>6 DEF BladeUpdateI, DmaDone, ShortPress, LedsAreOff, effects
<1>7. CASE Boot \/ EnterSleep
  BY <1>0, <1>7 DEF Boot, EnterSleep, BlinkOnce
<1>8. CASE Command
  <2>1. CASE UNCHANGED <<gem, gemTmr>>
    BY <1>1, <2>1
  <2>2. ASSUME NEW clr \in Targets, SetGem(clr) PROVE BlinkStory'
    BY <2>2 DEF SetGem, TypeOK
  <2>3. ASSUME NEW clr \in Lit, BlinkForeverOrContinue(clr) PROVE BlinkStory'
    <3>1. CASE gem.State = "Idle"
      BY <1>0, <2>3, <3>1 DEF BlinkForeverOrContinue
    <3>2. CASE gem.State # "Idle"
      BY <1>0, <2>3, <3>2 DEF BlinkForeverOrContinue, TypeOK
    <3> QED
      BY <3>1, <3>2
  <2> QED
    BY <1>8, <2>1, <2>2, <2>3 DEF Command
<1>9. CASE ShellSet \/ ShellStart
  BY <1>1, <1>9 DEF ShellSet, ShellStart, effects
<1>10. CASE Reset
  BY <1>10 DEF Reset
<1>11. CASE UNCHANGED vars
  BY <1>1, <1>11 DEF vars, effects
<1> QED
  BY <1>2, <1>3, <1>4, <1>5, <1>6, <1>7, <1>8, <1>9, <1>10, <1>11 DEF Next

LEMMA BlinkKept == ASSUME TypeOK, BlinkStory, [Next]_vars PROVE BlinkGoesOn
<1> SUFFICES ASSUME gem.State # "Idle", gem'.State # "Idle", main' = main
             PROVE  KeepsPhase \/ EndsPhase
  BY DEF BlinkGoesOn
<1>0. gem.Curr \in Colors /\ gem.Target \in Colors /\ Distance(gem) \in Nat
  <2>1. gem.Curr \in Colors /\ gem.Target \in Colors
    BY ColorTypes DEF TypeOK
  <2> QED
    BY <2>1, DistanceType
<1>1. CASE GemUpdateI
  <2>1. /\ gem.Curr # gem.Target => Distance(gem') < Distance(gem)
        /\ Distance(gem') <= Distance(gem)
    BY <1>0, <1>1, GemUpdate, DistanceStep
  <2>2. gem'.State = gem.State /\ gem'.Target = gem.Target
    BY <1>1, GemUpdate
  <2>3. ~NpxThread
    BY <1>1 DEF GemUpdateI, NpxThread, FrameStart, Send, StartTransfer, BladeDraw, BladeArm,
       GemPixels, GemDraw, GemArm, Halt, draw, effects
  <2> QED
    BY <2>1, <2>2, <2>3 DEF KeepsPhase
<1>2. ASSUME ~GemUpdateI, gem'.State = gem.State, gem'.Target = gem.Target, gem'.Curr = gem.Curr,
             NpxThread /\ npx = "GemCompare" => npx' = "GemArm",
             NpxThread /\ npx = "GemArm" => gemTmr' # "Off" \/ halted'
      PROVE  KeepsPhase
  <2>1. Distance(gem') = Distance(gem)
    BY <1>2 DEF Distance
  <2>2. Distance(gem') <= Distance(gem)
    BY <1>0, <2>1
  <2> QED
    BY <1>2, <2>2 DEF KeepsPhase
<1>3. CASE ~GemUpdateI /\ NpxThread /\ GemDraw
  <2>1. npx = "GemCompare" /\ NpxThread
    BY <1>3 DEF GemDraw
  <2>2. CASE gem.Curr = gem.Target
    <3>1. gem'.State # gem.State /\ gem'.Curr = gem.Curr
      BY <1>3, <2>2, GemPhaseEnds DEF TypeOK, GemStates
    <3>2. gemTmr' = "Off"
      BY <1>3, <2>2 DEF GemDraw, BlinkStory
    <3> QED
      BY <2>1, <2>2, <3>1, <3>2 DEF EndsPhase
  <2>3. CASE gem.Curr # gem.Target
    BY <1>2, <1>3, <2>1, <2>3 DEF GemDraw
  <2> QED
    BY <2>2, <2>3
<1>4. CASE ~GemUpdateI /\ NpxThread /\ ~GemDraw
  BY <1>2, <1>4 DEF NpxThread, FrameStart, Send, StartTransfer, BladeDraw, BladeArm, GemPixels,
     GemArm, Halt, effects
<1>5. CASE ~GemUpdateI /\ ~NpxThread
           /\ \/ BladeUpdateI \/ DmaDone \/ ShortPress \/ LedsAreOff \/ ShellSet \/ ShellStart
              \/ UNCHANGED vars
  BY <1>2, <1>5 DEF BladeUpdateI, DmaDone, ShortPress, LedsAreOff, ShellSet, ShellStart, vars,
     effects
<1>6. ~Boot /\ ~EnterSleep /\ ~Reset
  BY DEF Boot, EnterSleep, Reset
<1>7. CASE ~GemUpdateI /\ ~NpxThread /\ Command
  <2>1. CASE UNCHANGED gem
    BY <1>2, <1>7, <2>1
  <2>2. ASSUME NEW clr \in Targets, SetGem(clr) PROVE FALSE
    BY <2>2 DEF SetGem, TypeOK
  <2>3. ASSUME NEW clr \in Lit, BlinkForeverOrContinue(clr) PROVE KeepsPhase
    <3>1. gem' = [gem EXCEPT !.Blink = clr, !.Forever = TRUE]
      BY <2>3 DEF BlinkForeverOrContinue
    <3>2. gem'.State = gem.State /\ gem'.Target = gem.Target /\ gem'.Curr = gem.Curr
      BY <3>1 DEF TypeOK
    <3> QED
      BY <1>2, <1>7, <3>2
  <2> QED
    BY <1>7, <2>1, <2>2, <2>3 DEF Command
<1> QED
  BY <1>1, <1>3, <1>4, <1>5, <1>6, <1>7 DEF Next

(* Gem_t::BlinkForeverOrContinue is called with every event of the ADC and *)
(* every radio check while the sword charges (LedEffects.cpp:126-138): the *)
(* phases, up to a colour that is seen and down to black, follow each      *)
(* other, each drawn to its end, and no call starts one over.              *)
THEOREM BlinkCorrect == Spec => []BlinkStory /\ [][BlinkGoesOn]_vars
<1>1. TypeOK /\ BlinkStory /\ [Next]_vars => BlinkGoesOn
  BY BlinkKept
<1> QED
  BY <1>1, BlinkInit, BlinkStep, TypeCorrect, PTL DEF Spec
=============================================================================
