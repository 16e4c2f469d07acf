------------------------ MODULE DisplayPower_proofs ------------------------
(***************************************************************************)
(* The safety of DisplayPower, for every range of percentages, every list  *)
(* of timeouts, every length of the settings channel and any number of     *)
(* refused commands; and, at the end, that of Inputs, which feeds the same *)
(* loop its key presses, touches and USB power.                            *)
(***************************************************************************)
EXTENDS DisplayPower, TLAPS

(* Facts about the settings' controls.                                      *)
LEMMA SettingsConstants ==
  /\ MinPercent \in Nat /\ MaxPercent \in Nat /\ StepPercent \in Nat
  /\ MinPercent <= MaxPercent
  /\ Timeouts \in Seq(Nat) /\ Len(Timeouts) \in Nat \ {0}
  /\ Default \in DisplaySettings /\ Valid(Default)
<1>1. Timeouts \in Seq(Nat) /\ Timeouts # <<>>
  BY DisplaySettingsAssumption
<1>2. Len(Timeouts) \in Nat \ {0}
  BY <1>1
<1> QED BY <1>2, DisplaySettingsAssumption

(* A stepped percentage is within its range.                                *)
LEMMA SteppedPercentInRange ==
  ASSUME NEW p \in Percents, NEW d \in Directions
  PROVE  SteppedPercent(p, d) \in Percents
BY SettingsConstants DEF Percents, Directions, SteppedPercent, Lesser, Greater

LEMMA TimeoutStepInOptions ==
  ASSUME NEW s \in DisplaySettings, NEW d \in Directions
  PROVE  /\ IdleTimeoutStep(s, d) \in DisplaySettings
         /\ Valid(s) => Valid(IdleTimeoutStep(s, d))
<1> DEFINE index == CHOOSE i \in 1..Len(Timeouts) : Timeouts[i] = s.idleTimeout
           next == IF d < 0 THEN Greater(index - 1, 1) ELSE Lesser(index + 1, Len(Timeouts))
<1>1. \E i \in 1..Len(Timeouts) : Timeouts[i] = s.idleTimeout
  BY DEF DisplaySettings, TimeoutOptions
<1>2. index \in 1..Len(Timeouts)
  BY <1>1
<1>3. next \in 1..Len(Timeouts)
  <2> HIDE DEF index
  <2> QED BY <1>2, SettingsConstants DEF Directions, Greater, Lesser
<1> HIDE DEF next
<1>4. Timeouts[next] \in TimeoutOptions
  BY <1>3 DEF TimeoutOptions
<1>5. IdleTimeoutStep(s, d) = [s EXCEPT !.idleTimeout = Timeouts[next]]
  BY DEF IdleTimeoutStep, next
<1> QED BY <1>4, <1>5 DEF DisplaySettings, Valid

(* No control leads out of the valid settings: encode_settings's assertion. *)
LEMMA EditsKeepValid ==
  ASSUME NEW s \in DisplaySettings, Valid(s), NEW t \in Edited(s)
  PROVE  t \in DisplaySettings /\ Valid(t)
<1>0. /\ s.brightness \in Percents /\ s.dimBrightness \in Percents
      /\ s.brightness \in Nat /\ s.dimBrightness \in Nat
      /\ s.dimBrightness <= s.brightness
  BY SettingsConstants DEF DisplaySettings, Valid, Percents
<1>1. CASE t = ToggleAutoDim(s)
  BY <1>1, <1>0 DEF ToggleAutoDim, DisplaySettings, Valid
<1>2. CASE t = ToggleDimOnUsb(s)
  BY <1>2, <1>0 DEF ToggleDimOnUsb, DisplaySettings, Valid
<1>3. ASSUME NEW d \in Directions, t = BrightnessStep(s, d)
      PROVE  t \in DisplaySettings /\ Valid(t)
  <2> DEFINE b == SteppedPercent(s.brightness, d)
             dim == Greater(Lesser(s.dimBrightness, b), MinPercent)
  <2>1. b \in Percents
    BY <1>0, SteppedPercentInRange
  <2> HIDE DEF b
  <2>2. dim \in Percents /\ dim <= b
    BY <2>1, <1>0, SettingsConstants DEF Percents, Lesser, Greater
  <2>3. t = [s EXCEPT !.brightness = b, !.dimBrightness = dim]
    BY <1>3 DEF BrightnessStep, b
  <2> HIDE DEF dim
  <2>4. t \in DisplaySettings /\ t.brightness = b /\ t.dimBrightness = dim
    BY <2>1, <2>2, <2>3 DEF DisplaySettings
  <2> QED BY <2>2, <2>4 DEF Valid
<1>4. ASSUME NEW d \in Directions, t = DimBrightnessStep(s, d)
      PROVE  t \in DisplaySettings /\ Valid(t)
  <2> DEFINE b == SteppedPercent(s.dimBrightness, d)
             dim == Lesser(b, s.brightness)
  <2>1. b \in Percents
    BY <1>0, SteppedPercentInRange
  <2> HIDE DEF b
  <2>2. dim \in Percents /\ dim <= s.brightness
    BY <2>1, <1>0, SettingsConstants DEF Percents, Lesser
  <2>3. t = [s EXCEPT !.dimBrightness = dim]
    BY <1>4 DEF DimBrightnessStep, b
  <2> HIDE DEF dim
  <2>4. t \in DisplaySettings /\ t.brightness = s.brightness /\ t.dimBrightness = dim
    BY <2>2, <2>3 DEF DisplaySettings
  <2> QED BY <2>2, <2>4 DEF Valid
<1>5. ASSUME NEW d \in Directions, t = IdleTimeoutStep(s, d)
      PROVE  t \in DisplaySettings /\ Valid(t)
  BY <1>5, TimeoutStepInOptions
<1> QED BY <1>1, <1>2, <1>3, <1>4, <1>5 DEF Edited

-----------------------------------------------------------------------------
(* brightness_register tells any two percentages of the settings apart, and *)
(* in order, none of them as a dark panel, and its u16 does not overflow:   *)
(* a level can be a percentage in DisplayPower.                             *)
THEOREM RegisterTellsLevel ==
  ASSUME MaxPercent <= 100, NEW p \in Percents, NEW q \in Percents, p < q
  PROVE  /\ BrightnessRegister(p) < BrightnessRegister(q)
         /\ {BrightnessRegister(p), BrightnessRegister(q)} \subseteq 0..255
         /\ 0 < p => 0 < BrightnessRegister(p)
         /\ q * 255 + 50 < 2^16
<1>1. /\ p \in Nat /\ MinPercent <= p /\ p <= 100
      /\ q \in Nat /\ MinPercent <= q /\ q <= 100
  BY SettingsConstants DEF Percents
<1>2. /\ BrightnessRegister(p) = (p * 255 + 50) \div 100
      /\ BrightnessRegister(q) = (q * 255 + 50) \div 100
  BY <1>1, SettingsConstants DEF BrightnessRegister, Lesser, Greater
<1>3. 2^16 = 65536
  BY SMT
<1>4. /\ (p * 255 + 50) \div 100 < (q * 255 + 50) \div 100
      /\ (p * 255 + 50) \div 100 >= 0
      /\ (q * 255 + 50) \div 100 <= 255
  BY <1>1
<1>5. 0 < p => 0 < (p * 255 + 50) \div 100
  BY <1>1
<1> QED BY <1>1, <1>2, <1>3, <1>4, <1>5

-----------------------------------------------------------------------------
(* What an action does to valid settings.                                   *)
LEMMA ApplyCases ==
  ASSUME NEW s
  PROVE  /\ Apply("auto dim", s) = ToggleAutoDim(s)
         /\ Apply("dim on usb", s) = ToggleDimOnUsb(s)
         /\ Apply("brighter", s) = BrightnessStep(s, 1)
         /\ Apply("darker", s) = BrightnessStep(s, -1)
         /\ Apply("dim brighter", s) = DimBrightnessStep(s, 1)
         /\ Apply("dim darker", s) = DimBrightnessStep(s, -1)
         /\ Apply("longer", s) = IdleTimeoutStep(s, 1)
         /\ Apply("shorter", s) = IdleTimeoutStep(s, -1)
BY Zenon DEF Apply

LEMMA ApplyEdits ==
  ASSUME NEW action \in EditActions, NEW s \in DisplaySettings
  PROVE  Apply(action, s) \in Edited(s)
BY ApplyCases DEF EditActions, Actions, Edited, Directions

LEMMA ApplyKeepsValid ==
  ASSUME NEW action \in EditActions, NEW s \in DisplaySettings, Valid(s)
  PROVE  Apply(action, s) \in DisplaySettings /\ Valid(Apply(action, s))
BY ApplyEdits, EditsKeepValid

LEMMA ApplyKeepsBrightness ==
  ASSUME NEW action \in EditActions \ {"brighter", "darker"}, NEW s \in DisplaySettings
  PROVE  Apply(action, s).brightness = s.brightness
<1>1. \/ Apply(action, s) \in {ToggleAutoDim(s), ToggleDimOnUsb(s)}
      \/ \E d \in Directions :
           Apply(action, s) \in {DimBrightnessStep(s, d), IdleTimeoutStep(s, d)}
  BY ApplyCases DEF EditActions, Actions, Directions
<1>2. ToggleAutoDim(s).brightness = s.brightness /\ ToggleDimOnUsb(s).brightness = s.brightness
  BY DEF ToggleAutoDim, ToggleDimOnUsb, DisplaySettings
<1>3. ASSUME NEW d \in Directions
      PROVE  /\ DimBrightnessStep(s, d).brightness = s.brightness
             /\ IdleTimeoutStep(s, d).brightness = s.brightness
  BY DEF DimBrightnessStep, IdleTimeoutStep, DisplaySettings
<1> QED BY <1>1, <1>2, <1>3

LEMMA LevelsInRange ==
  ASSUME NEW s \in DisplaySettings
  PROVE  /\ s.brightness \in Percents /\ s.dimBrightness \in Percents
         /\ s.idleTimeout \in Nat
BY SettingsConstants DEF DisplaySettings, TimeoutOptions

LEMMA NextIdleTyped ==
  ASSUME NEW s \in DisplaySettings, NEW u \in BOOLEAN
  PROVE  NextIdle(s, u) \subseteq Nat /\ (ShouldDim(s, u) => NextIdle(s, u) # {})
BY LevelsInRange DEF NextIdle

(* What is sent into the channel, or taken from it.                         *)
LEMMA SentTyped ==
  ASSUME queue \in Seq(Actions), Len(queue) <= QCap, NEW a \in Actions
  PROVE  /\ Sent(a) \in Seq(Actions) /\ Len(Sent(a)) <= QCap
         /\ \A i \in 1..Len(Sent(a)) :
              Sent(a)[i] = a \/ (i \in 1..Len(queue) /\ Sent(a)[i] = queue[i])
<1>1. CASE Len(queue) < QCap
  BY <1>1, DisplayPowerAssumption DEF Sent
<1>2. CASE ~(Len(queue) < QCap)
  BY <1>2 DEF Sent
<1> QED BY <1>1, <1>2

LEMMA TailTyped ==
  ASSUME queue \in Seq(Actions), Len(queue) <= QCap, queue # <<>>, queue' = Tail(queue)
  PROVE  /\ queue' \in Seq(Actions) /\ Len(queue') <= QCap
         /\ \A i \in 1..Len(queue') : i + 1 \in 1..Len(queue) /\ queue'[i] = queue[i + 1]
BY DisplayPowerAssumption

-----------------------------------------------------------------------------
(* The invariant.  While the display is off its output is too, so that a    *)
(* wake which only gets the panel out of sleep shows nothing.  And the page *)
(* is neither open nor owed an edit while the panel is dimmed as told: an   *)
(* edit of the dim level would part the flag from the level.                *)
OffIsDark == ~displayOn => ~output
NoEditDue == dimmed /\ ~refused =>
               ~showSettings /\ \A i \in 1..Len(queue) : queue[i] \notin EditActions

IInv == /\ TypeOK /\ PowerTold /\ CountsDown /\ LevelTold /\ DimmedByPolicy
        /\ OffIsDark /\ NoEditDue

THEOREM InitIInv == Init => IInv
<1> SUFFICES ASSUME Init PROVE IInv
  OBVIOUS
<1>1. Default \in DisplaySettings /\ Valid(Default)
  BY SettingsConstants
<1>2. TypeOK
  <2>1. idle \subseteq Nat
    BY <1>1, NextIdleTyped DEF Init
  <2>2. level \in Percents /\ settings \in DisplaySettings /\ Valid(settings)
    BY <1>1, LevelsInRange DEF Init
  <2>3. queue \in Seq(Actions) /\ Len(queue) <= QCap /\ faults \in 0..MaxFaults
    BY DisplayPowerAssumption DEF Init
  <2> QED BY <2>1, <2>2, <2>3 DEF Init, TypeOK
<1>3. CountsDown
  BY <1>1, NextIdleTyped DEF Init, CountsDown
<1>4. PowerTold /\ LevelTold /\ DimmedByPolicy /\ OffIsDark /\ NoEditDue
  BY DEF Init, PowerTold, LevelTold, DimmedByPolicy, OffIsDark, NoEditDue
<1> QED BY <1>2, <1>3, <1>4 DEF IInv

-----------------------------------------------------------------------------
(* What the parts of an action keep.                                        *)
LEMMA FaultCounts ==
  ASSUME faults \in 0..MaxFaults, Fault
  PROVE  faults' \in 0..MaxFaults
BY DisplayPowerAssumption DEF Fault

LEMMA AcceptsTyped ==
  ASSUME TypeOK, NEW p \in Percents, Accepts(p)
  PROVE  level' \in Percents /\ refused' \in BOOLEAN /\ faults' \in 0..MaxFaults
BY DEF TypeOK, Accepts

LEMMA RefusesTyped ==
  ASSUME TypeOK, Refuses
  PROVE  level' \in Percents /\ refused' \in BOOLEAN /\ faults' \in 0..MaxFaults
BY FaultCounts DEF TypeOK, Refuses

LEMMA UntoldTyped ==
  ASSUME TypeOK, Untold
  PROVE  level' \in Percents /\ refused' \in BOOLEAN /\ faults' \in 0..MaxFaults
BY DEF TypeOK, Untold, brightness

(* An undimmed panel has the brightness that it should, or it refused it.   *)
LEMMA UndimsTells ==
  ASSUME TypeOK, LevelTold, displayOn, Undims, UNCHANGED settings
  PROVE  /\ level' \in Percents /\ refused' \in BOOLEAN /\ faults' \in 0..MaxFaults
         /\ dimmed' \in BOOLEAN
         /\ refused' \/ (~dimmed' /\ level' = settings.brightness)
<1>1. CASE dimmed /\ Accepts(settings.brightness) /\ dimmed' = FALSE
  BY <1>1, AcceptsTyped, LevelsInRange DEF TypeOK, Accepts
<1>2. CASE dimmed /\ Refuses /\ UNCHANGED dimmed
  BY <1>2, RefusesTyped DEF TypeOK, Refuses
<1>3. CASE ~dimmed /\ Untold /\ UNCHANGED dimmed
  BY <1>3, UntoldTyped DEF TypeOK, Untold, brightness, LevelTold
<1> QED BY <1>1, <1>2, <1>3 DEF Undims

LEMMA ClicksTyped ==
  ASSUME TypeOK, Clicks
  PROVE  /\ queue' \in Seq(Actions) /\ Len(queue') <= QCap
         /\ ~showSettings => \A i \in 1..Len(queue') :
              \/ queue'[i] \notin EditActions
              \/ (i \in 1..Len(queue) /\ queue'[i] = queue[i])
<1>1. PICK a \in Offered : queue' = Sent(a)
  BY DEF Clicks
<1>2. a \in Actions
  BY DEF Offered, Actions
<1>3. ~showSettings => a \notin EditActions
  BY DEF Offered, EditActions, Actions
<1> QED BY <1>1, <1>2, <1>3, SentTyped DEF TypeOK

-----------------------------------------------------------------------------
(* The power key.                                                           *)
LEMMA SleepsKeeps ==
  ASSUME IInv, UNCHANGED away, Sleeps
  PROVE  IInv'
<1>1. TypeOK'
  BY ClicksTyped, UntoldTyped DEF IInv, Sleeps, TypeOK, Untold
<1>2. (PowerTold /\ CountsDown /\ LevelTold /\ DimmedByPolicy /\ OffIsDark /\ NoEditDue)'
  BY DEF Sleeps, PowerTold, CountsDown, LevelTold, DimmedByPolicy, OffIsDark, NoEditDue
<1> QED BY <1>1, <1>2 DEF IInv

LEMMA SleepFailsKeeps ==
  ASSUME IInv, UNCHANGED away, SleepFails
  PROVE  IInv'
<1>1. TypeOK'
  BY ClicksTyped, FaultCounts DEF IInv, SleepFails, TypeOK
<1>2. PowerTold' /\ OffIsDark'
  <2>1. displayOn /\ displayOn' /\ cut' = ~output' /\ UNCHANGED awake
    BY DEF SleepFails
  <2>2. CASE output' = FALSE
    BY <2>1, <2>2 DEF PowerTold, OffIsDark
  <2>3. CASE output' = output /\ output = TRUE
    <3>1. awake
      BY <2>1, <2>3 DEF IInv, PowerTold
    <3>2. ~cut' /\ awake' /\ output'
      BY <2>1, <2>3, <3>1
    <3> QED BY <2>1, <3>2 DEF PowerTold, OffIsDark
  <2> QED BY <2>2, <2>3 DEF IInv, TypeOK, SleepFails
<1>3. (CountsDown /\ LevelTold /\ DimmedByPolicy)'
  BY DEF IInv, SleepFails, CountsDown, LevelTold, DimmedByPolicy
<1>4. NoEditDue'
  BY ClicksTyped DEF IInv, SleepFails, NoEditDue
<1> QED BY <1>1, <1>2, <1>3, <1>4 DEF IInv

LEMMA WakesKeeps ==
  ASSUME IInv, UNCHANGED away, NEW menu \in BOOLEAN, Wakes(menu)
  PROVE  IInv'
<1>1. /\ level' \in Percents /\ refused' \in BOOLEAN /\ faults' \in 0..MaxFaults
      /\ refused' \/ level' = settings.brightness
  BY AcceptsTyped, RefusesTyped, LevelsInRange
  DEF IInv, TypeOK, Wakes, Restores, Accepts, Refuses
<1>2. TypeOK' /\ CountsDown'
  BY <1>1, NextIdleTyped DEF IInv, TypeOK, Wakes, OnAfterWake, CountsDown
<1>3. (PowerTold /\ LevelTold /\ DimmedByPolicy /\ OffIsDark /\ NoEditDue)'
  BY <1>1 DEF IInv, Wakes, OnAfterWake, PowerTold, LevelTold, DimmedByPolicy, OffIsDark,
              NoEditDue
<1> QED BY <1>2, <1>3 DEF IInv

LEMMA WakeFailsKeeps ==
  ASSUME IInv, UNCHANGED away, WakeFails
  PROVE  IInv'
<1>1. TypeOK'
  BY FaultCounts DEF IInv, WakeFails, TypeOK
<1>2. (PowerTold /\ CountsDown /\ LevelTold /\ DimmedByPolicy /\ OffIsDark /\ NoEditDue)'
  BY DEF IInv, WakeFails, TypeOK, PowerTold, CountsDown, LevelTold, DimmedByPolicy,
         OffIsDark, NoEditDue
<1> QED BY <1>1, <1>2 DEF IInv

LEMMA OpensMenuKeeps ==
  ASSUME IInv, UNCHANGED away, OpensMenu
  PROVE  IInv'
BY DEF IInv, OpensMenu, panel, brightness, TypeOK, PowerTold, CountsDown, LevelTold,
       DimmedByPolicy, OffIsDark, NoEditDue

-----------------------------------------------------------------------------
(* Touches and telemetry.                                                   *)
LEMMA TouchesKeeps ==
  ASSUME IInv, UNCHANGED away, Touches
  PROVE  IInv'
<1>1. /\ level' \in Percents /\ refused' \in BOOLEAN /\ faults' \in 0..MaxFaults
      /\ dimmed' \in BOOLEAN
      /\ refused' \/ (~dimmed' /\ level' = settings.brightness)
  BY UndimsTells DEF IInv, Touches
<1>2. TypeOK' /\ CountsDown'
  BY <1>1, ClicksTyped, NextIdleTyped DEF IInv, TypeOK, Touches, panel, CountsDown
<1>3. (PowerTold /\ OffIsDark)'
  BY DEF IInv, Touches, panel, PowerTold, OffIsDark
<1>4. (LevelTold /\ DimmedByPolicy /\ NoEditDue)'
  BY <1>1 DEF Touches, LevelTold, DimmedByPolicy, NoEditDue
<1> QED BY <1>2, <1>3, <1>4 DEF IInv

LEMMA PmicOnlineKeeps ==
  ASSUME IInv, UNCHANGED away, NEW vbus \in BOOLEAN, PmicOnline(vbus)
  PROVE  IInv'
<1>1. IdleAfterPower(vbus) \subseteq Nat
  BY NextIdleTyped DEF IInv, TypeOK, IdleAfterPower
<1>2. (PowerTold /\ OffIsDark)'
  BY DEF IInv, PmicOnline, panel, PowerTold, OffIsDark
<1>3. CASE ~ShouldDim(settings, vbus) /\ displayOn
  <2>1. Undims /\ UNCHANGED settings
    BY <1>3 DEF PmicOnline, ShownOnPower
  <2>2. /\ level' \in Percents /\ refused' \in BOOLEAN /\ faults' \in 0..MaxFaults
        /\ dimmed' \in BOOLEAN
        /\ refused' \/ (~dimmed' /\ level' = settings.brightness)
    BY <1>3, <2>1, UndimsTells DEF IInv
  <2>3. TypeOK'
    BY <1>1, <2>2 DEF IInv, TypeOK, PmicOnline, panel
  <2>4. (CountsDown /\ LevelTold /\ DimmedByPolicy /\ NoEditDue)'
    BY <1>3, <2>2 DEF PmicOnline, CountsDown, LevelTold, DimmedByPolicy, NoEditDue
  <2> QED BY <1>2, <2>3, <2>4 DEF IInv
<1>4. CASE ~(~ShouldDim(settings, vbus) /\ displayOn)
  <2>1. UNCHANGED <<level, refused, faults, dimmed>>
    BY <1>4 DEF PmicOnline, ShownOnPower, StaysDimmed, Untold, brightness
  <2>2. TypeOK'
    BY <1>1, <2>1 DEF IInv, TypeOK, PmicOnline, panel
  <2>3. CountsDown'
    BY <1>4, <2>1, NextIdleTyped DEF IInv, TypeOK, PmicOnline, IdleAfterPower, CountsDown
  <2>4. (LevelTold /\ DimmedByPolicy /\ NoEditDue)'
    BY <1>4, <2>1 DEF IInv, PmicOnline, LevelTold, DimmedByPolicy, NoEditDue
  <2> QED BY <1>2, <2>2, <2>3, <2>4 DEF IInv
<1> QED BY <1>3, <1>4

-----------------------------------------------------------------------------
(* The settings channel, whose next action is being taken.                  *)
LEMMA OpensKeeps ==
  ASSUME IInv, UNCHANGED away, queue # <<>>, queue' = Tail(queue), Opens
  PROVE  IInv'
<1>1. queue' \in Seq(Actions) /\ Len(queue') <= QCap
  BY TailTyped DEF IInv, TypeOK
<1>2. TypeOK'
  <2>1. CASE dimmed /\ Accepts(settings.brightness) /\ dimmed' = FALSE
    BY <1>1, <2>1, AcceptsTyped, LevelsInRange DEF IInv, TypeOK, Opens, panel
  <2>2. CASE dimmed /\ Refuses /\ UNCHANGED dimmed
    BY <1>1, <2>2, RefusesTyped DEF IInv, TypeOK, Opens, panel
  <2>3. CASE ~dimmed /\ Untold /\ UNCHANGED dimmed
    BY <1>1, <2>3, UntoldTyped DEF IInv, TypeOK, Opens, panel
  <2> QED BY <2>1, <2>2, <2>3 DEF Opens, Undims
<1>3. (PowerTold /\ OffIsDark /\ CountsDown)'
  BY DEF IInv, Opens, panel, PowerTold, OffIsDark, CountsDown
<1>4. refused' \/ ~dimmed'
  BY DEF Opens, Undims, Refuses
<1>5. LevelTold'
  BY UndimsTells DEF IInv, Opens, LevelTold
<1>6. (DimmedByPolicy /\ NoEditDue)'
  BY <1>4 DEF DimmedByPolicy, NoEditDue
<1> QED BY <1>2, <1>3, <1>5, <1>6 DEF IInv

LEMMA ClosesKeeps ==
  ASSUME IInv, UNCHANGED away, queue # <<>>, queue' = Tail(queue), Closes
  PROVE  IInv'
<1>1. TypeOK' /\ CountsDown'
  BY TailTyped, NextIdleTyped
  DEF IInv, TypeOK, Closes, IdleAfterClose, panel, brightness, CountsDown
<1>2. (PowerTold /\ OffIsDark /\ LevelTold /\ DimmedByPolicy)'
  BY DEF IInv, Closes, panel, brightness, PowerTold, OffIsDark, LevelTold, DimmedByPolicy
<1>3. NoEditDue'
  BY TailTyped DEF IInv, TypeOK, Closes, brightness, NoEditDue
<1> QED BY <1>1, <1>2, <1>3 DEF IInv

LEMMA EditsKeeps ==
  ASSUME IInv, UNCHANGED away, queue # <<>>, queue' = Tail(queue), NEW action \in EditActions,
         action = Head(queue), Edits(action)
  PROVE  IInv'
<1> DEFINE s == Apply(action, settings)
           changed == action \in {"brighter", "darker"}
<1>1. s \in DisplaySettings /\ Valid(s)
  BY ApplyKeepsValid DEF IInv, TypeOK
<1>2. /\ settings' = s /\ Shows(s, changed) /\ idle' = IdleAfterEdit(s)
      /\ UNCHANGED <<panel, displayOn, usb, showSettings, showMenu>>
  BY DEF Edits
<1>3. ~changed => s.brightness = settings.brightness
  BY ApplyKeepsBrightness DEF IInv, TypeOK
<1>4. dimmed => refused
  BY DEF IInv, TypeOK, NoEditDue
<1> HIDE DEF s, changed
<1>5. /\ level' \in Percents /\ refused' \in BOOLEAN /\ faults' \in 0..MaxFaults
      /\ dimmed' \in BOOLEAN
      /\ \/ refused'
         \/ ~dimmed' /\ level' = s.brightness
         \/ ~dimmed' /\ UNCHANGED <<level, dimmed, refused>> /\ s.brightness = settings.brightness
  <2>1. CASE Accepts(s.brightness) /\ dimmed' = FALSE
    BY <1>1, <2>1, AcceptsTyped, LevelsInRange DEF IInv, Accepts
  <2>2. CASE Refuses /\ UNCHANGED dimmed
    BY <2>2, RefusesTyped DEF IInv, TypeOK, Refuses
  <2>3. CASE level' = s.brightness /\ refused' = FALSE /\ dimmed' = FALSE /\ Fault
    BY <1>1, <2>3, FaultCounts, LevelsInRange DEF IInv, TypeOK
  <2>4. CASE ~changed /\ StaysDimmed
    BY <1>3, <1>4, <2>4, UntoldTyped DEF IInv, TypeOK, StaysDimmed, Untold, brightness
  <2> QED BY <1>2, <2>1, <2>2, <2>3, <2>4 DEF Shows, Told
<1>6. TypeOK'
  BY <1>1, <1>2, <1>5, TailTyped, NextIdleTyped DEF IInv, TypeOK, IdleAfterEdit, panel
<1>7. CountsDown'
  BY <1>1, <1>2, <1>6, NextIdleTyped DEF IdleAfterEdit, CountsDown, TypeOK
<1>8. (PowerTold /\ OffIsDark)'
  BY <1>2 DEF IInv, panel, PowerTold, OffIsDark
<1>9. (LevelTold /\ DimmedByPolicy /\ NoEditDue)'
  BY <1>2, <1>5 DEF IInv, LevelTold, DimmedByPolicy, NoEditDue
<1> QED BY <1>6, <1>7, <1>8, <1>9 DEF IInv

LEMMA HandlesActionKeeps ==
  ASSUME IInv, UNCHANGED away, HandlesAction
  PROVE  IInv'
BY OpensKeeps, ClosesKeeps, EditsKeeps DEF HandlesAction

-----------------------------------------------------------------------------
(* The idle deadline and time.                                              *)
LEMMA IdleEndsKeeps ==
  ASSUME IInv, UNCHANGED away, IdleEnds
  PROVE  IInv'
<1>1. \/ ShouldDim(settings, usb) /\ Accepts(settings.dimBrightness) /\ dimmed' = TRUE
      \/ ShouldDim(settings, usb) /\ Refuses /\ UNCHANGED dimmed
      \/ ~ShouldDim(settings, usb) /\ StaysDimmed
  BY DEF IdleEnds
<1>2. TypeOK'
  BY <1>1, AcceptsTyped, RefusesTyped, UntoldTyped, LevelsInRange
  DEF IInv, TypeOK, IdleEnds, panel, StaysDimmed
<1>3. (PowerTold /\ OffIsDark)'
  BY DEF IInv, IdleEnds, panel, PowerTold, OffIsDark
<1>4. (CountsDown /\ LevelTold /\ DimmedByPolicy /\ NoEditDue)'
  BY <1>1 DEF IInv, TypeOK, IdleEnds, IdleDue, Accepts, Refuses, StaysDimmed, Untold, brightness,
              CountsDown, LevelTold, DimmedByPolicy, NoEditDue
<1> QED BY <1>2, <1>3, <1>4 DEF IInv

LEMMA TickKeeps ==
  ASSUME IInv, UNCHANGED away, Tick
  PROVE  IInv'
<1>1. idle' \subseteq Nat /\ (idle # {} => idle' # {})
  BY DEF IInv, TypeOK, Tick
<1>2. TypeOK'
  BY <1>1 DEF IInv, TypeOK, Tick, panel, brightness
<1>3. (PowerTold /\ CountsDown /\ LevelTold /\ DimmedByPolicy /\ OffIsDark /\ NoEditDue)'
  BY <1>1 DEF IInv, Tick, panel, brightness, PowerTold, CountsDown, LevelTold, DimmedByPolicy,
              OffIsDark, NoEditDue
<1> QED BY <1>2, <1>3 DEF IInv

-----------------------------------------------------------------------------
THEOREM NextIInv == IInv /\ [Next]_vars => IInv'
<1> SUFFICES ASSUME IInv, [Next]_vars PROVE IInv'
  OBVIOUS
<1>1. CASE UNCHANGED vars
  BY <1>1 DEF vars, IInv, TypeOK, PowerTold, CountsDown, LevelTold, DimmedByPolicy,
              OffIsDark, NoEditDue
<1>2. CASE Leaves
  BY <1>2 DEF Leaves, panel, brightness, IInv, TypeOK, PowerTold, CountsDown, LevelTold,
              DimmedByPolicy, OffIsDark, NoEditDue
<1>3. CASE (ShortPress \/ LongPress) /\ UNCHANGED away
  <2>1. showMenu \in BOOLEAN
    BY DEF IInv, TypeOK
  <2> QED BY <1>3, <2>1, SleepsKeeps, SleepFailsKeeps, WakesKeeps, WakeFailsKeeps,
             OpensMenuKeeps DEF ShortPress, LongPress
<1>4. CASE (\E vbus \in BOOLEAN : PmicOnline(vbus)) /\ UNCHANGED away
  BY <1>4, PmicOnlineKeeps
<1>5. usb \in BOOLEAN
  BY DEF IInv, TypeOK
<1> QED BY <1>1, <1>2, <1>3, <1>4, <1>5, TouchesKeeps, HandlesActionKeeps, IdleEndsKeeps,
           TickKeeps DEF Next, Attention, Telemetry

THEOREM SpecIInv == Spec => []IInv
BY InitIInv, NextIInv, PTL DEF Spec

(* TypeOK: the settings stay valid, whatever the page and the channel do.   *)
THEOREM SpecTypeOK == Spec => []TypeOK
<1>1. IInv => TypeOK
  BY DEF IInv
<1> QED BY <1>1, SpecIInv, PTL

(* PowerTold: the display that the loop draws on is lit, and the one that   *)
(* it takes for asleep is dark, unless a sleep was cut short.               *)
THEOREM SpecPowerTold == Spec => []PowerTold
<1>1. IInv => PowerTold
  BY DEF IInv
<1> QED BY <1>1, SpecIInv, PTL

(* CountsDown: no handler forgets the idle deadline.                        *)
THEOREM SpecCountsDown == Spec => []CountsDown
<1>1. IInv => CountsDown
  BY DEF IInv
<1> QED BY <1>1, SpecIInv, PTL

(* LevelTold: dimmed tells the level, unless the panel refused one.         *)
THEOREM SpecLevelTold == Spec => []LevelTold
<1>1. IInv => LevelTold
  BY DEF IInv
<1> QED BY <1>1, SpecIInv, PTL

(* DimmedByPolicy: no panel is left dimmed that should not dim.             *)
THEOREM SpecDimmedByPolicy == Spec => []DimmedByPolicy
<1>1. IInv => DimmedByPolicy
  BY DEF IInv
<1> QED BY <1>1, SpecIInv, PTL
-----------------------------------------------------------------------------
(* Inputs, whose displayOn and usb are those of the loop above: its safety  *)
(* for every length of the touch channel and any number of failed           *)
(* transfers.                                                               *)
CONSTANT TouchCap
VARIABLES finger, touchPc, pressed, touches, latch, vbus, pmicPc, read, sample,
          powerKey, stats, powerOff, pointer, unanswered, lost

In == INSTANCE Inputs

InInv == In!TypeOK /\ In!AsleepReleased

LEMMA InputsInit ==
  ASSUME TouchCap \in Nat \ {0}, In!Init
  PROVE  InInv
<1>1. MaxFaults \in Nat
  BY DisplayPowerAssumption
<1>2. touches \in Seq(In!TouchState) /\ Len(touches) = 0
  BY DEF In!Init
<1>3. {finger, vbus, pressed, powerOff, displayOn, pointer, usb} \subseteq BOOLEAN
  BY DEF In!Init
<1>4. faults \in 0..MaxFaults /\ Len(touches) <= TouchCap
  BY <1>1, <1>2 DEF In!Init
<1>5. {} \in In!Option(In!Keys) /\ {} \in In!Option(BOOLEAN) /\ {} \in In!Option(In!PmicEvent)
  BY DEF In!Option
<1> QED BY <1>2, <1>3, <1>4, <1>5 DEF InInv, In!Init, In!TypeOK, In!AsleepReleased

(* A failed transfer is counted.                                            *)
LEMMA InputsFault ==
  ASSUME InInv, In!Fault \/ UNCHANGED faults
  PROVE  faults' \in 0..MaxFaults
<1>1. MaxFaults \in Nat
  BY DisplayPowerAssumption
<1> QED BY <1>1 DEF InInv, In!TypeOK, In!Fault

LEMMA FlagsTyped ==
  ASSUME InInv
  PROVE  /\ finger \in BOOLEAN /\ vbus \in BOOLEAN /\ powerOff \in BOOLEAN
         /\ displayOn \in BOOLEAN /\ pointer \in BOOLEAN /\ usb \in BOOLEAN
BY DEF InInv, In!TypeOK

(* What the user and the PMIC do.                                           *)
LEMMA AttentionKeeps ==
  ASSUME InInv, In!Attention
  PROVE  InInv'
<1>1. CASE In!Lands \/ In!Lifts \/ In!Moves
  <2>1. finger' \in BOOLEAN
    BY <1>1, FlagsTyped DEF In!Lands, In!Lifts, In!Moves, In!user
  <2>2. touchPc' \in {touchPc, "read"}
    BY <1>1 DEF In!Lands, In!Lifts, In!Moves, In!Edge, In!Noticed
  <2>3. UNCHANGED <<pressed, touches, latch, pmicPc, read, sample, powerKey, stats, powerOff,
                    displayOn, pointer, usb, vbus, unanswered, lost, faults>>
    BY <1>1 DEF In!Lands, In!Lifts, In!Moves, In!pmicTask, In!loop, In!user, In!ghosts
  <2> QED BY <2>1, <2>2, <2>3 DEF InInv, In!TypeOK, In!AsleepReleased
<1>2. CASE In!Plugs \/ In!AsksPowerOff
  <2>1. vbus' \in BOOLEAN /\ powerOff' \in BOOLEAN
    BY <1>2, FlagsTyped DEF In!Plugs, In!AsksPowerOff, In!user
  <2>2. UNCHANGED <<finger, touchPc, pressed, touches, latch, pmicPc, read, sample, powerKey, stats,
                    displayOn, pointer, usb, unanswered, lost, faults>>
    BY <1>2 DEF In!Plugs, In!AsksPowerOff, In!touchTask, In!pmicTask, In!loop, In!user, In!ghosts
  <2> QED BY <2>1, <2>2 DEF InInv, In!TypeOK, In!AsleepReleased
<1>3. ASSUME NEW key \in In!Keys, In!Presses(key)
      PROVE  InInv'
  BY <1>3 DEF InInv, In!TypeOK, In!AsleepReleased, In!Presses, In!touchTask, In!pmicTask, In!loop,
              In!user
<1> QED BY <1>1, <1>2, <1>3 DEF In!Attention

LEMMA TouchTaskKeeps ==
  ASSUME InInv, In!TouchTask
  PROVE  InInv'
<1>1. (In!Fault \/ UNCHANGED faults) /\ pressed' \in BOOLEAN
      /\ touchPc' \in {"wait", "ended", "check", "send"}
  BY DEF InInv, In!TypeOK, In!TouchTask, In!TouchStarts, In!TimesOut, In!ReadsReport,
         In!ChecksAgain, In!Reports
<1>2. faults' \in 0..MaxFaults
  BY <1>1, InputsFault
<1> QED BY <1>1, <1>2 DEF InInv, In!TypeOK, In!AsleepReleased, In!TouchTask, In!pmicTask, In!loop,
              In!user, In!ghosts

LEMMA SendsKeeps ==
  ASSUME TouchCap \in Nat \ {0}, InInv, In!Sends
  PROVE  InInv'
<1> DEFINE state == IF pressed THEN "Pressed" ELSE "Released"
<1>1. state \in In!TouchState
  BY DEF In!TouchState
<1>2. touches' = Append(touches, state) /\ Len(touches) < TouchCap
  BY DEF In!Sends, In!Room
<1> HIDE DEF state
<1>3. touches' \in Seq(In!TouchState) /\ Len(touches') <= TouchCap
  BY <1>1, <1>2 DEF InInv, In!TypeOK
<1> QED BY <1>3 DEF InInv, In!TypeOK, In!AsleepReleased, In!Sends, In!pmicTask, In!loop, In!user,
                    In!ghosts

LEMMA PmicTaskKeeps ==
  ASSUME InInv, In!PmicTask
  PROVE  InInv'
<1>1. In!Fault \/ UNCHANGED faults
  BY DEF In!PmicTask, In!PmicStarts, In!TakesPowerOff, In!ReadsKey, In!Acknowledges, In!AckFails,
         In!NotDue, In!PublishesStats
<1>2. faults' \in 0..MaxFaults
  BY <1>1, InputsFault
<1>3. stats' \in In!Option(In!PmicEvent) /\ sample' \in In!Option(BOOLEAN)
  <2>1. In!Error \in In!PmicEvent /\ \A b \in BOOLEAN : In!Online(b) \in In!PmicEvent
    BY DEF In!Error, In!Online, In!PmicEvent, In!Option
  <2>2. {In!Online(b) : b \in sample} \in In!Option(In!PmicEvent)
    <3>1. PICK S \in In!Option(BOOLEAN) : sample = S
      BY DEF InInv, In!TypeOK
    <3>2. CASE S = {}
      BY <3>1, <3>2 DEF In!Option
    <3>3. ASSUME NEW b \in BOOLEAN, S = {b}
          PROVE  {In!Online(c) : c \in sample} = {In!Online(b)}
      BY <3>1, <3>3
    <3> QED BY <2>1, <3>1, <3>2, <3>3 DEF In!Option
  <2>3. {In!Error} \in In!Option(In!PmicEvent)
    BY <2>1 DEF In!Option
  <2>4. {} \in In!Option(BOOLEAN)
    BY DEF In!Option
  <2>5. stats' \in {stats, {In!Error}, {In!Online(b) : b \in sample}} /\ sample' \in {sample, {}}
    BY DEF In!PmicTask, In!PmicStarts, In!TakesPowerOff, In!ReadsKey, In!Acknowledges, In!AckFails,
           In!NotDue, In!PublishesStats
  <2> QED BY <2>2, <2>3, <2>4, <2>5 DEF InInv, In!TypeOK
<1>4. powerKey' \in In!Option(In!Keys)
  <2>1. powerKey' \in {powerKey, In!Gesture}
    BY DEF In!PmicTask, In!PmicStarts, In!TakesPowerOff, In!ReadsKey, In!Acknowledges, In!AckFails,
           In!NotDue, In!PublishesStats
  <2>2. In!Gesture \in In!Option(In!Keys)
    BY DEF In!Gesture, In!Option, In!Keys
  <2> QED BY <2>1, <2>2 DEF InInv, In!TypeOK
<1>5. latch' \subseteq In!Keys /\ read' \subseteq In!Keys
  BY DEF InInv, In!TypeOK, In!PmicTask, In!PmicStarts, In!TakesPowerOff, In!ReadsKey, In!Acknowledges,
         In!AckFails, In!AfterAck, In!NotDue, In!PublishesStats
<1>6. pmicPc' \in {"poll", "ended", "off", "read", "stats", "ack"}
      /\ powerOff' \in {powerOff, FALSE}
  BY DEF In!PmicTask, In!PmicStarts, In!TakesPowerOff, In!ReadsKey, In!Acknowledges, In!AckFails,
         In!NotDue, In!PublishesStats, In!ghosts
<1>7. UNCHANGED <<In!touchTask, touches, In!loop, In!user, unanswered>>
  BY DEF In!PmicTask, In!PmicStarts, In!TakesPowerOff, In!ReadsKey, In!Acknowledges, In!AckFails,
         In!NotDue, In!PublishesStats, In!ghosts
<1>8. lost' \subseteq In!Keys
  BY DEF InInv, In!TypeOK, In!PmicTask, In!PmicStarts, In!TakesPowerOff, In!ReadsKey, In!Acknowledges,
         In!AckFails, In!Loses, In!Outranked, In!Overwritten, In!Option, In!NotDue,
         In!PublishesStats, In!ghosts
<1> QED BY <1>2, <1>3, <1>4, <1>5, <1>6, <1>7, <1>8
        DEF InInv, In!TypeOK, In!AsleepReleased, In!touchTask, In!loop, In!user

LEMMA UiLoopKeeps ==
  ASSUME TouchCap \in Nat \ {0}, InInv, In!UiLoop
  PROVE  InInv'
<1>1. CASE In!HandlesKey
  <2>1. In!Fault \/ UNCHANGED faults
    BY <1>1 DEF In!HandlesKey
  <2>2. faults' \in 0..MaxFaults
    BY <2>1, InputsFault
  <2>3. powerKey' \in In!Option(In!Keys) /\ unanswered' \subseteq In!Keys
    BY <1>1 DEF InInv, In!TypeOK, In!HandlesKey, In!Answers, In!Option
  <2>4. displayOn' \in BOOLEAN /\ pointer' \in BOOLEAN
    BY <1>1, FlagsTyped DEF In!HandlesKey, In!ButtonReleased
  <2>5. ~displayOn' => ~pointer'
    <3>1. ~displayOn => ~pointer
      BY DEF InInv, In!AsleepReleased
    <3> QED BY <1>1, <3>1 DEF In!HandlesKey, In!ButtonReleased
  <2> QED BY <1>1, <2>2, <2>3, <2>4, <2>5 DEF InInv, In!TypeOK, In!AsleepReleased, In!HandlesKey,
             In!touchTask, In!pmicTask, In!user
<1>2. CASE In!DispatchesTouches
  <2>1. touches' \in Seq(In!TouchState) /\ Len(touches') = 0
    BY <1>2 DEF In!DispatchesTouches
  <2> QED BY <1>2, <2>1 DEF InInv, In!TypeOK, In!AsleepReleased, In!DispatchesTouches,
             In!touchTask, In!pmicTask, In!user, In!ghosts
<1>3. CASE In!DropsTouch
  <2>1. touches' \in Seq(In!TouchState) /\ Len(touches') <= TouchCap
    BY <1>3 DEF In!DropsTouch, InInv, In!TypeOK
  <2> QED BY <1>3, <2>1 DEF InInv, In!TypeOK, In!AsleepReleased, In!DropsTouch,
             In!touchTask, In!pmicTask, In!loop, In!user, In!ghosts
<1>4. CASE In!HandlesStats
  <2>1. usb' \in BOOLEAN
    <3>1. PICK event \in stats : usb' = In!UsbAfter(event)
      BY <1>4 DEF In!HandlesStats
    <3>2. In!UsbAfter(event) \in BOOLEAN
      <4>1. CASE event = In!Error
        BY <4>1, FlagsTyped DEF In!UsbAfter
      <4>2. CASE event # In!Error
        BY <4>2 DEF In!UsbAfter
      <4> QED BY <4>1, <4>2
    <3> QED BY <3>1, <3>2
  <2>2. stats' \in In!Option(In!PmicEvent)
    BY <1>4 DEF In!HandlesStats, In!Option
  <2> QED BY <1>4, <2>1, <2>2 DEF InInv, In!TypeOK, In!AsleepReleased, In!HandlesStats,
             In!touchTask, In!pmicTask, In!user, In!ghosts
<1> QED BY <1>1, <1>2, <1>3, <1>4 DEF In!UiLoop

LEMMA InputsNext ==
  ASSUME TouchCap \in Nat \ {0}, InInv, [In!Next]_(In!vars)
  PROVE  InInv'
<1>1. CASE UNCHANGED In!vars
  BY <1>1 DEF InInv, In!TypeOK, In!AsleepReleased, In!vars, In!touchTask, In!pmicTask, In!loop,
              In!user, In!ghosts
<1>2. CASE In!ReadsVbus
  <2>1. sample' \in In!Option(BOOLEAN)
    BY <1>2 DEF In!ReadsVbus, In!Option, InInv, In!TypeOK
  <2> QED BY <1>2, <2>1 DEF InInv, In!TypeOK, In!AsleepReleased, In!ReadsVbus,
             In!touchTask, In!loop, In!user, In!ghosts
<1> QED BY <1>1, <1>2, AttentionKeeps, TouchTaskKeeps, SendsKeeps, PmicTaskKeeps, UiLoopKeeps
        DEF In!Next

LEMMA InputsInv ==
  ASSUME TouchCap \in Nat \ {0}
  PROVE  In!Spec => []InInv
BY InputsInit, InputsNext, PTL DEF In!Spec

(* TypeOK of Inputs: no touch overfills the channel, and no order of polls, *)
(* failures and presses leaves a task or a signal in a state of its own.    *)
THEOREM InputsTypeOK ==
  ASSUME TouchCap \in Nat \ {0}
  PROVE  In!Spec => []In!TypeOK
<1>1. InInv => In!TypeOK
  BY DEF InInv
<1> QED BY <1>1, InputsInv, PTL

(* AsleepReleased: no button is down in Slint while the display sleeps.     *)
THEOREM InputsAsleepReleased ==
  ASSUME TouchCap \in Nat \ {0}
  PROVE  In!Spec => []In!AsleepReleased
<1>1. InInv => In!AsleepReleased
  BY DEF InInv
<1> QED BY <1>1, InputsInv, PTL

(* OnlyReadIsCleared: no acknowledgement, failed or not, clears a press     *)
(* that was not read.                                                       *)
THEOREM InputsOnlyReadIsCleared == In!Spec => In!OnlyReadIsCleared
<1>1. [In!Next]_(In!vars) =>
        [pmicPc # "init" => \A key \in latch \ latch' : key \in read]_(In!vars)
  <2> SUFFICES ASSUME In!Next, pmicPc # "init", NEW key \in latch \ latch'
               PROVE  key \in read
    OBVIOUS
  <2>1. latch' # latch
    OBVIOUS
  <2>2. (In!Acknowledges \/ In!AckFails) \/ \E k \in In!Keys : In!Presses(k)
    BY <2>1 DEF In!Next, In!Attention, In!Lands, In!Lifts, In!Moves, In!Plugs, In!AsksPowerOff,
           In!TouchTask, In!Sends, In!PmicTask, In!PmicStarts, In!TakesPowerOff, In!ReadsKey,
           In!NotDue, In!PublishesStats, In!ReadsVbus, In!UiLoop, In!HandlesKey,
           In!DispatchesTouches, In!DropsTouch, In!HandlesStats
  <2> QED BY <2>2 DEF In!Acknowledges, In!AckFails, In!AfterAck, In!Presses
<1> QED BY <1>1, PTL DEF In!Spec, In!OnlyReadIsCleared

(* The safety half of PressAnswered: what the loop has had no event of is   *)
(* latched, also while it is being acknowledged, or an event of its own     *)
(* kind waits in the signal, or it was lost in one of three ways: read with *)
(* a long press, overwritten by an event of the other kind, cleared by an   *)
(* acknowledgement that failed.                                             *)
PressKept == unanswered \subseteq latch \cup powerKey \cup lost

PressInv ==
  /\ PressKept
  /\ read \subseteq latch
  /\ pmicPc = "init" => unanswered = {} /\ read = {}

LEMMA PressNext ==
  ASSUME InInv, PressInv, [In!Next]_(In!vars)
  PROVE  PressInv'
<1>1. CASE UNCHANGED <<latch, read, pmicPc, unanswered, lost, powerKey>>
  BY <1>1 DEF PressInv, PressKept
<1>2. ASSUME NEW key \in In!Keys, In!Presses(key)
      PROVE  PressInv'
  BY <1>2 DEF PressInv, PressKept, In!Presses, In!pmicTask
<1>3. CASE In!PmicStarts
  BY <1>3 DEF PressInv, PressKept, In!PmicStarts, In!ghosts
<1>4. CASE In!ReadsKey
  BY <1>4 DEF PressInv, PressKept, In!ReadsKey, In!ghosts
<1>5. CASE In!Acknowledges
  <2>1. read \subseteq In!Keys
    BY DEF InInv, In!TypeOK
  <2>2. /\ latch' = latch \ read /\ read' = {} /\ pmicPc' # "init" /\ UNCHANGED unanswered
        /\ powerKey' = In!Gesture
        /\ lost' = lost \cup ((In!Outranked \cup (powerKey \ In!Gesture)) \ latch')
    BY <1>5 DEF In!Acknowledges, In!AfterAck, In!Overwritten, In!Loses
  <2>3. read \subseteq In!Gesture \cup In!Outranked
    BY <2>1 DEF In!Gesture, In!Outranked, In!Keys
  <2> QED BY <2>2, <2>3 DEF PressInv, PressKept
<1>6. CASE In!AckFails
  BY <1>6 DEF PressInv, PressKept, In!AckFails, In!AfterAck, In!Loses
<1>7. CASE In!HandlesKey
  BY <1>7 DEF PressInv, PressKept, In!HandlesKey, In!Answers, In!pmicTask
<1>8. CASE In!TakesPowerOff \/ In!NotDue \/ In!ReadsVbus \/ In!PublishesStats
  BY <1>8 DEF PressInv, PressKept, In!TakesPowerOff, In!NotDue, In!ReadsVbus, In!PublishesStats,
              In!ghosts
<1>9. CASE In!Lands \/ In!Lifts \/ In!Moves \/ In!Plugs \/ In!AsksPowerOff
  BY <1>1, <1>9 DEF In!Lands, In!Lifts, In!Moves, In!Plugs, In!AsksPowerOff, In!pmicTask, In!ghosts
<1>10. CASE In!TouchTask \/ In!Sends \/ In!DispatchesTouches \/ In!DropsTouch \/ In!HandlesStats
  BY <1>1, <1>10 DEF In!TouchTask, In!Sends, In!DispatchesTouches, In!DropsTouch, In!HandlesStats,
                     In!pmicTask, In!ghosts
<1>11. CASE UNCHANGED In!vars
  BY <1>1, <1>11 DEF In!vars, In!pmicTask, In!ghosts
<1> QED BY <1>2, <1>3, <1>4, <1>5, <1>6, <1>7, <1>8, <1>9, <1>10, <1>11
        DEF In!Next, In!Attention, In!PmicTask, In!UiLoop

THEOREM InputsPressKept ==
  ASSUME TouchCap \in Nat \ {0}
  PROVE  In!Spec => []PressKept
<1>1. In!Init => PressInv
  BY DEF In!Init, PressInv, PressKept
<1>2. PressInv => PressKept
  BY DEF PressInv
<1> QED BY <1>1, <1>2, PressNext, InputsInv, PTL DEF In!Spec

(* The safety half of ButtonFollows: Slint's button is down only while the  *)
(* task believes in a finger, and asks again after a silence, or has a      *)
(* report to send, or while a release waits in the channel behind whatever  *)
(* was missed or dropped.                                                   *)
Released(waiting) == waiting # <<>> /\ waiting[Len(waiting)] = "Released"
ReleaseFollows == pointer => pressed \/ touchPc = "send" \/ Released(touches)

(* Also while no button is down: the last touch in the channel says what    *)
(* the task believes.                                                       *)
TouchInv ==
  /\ ReleaseFollows
  /\ ~pressed /\ touchPc # "send" => touches = <<>> \/ Released(touches)

LEMMA TouchNext ==
  ASSUME TouchCap \in Nat \ {0}, InInv, TouchInv, [In!Next]_(In!vars)
  PROVE  TouchInv'
<1> USE DEF TouchInv, ReleaseFollows
<1>1. CASE UNCHANGED <<pressed, touchPc, touches>> /\ (pointer' => pointer)
  BY <1>1
<1>2. CASE In!Lands \/ In!Lifts \/ In!Moves
  <2>1. UNCHANGED <<pressed, touches, pointer>> /\ touchPc' \in {touchPc, "read"}
    BY <1>2 DEF In!Lands, In!Lifts, In!Moves, In!Edge, In!Noticed, In!loop
  <2>2. touchPc' # touchPc => touchPc = "wait"
    BY <1>2 DEF In!Lands, In!Lifts, In!Moves, In!Edge, In!Noticed
  <2> QED BY <2>1, <2>2
<1>3. CASE In!TouchTask
  <2>1. UNCHANGED <<touches, pointer>>
    BY <1>3 DEF In!TouchTask, In!loop
  <2>2. \/ touchPc' = "send"
        \/ UNCHANGED pressed /\ touchPc # "send"
    BY <1>3 DEF In!TouchTask, In!TouchStarts, In!TimesOut, In!ReadsReport, In!ChecksAgain, In!Reports
  <2> QED BY <2>1, <2>2
<1>4. CASE In!Sends
  <2> DEFINE state == IF pressed THEN "Pressed" ELSE "Released"
  <2>1. touches \in Seq(In!TouchState) /\ state \in In!TouchState
    BY DEF InInv, In!TypeOK, In!TouchState
  <2>2. touches' = Append(touches, state) /\ UNCHANGED pressed
    BY <1>4 DEF In!Sends
  <2>3. ~pressed => state = "Released"
    OBVIOUS
  <2> HIDE DEF state
  <2>4. touches' # <<>> /\ touches'[Len(touches')] = state
    BY <2>1, <2>2
  <2> QED BY <2>2, <2>3, <2>4 DEF Released
<1>5. CASE In!DispatchesTouches
  <2>1. /\ UNCHANGED <<pressed, touchPc>> /\ touches' = <<>>
        /\ pointer' => ~Released(touches) /\ touches # <<>>
    BY <1>5 DEF In!DispatchesTouches, In!touchTask, Released
  <2> QED BY <2>1
<1>6. CASE In!DropsTouch
  <2>1. UNCHANGED <<pressed, touchPc, pointer>> /\ ~pointer
    BY <1>6 DEF In!DropsTouch, In!touchTask, In!loop, InInv, In!AsleepReleased
  <2>2. touches \in Seq(In!TouchState) /\ touches # <<>> /\ touches' = Tail(touches)
    BY <1>6 DEF In!DropsTouch, InInv, In!TypeOK
  <2>3. Released(touches) => touches' = <<>> \/ Released(touches')
    BY <2>2 DEF Released
  <2> QED BY <2>1, <2>2, <2>3
<1>7. CASE In!HandlesKey
  BY <1>1, <1>7 DEF In!HandlesKey, In!ButtonReleased, In!touchTask
<1>8. CASE In!HandlesStats
  BY <1>1, <1>8 DEF In!HandlesStats, In!touchTask
<1>9. CASE In!Plugs \/ In!AsksPowerOff \/ In!ReadsVbus \/ \E key \in In!Keys : In!Presses(key)
  BY <1>1, <1>9 DEF In!Plugs, In!AsksPowerOff, In!ReadsVbus, In!Presses, In!touchTask, In!loop
<1>10. CASE In!PmicTask
  BY <1>1, <1>10 DEF In!PmicTask, In!PmicStarts, In!TakesPowerOff, In!ReadsKey, In!Acknowledges,
                     In!AckFails, In!NotDue, In!PublishesStats, In!touchTask, In!loop
<1>11. CASE UNCHANGED In!vars
  BY <1>1, <1>11 DEF In!vars, In!touchTask, In!loop
<1> QED BY <1>2, <1>3, <1>4, <1>5, <1>6, <1>7, <1>8, <1>9, <1>10, <1>11
        DEF In!Next, In!Attention, In!UiLoop

THEOREM InputsReleaseFollows ==
  ASSUME TouchCap \in Nat \ {0}
  PROVE  In!Spec => []ReleaseFollows
<1>1. In!Init => TouchInv
  BY DEF In!Init, TouchInv, ReleaseFollows
<1>2. TouchInv => ReleaseFollows
  BY DEF TouchInv
<1> QED BY <1>1, <1>2, TouchNext, InputsInv, PTL DEF In!Spec
=============================================================================
