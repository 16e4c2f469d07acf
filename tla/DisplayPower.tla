---------------------------- MODULE DisplayPower ----------------------------
(***************************************************************************)
(* The panel's power and brightness as the UI loop drives them: the power  *)
(* key, touches, USB power, the settings page and the idle deadline        *)
(* (firmware/src/bin/main.rs), over the panel's commands                   *)
(* (firmware/src/co5300.rs), each of which may be refused.                 *)
(*                                                                         *)
(* Time passes in units.  The loop is prompt: a unit passes only when no   *)
(* event is waiting.  An idle timeout of the settings is that many units.  *)
(***************************************************************************)
EXTENDS DisplaySettings

CONSTANTS QCap,      \* settings actions the channel holds
          MaxFaults  \* bound on refused panel commands

ASSUME DisplayPowerAssumption == QCap \in Nat /\ MaxFaults \in Nat

VARIABLES
  awake, output, \* the panel is out of sleep; its output is enabled
  level,         \* the panel's brightness register, as a percentage
  displayOn,     \* display_on
  dimmed,
  idle,          \* idle_deadline: units left, if there is one
  usb,           \* usb_connected
  settings,      \* display_settings
  showSettings, showMenu,
  queue,         \* the settings channel
  refused,       \* the last brightness command was refused
  cut,           \* a sleep was cut short between its two commands
  faults,
  away           \* the user has left, and USB power stays as it is

panel == <<awake, output, cut>>
brightness == <<level, refused, faults>>
vars == <<awake, output, level, displayOn, dimmed, idle, usb, settings,
          showSettings, showMenu, queue, refused, cut, faults, away>>


(* What a settings action is, and what it does to the settings.             *)
Actions == {"open", "close", "auto dim", "dim on usb", "brighter", "darker",
            "dim brighter", "dim darker", "longer", "shorter"}
EditActions == Actions \ {"open", "close"}

Apply(action, s) ==
  CASE action = "auto dim"     -> ToggleAutoDim(s)
    [] action = "dim on usb"   -> ToggleDimOnUsb(s)
    [] action = "brighter"     -> BrightnessStep(s, 1)
    [] action = "darker"       -> BrightnessStep(s, -1)
    [] action = "dim brighter" -> DimBrightnessStep(s, 1)
    [] action = "dim darker"   -> DimBrightnessStep(s, -1)
    [] action = "longer"       -> IdleTimeoutStep(s, 1)
    [] action = "shorter"      -> IdleTimeoutStep(s, -1)

(* next_idle_deadline.                                                      *)
NextIdle(s, u) == IF ShouldDim(s, u) THEN {s.idleTimeout} ELSE {}

Init ==
  /\ awake = TRUE /\ output = TRUE
  /\ settings = Default
  /\ level = Default.brightness
  /\ displayOn = TRUE
  /\ dimmed = FALSE
  /\ usb = FALSE
  /\ idle = NextIdle(Default, FALSE)
  /\ showSettings = FALSE /\ showMenu = FALSE
  /\ queue = <<>>
  /\ refused = FALSE /\ cut = FALSE
  /\ faults = 0
  /\ away = FALSE

-----------------------------------------------------------------------------
(* A brightness command is accepted, refused, or not given.                 *)
Fault == faults < MaxFaults /\ faults' = faults + 1
Accepts(percent) == level' = percent /\ refused' = FALSE /\ UNCHANGED faults
Refuses == refused' = TRUE /\ Fault /\ UNCHANGED level
Untold == UNCHANGED brightness

(* A dimmed panel gets its brightness back, and stays dimmed if it refuses. *)
Undims ==
  \/ dimmed /\ Accepts(settings.brightness) /\ dimmed' = FALSE
  \/ dimmed /\ Refuses /\ UNCHANGED dimmed
  \/ ~dimmed /\ Untold /\ UNCHANGED dimmed

-----------------------------------------------------------------------------
(* Slint may take a touch, or the end of one, for a click, which sends an   *)
(* action of the page that is shown; it is dropped if the channel is full.  *)
Offered == IF showMenu THEN {} ELSE IF showSettings THEN Actions \ {"open"} ELSE {"open"}
Sent(action) == IF Len(queue) < QCap THEN Append(queue, action) ELSE queue

Clicks == \E a \in Offered : queue' = Sent(a)

-----------------------------------------------------------------------------
(* The power key.  A short press ends a touch and puts a display that is on *)
(* to sleep: output off, then sleep in.                                     *)
Sleeps ==
  /\ displayOn
  /\ output' = FALSE /\ awake' = FALSE /\ cut' = FALSE
  /\ displayOn' = FALSE
  /\ dimmed' = FALSE
  /\ idle' = {}
  /\ showMenu' = FALSE
  /\ UNCHANGED queue \/ Clicks
  /\ UNCHANGED <<brightness, usb, settings, showSettings>>

SleepFails ==
  /\ displayOn
  /\ output' \in {output, FALSE}
  /\ cut' = ~output'
  /\ Fault
  /\ showMenu' = FALSE
  /\ UNCHANGED queue \/ Clicks
  /\ UNCHANGED <<awake, level, refused, displayOn, dimmed, idle, usb, settings,
                 showSettings>>

(* wake_display.  The display is on again even if its brightness could not  *)
(* be restored.  The mutants take it for off then, or forget to restore.    *)
OffUnlessBright == ~refused'
OnAfterWake == TRUE

NotRestored == Untold
Restores == Accepts(settings.brightness) \/ Refuses

Wakes(menu) ==
  /\ ~displayOn
  /\ awake' = TRUE /\ output' = TRUE
  /\ Restores
  /\ displayOn' = OnAfterWake
  /\ dimmed' = FALSE
  /\ idle' = NextIdle(settings, usb)
  /\ showMenu' = menu
  /\ UNCHANGED <<cut, usb, settings, showSettings, queue>>

WakeFails ==
  /\ ~displayOn
  /\ awake' \in {awake, TRUE}
  /\ Fault
  /\ UNCHANGED <<output, cut, level, refused, displayOn, dimmed, idle, usb, settings,
                 showSettings, showMenu, queue>>

OpensMenu ==
  /\ displayOn
  /\ showMenu' = TRUE
  /\ UNCHANGED <<panel, brightness, displayOn, dimmed, idle, usb, settings,
                 showSettings, queue>>

ShortPress == Sleeps \/ SleepFails \/ Wakes(showMenu) \/ WakeFails
LongPress == OpensMenu \/ Wakes(TRUE) \/ WakeFails

-----------------------------------------------------------------------------
(* A touch is attention.  It may also close the power menu, or open it from *)
(* the settings page.                                                       *)
Touches ==
  /\ displayOn
  /\ Undims
  /\ idle' = NextIdle(settings, usb)
  /\ \/ showMenu' \in {showMenu, FALSE, showMenu \/ showSettings} /\ UNCHANGED queue
     \/ Clicks /\ UNCHANGED showMenu
  /\ UNCHANGED <<panel, displayOn, usb, settings, showSettings>>

-----------------------------------------------------------------------------
(* PMIC telemetry, every ten seconds: only a change of USB power starts the *)
(* countdown.                                                               *)
(* The mutant restarts the countdown with every sample.                     *)
IdleAfterSample(vbus) ==
  IF ~ShouldDim(settings, vbus) THEN {}
  ELSE IF displayOn /\ ~dimmed /\ ~showSettings THEN NextIdle(settings, vbus) ELSE idle

IdleAfterPower(vbus) ==
  IF ~ShouldDim(settings, vbus) THEN {}
  ELSE IF usb # vbus /\ displayOn /\ ~dimmed /\ ~showSettings
       THEN NextIdle(settings, vbus) ELSE idle

StaysDimmed == Untold /\ UNCHANGED dimmed

StaysAsItIs(vbus) == StaysDimmed
ShownOnPower(vbus) ==
  IF ~ShouldDim(settings, vbus) /\ displayOn THEN Undims ELSE StaysDimmed

PmicOnline(vbus) ==
  /\ usb' = vbus
  /\ ShownOnPower(vbus)
  /\ idle' = IdleAfterPower(vbus)
  /\ UNCHANGED <<panel, displayOn, settings, showSettings, showMenu, queue>>

-----------------------------------------------------------------------------
(* The settings channel.                                                    *)
Opens ==
  /\ Undims
  /\ showMenu' = FALSE
  /\ showSettings' = TRUE
  /\ idle' = {}
  /\ UNCHANGED <<panel, displayOn, usb, settings>>

NoneAfterClose == {}
IdleAfterClose == NextIdle(settings, usb)

Closes ==
  /\ showSettings' = FALSE
  /\ idle' = IdleAfterClose
  /\ UNCHANGED <<panel, brightness, displayOn, dimmed, usb, settings, showMenu>>

(* An edited brightness is shown at once.  A panel that should not dim any  *)
(* more is told its brightness, again if it has just refused it.            *)
MustUndim(s) == dimmed /\ ~ShouldDim(s, usb)
Told(s, changed) == changed \/ MustUndim(s)

Shows(s, changed) ==
  \/ Told(s, changed) /\ Accepts(s.brightness) /\ dimmed' = FALSE
  \/ Told(s, changed) /\ Refuses /\ UNCHANGED dimmed
  \/ /\ changed /\ MustUndim(s)
     /\ level' = s.brightness /\ refused' = FALSE /\ dimmed' = FALSE
     /\ Fault
  \/ ~Told(s, changed) /\ StaysDimmed

IdleAfterEdit(s) ==
  IF ~ShouldDim(s, usb) \/ showSettings THEN {}
  ELSE IF ~dimmed' THEN NextIdle(s, usb) ELSE idle

Edits(action) ==
  LET s == Apply(action, settings)
  IN /\ settings' = s
     /\ Shows(s, action \in {"brighter", "darker"})
     /\ idle' = IdleAfterEdit(s)
     /\ UNCHANGED <<panel, displayOn, usb, showSettings, showMenu>>

HandlesAction ==
  /\ queue # <<>>
  /\ queue' = Tail(queue)
  /\ \/ Head(queue) = "open" /\ Opens
     \/ Head(queue) = "close" /\ Closes
     \/ Head(queue) \in EditActions /\ Edits(Head(queue))

-----------------------------------------------------------------------------
(* The idle deadline, which counts only while the panel is on and the       *)
(* settings page is closed, and comes after the settings channel.           *)
IdleDue == displayOn /\ ~showSettings /\ idle = {0}

IdleEnds ==
  /\ IdleDue /\ queue = <<>>
  /\ idle' = {}
  /\ \/ /\ ShouldDim(settings, usb)
        /\ Accepts(settings.dimBrightness) /\ dimmed' = TRUE
     \/ ShouldDim(settings, usb) /\ Refuses /\ UNCHANGED dimmed
     \/ ~ShouldDim(settings, usb) /\ StaysDimmed
  /\ UNCHANGED <<panel, displayOn, usb, settings, showSettings, showMenu, queue>>

Tick ==
  /\ queue = <<>> /\ ~IdleDue
  /\ idle' = {IF n = 0 THEN 0 ELSE n - 1 : n \in idle}
  /\ UNCHANGED <<panel, brightness, displayOn, dimmed, usb, settings,
                 showSettings, showMenu, queue>>

Telemetry == PmicOnline(usb)

(* What somebody does to the device.                                        *)
Attention == ShortPress \/ LongPress \/ Touches \/ PmicOnline(~usb)

Leaves == ~away /\ away' = TRUE /\ UNCHANGED <<panel, brightness, displayOn, dimmed,
            idle, usb, settings, showSettings, showMenu, queue>>

Next ==
  \/ ~away /\ Attention /\ UNCHANGED away
  \/ (Telemetry \/ HandlesAction \/ IdleEnds \/ Tick) /\ UNCHANGED away
  \/ Leaves

Spec == Init /\ [][Next]_vars

(* The loop is scheduled and time passes; nobody has to touch anything.     *)
LoopStep == (HandlesAction \/ IdleEnds) /\ UNCHANGED away
TimePasses == Tick /\ UNCHANGED away

FairSpec == Spec /\ WF_vars(LoopStep) /\ WF_vars(TimePasses)

-----------------------------------------------------------------------------
TypeOK ==
  /\ {awake, output, displayOn, dimmed, usb, showSettings, showMenu, refused, cut, away}
       \subseteq BOOLEAN
  /\ level \in Percents
  /\ idle \subseteq Nat
  /\ settings \in DisplaySettings /\ Valid(settings)
  /\ queue \in Seq(Actions) /\ Len(queue) <= QCap
  /\ faults \in 0..MaxFaults

(* The display that the firmware draws on shows what it draws, and the one  *)
(* that it takes for asleep is dark, whatever was refused on the way: unless*)
(* a sleep was cut short, for then the loop draws on a dark panel until     *)
(* the next sleep.                                                          *)
PowerTold == IF cut THEN displayOn /\ ~output ELSE displayOn <=> awake /\ output

(* The countdown is never forgotten: a bright panel that should dim is on   *)
(* its way to, unless the dim level was refused.                            *)
CountsDown ==
  displayOn /\ ~showSettings /\ ~dimmed /\ ShouldDim(settings, usb) =>
    idle # {} \/ refused

(* The flag tells the panel's level, so that a touch knows when to undim.   *)
LevelTold ==
  displayOn =>
    \/ level = IF dimmed THEN settings.dimBrightness ELSE settings.brightness
    \/ refused

(* A panel that should not dim is not left dimmed, whatever changed last:   *)
(* USB power, the settings, or both while the display was asleep.           *)
DimmedByPolicy == displayOn /\ dimmed => ShouldDim(settings, usb) \/ refused

(* The panel dims at last when it is left alone, however often telemetry    *)
(* comes in.                                                                *)
BrightByRight == \/ ~displayOn \/ showSettings \/ refused
                 \/ ~ShouldDim(settings, usb)
DimsAtLast == away ~> [](dimmed \/ BrightByRight)
=============================================================================
