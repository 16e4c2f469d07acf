------------------------------- MODULE Inputs -------------------------------
(***************************************************************************)
(* The tasks that bring the touch controller and the PMIC to the UI loop   *)
(* (touch_task and pmic_task of firmware/src/tasks.rs, poll_power_key of   *)
(* firmware/src/pmic.rs): a bounded channel of touches, a latched register *)
(* of power-key presses, two signals that hold one value each, and what    *)
(* the UI loop (firmware/src/bin/main.rs) makes of them.  Every transfer   *)
(* on the bus may fail, and the tasks interleave between them.             *)
(***************************************************************************)
EXTENDS Naturals, Sequences

CONSTANTS TouchCap,  \* touches the channel holds
          MaxFaults  \* bound on failed transfers

ASSUME InputsAssumption == TouchCap \in Nat \ {0} /\ MaxFaults \in Nat

VARIABLES
  finger,      \* the finger is on the panel
  touchPc,     \* where touch_task is
  pressed,     \* the last report had a point
  touches,     \* TOUCH.events
  latch,       \* the PMIC's status bits of the power key
  vbus,        \* the board has USB power
  pmicPc,      \* where pmic_task is
  read,        \* the bits that poll_power_key has read
  sample,      \* the USB power that read_stats is reading
  powerKey,    \* PMIC.power_key
  stats,       \* PMIC.stats
  powerOff,    \* PMIC.power_off
  displayOn,   \* display_on
  pointer,     \* last_touch_position is Some: Slint has a button down
  usb,         \* usb_connected
  unanswered,  \* kinds whose latest press the UI loop has had no event of
  lost,        \* those of them that will have none
  faults

touchTask == <<touchPc, pressed>>
pmicTask == <<pmicPc, read, sample>>
loop == <<displayOn, pointer, usb>>
user == <<finger, vbus>>
ghosts == <<unanswered, lost>>
vars == <<touchTask, touches, latch, pmicTask, powerKey, stats, powerOff, loop,
          user, ghosts, faults>>

Keys == {"short", "long"}
TouchState == {"Pressed", "Released"}
Option(S) == {{}} \cup {{x} : x \in S}

(* PmicEvent: the USB power of a sample, or an error.                       *)
PmicEvent == [online : Option(BOOLEAN)]
Online(b) == [online |-> {b}]
Error == [online |-> {}]

Fault == faults < MaxFaults /\ faults' = faults + 1

Init ==
  /\ finger \in BOOLEAN /\ vbus \in BOOLEAN
  /\ touchPc = "init" /\ pressed = FALSE
  /\ touches = <<>>
  /\ latch \in SUBSET Keys
  /\ pmicPc = "init" /\ read = {} /\ sample = {}
  /\ powerKey = {} /\ stats = {} /\ powerOff = FALSE
  /\ displayOn = TRUE /\ pointer = FALSE /\ usb = FALSE
  /\ unanswered = {} /\ lost = {}
  /\ faults = 0

-----------------------------------------------------------------------------
(* The touch controller announces each report with an edge of its interrupt *)
(* line.  Only a task that waits for the edge sees it, and not always.      *)
Noticed == IF touchPc = "wait" THEN {"read"} ELSE {}
Edge == touchPc' \in {touchPc} \cup Noticed

Lands ==
  /\ ~finger /\ finger' = TRUE /\ Edge
  /\ UNCHANGED <<pressed, touches, latch, pmicTask, powerKey, stats,
                 powerOff, loop, vbus, ghosts, faults>>
Lifts ==
  /\ finger /\ finger' = FALSE /\ Edge
  /\ UNCHANGED <<pressed, touches, latch, pmicTask, powerKey, stats,
                 powerOff, loop, vbus, ghosts, faults>>
Moves ==
  /\ finger /\ touchPc = "wait" /\ touchPc' = "read"
  /\ UNCHANGED <<pressed, touches, latch, pmicTask, powerKey, stats,
                 powerOff, loop, user, ghosts, faults>>

(* The PMIC latches a press until it is acknowledged.                       *)
Presses(key) ==
  /\ pmicPc # "init"
  /\ latch' = latch \cup {key}
  /\ unanswered' = unanswered \cup {key} /\ lost' = lost \ {key}
  /\ UNCHANGED <<touchTask, touches, pmicTask, powerKey, stats, powerOff, loop,
                 user, faults>>

Plugs ==
  /\ vbus' = ~vbus
  /\ UNCHANGED <<touchTask, touches, latch, pmicTask, powerKey, stats, powerOff,
                 loop, finger, ghosts, faults>>

(* The power-off action of the UI.  Who asked for it waits for it.           *)
AsksPowerOff ==
  /\ displayOn /\ powerOff' = TRUE
  /\ UNCHANGED <<touchTask, touches, latch, pmicTask, powerKey, stats, loop,
                 user, ghosts, faults>>

Attention ==
  /\ ~powerOff
  /\ \/ Lands \/ Lifts \/ Moves
     \/ \E key \in Keys : Presses(key)
     \/ Plugs \/ AsksPowerOff

-----------------------------------------------------------------------------
(* touch_task.                                                              *)
TouchStarts ==
  /\ touchPc = "init"
  /\ \/ touchPc' = "wait" /\ UNCHANGED faults
     \/ touchPc' = "ended" /\ Fault
  /\ UNCHANGED pressed

(* While a finger is down the task asks again after a silence.  The mutant  *)
(* waits for the edge of the release.                                       *)
AwaitsEdge == FALSE
SilenceEnds == pressed

TimesOut ==
  /\ touchPc = "wait" /\ SilenceEnds
  /\ touchPc' = "check"
  /\ UNCHANGED <<pressed, faults>>

Reports(point) == pressed' = point /\ touchPc' = "send"

(* A report, or a read that failed, which counts as a release.              *)
ReadsReport ==
  /\ touchPc = "read"
  /\ \/ finger /\ Reports(TRUE) /\ UNCHANGED faults
     \/ ~finger /\ Reports(FALSE) /\ UNCHANGED faults
     \/ Reports(FALSE) /\ Fault

ChecksAgain ==
  /\ touchPc = "check"
  /\ \/ finger /\ touchPc' = "wait" /\ UNCHANGED <<pressed, faults>>
     \/ ~finger /\ Reports(FALSE) /\ UNCHANGED faults
     \/ Reports(FALSE) /\ Fault

TouchTask ==
  /\ TouchStarts \/ TimesOut \/ ReadsReport \/ ChecksAgain
  /\ UNCHANGED <<touches, latch, pmicTask, powerKey, stats, powerOff, loop, user,
                 ghosts>>

(* A full channel makes the task wait.                                      *)
Room == Len(touches) < TouchCap

Sends ==
  /\ touchPc = "send" /\ Room
  /\ touches' = Append(touches, IF pressed THEN "Pressed" ELSE "Released")
  /\ touchPc' = "wait"
  /\ UNCHANGED <<pressed, latch, pmicTask, powerKey, stats, powerOff, loop,
                 user, ghosts, faults>>

-----------------------------------------------------------------------------
(* pmic_task.  Its start discards the press that powered the board on.      *)
PmicStarts ==
  /\ pmicPc = "init"
  /\ \/ /\ pmicPc' = "poll" /\ latch' = {}
        /\ UNCHANGED <<stats, faults>>
     \/ /\ Fault /\ latch' \in {latch, {}}
        /\ pmicPc' = "ended" /\ stats' = {Error}
  /\ UNCHANGED <<touchTask, touches, read, sample, powerKey, powerOff, loop, user,
                 ghosts>>

(* A power-off that the PMIC refuses is not tried again.                    *)
TakesPowerOff ==
  /\ pmicPc = "poll" /\ powerOff
  /\ powerOff' = FALSE
  /\ \/ pmicPc' = "off" /\ UNCHANGED faults
     \/ pmicPc' = "read" /\ Fault
  /\ UNCHANGED <<touchTask, touches, latch, read, sample, powerKey, stats, loop,
                 user, ghosts>>

ReadsKey ==
  /\ \/ pmicPc = "poll" /\ ~powerOff
     \/ pmicPc = "read"
  /\ \/ /\ read' = latch /\ UNCHANGED faults
        /\ pmicPc' = IF latch = {} THEN "stats" ELSE "ack"
     \/ Fault /\ pmicPc' = "stats" /\ UNCHANGED read
  /\ UNCHANGED <<touchTask, touches, latch, sample, powerKey, stats, powerOff, loop,
                 user, ghosts>>

(* The bits that were read are cleared.  A mutant clears the register, and  *)
(* one takes the presses for two events if there are two.                   *)
LatchCleared == {}
AfterAck == latch \ read

OnlyOfOne == IF read = Keys THEN powerKey ELSE {CHOOSE key \in Keys : key \in read}
Gesture == IF "long" \in read THEN {"long"} ELSE {"short"}

(* What the code drops: a short press that was read with a long one, and an *)
(* event of the other kind that the loop has not taken from the signal.     *)
(* A later press of the kind, latched still, is not lost with it.           *)
Outranked == IF "long" \in read THEN read \ {"long"} ELSE {}
Overwritten == powerKey \ Gesture
Loses(keys) == lost' = lost \cup (keys \ latch')

Acknowledges ==
  /\ pmicPc = "ack"
  /\ latch' = AfterAck
  /\ powerKey' = Gesture
  /\ Loses(Outranked \cup Overwritten)
  /\ read' = {}
  /\ pmicPc' = "stats"
  /\ UNCHANGED <<touchTask, touches, sample, stats, powerOff, loop, user, unanswered,
                 faults>>

AckFails ==
  /\ pmicPc = "ack"
  /\ Fault
  /\ \/ UNCHANGED <<latch, lost>>
     \/ latch' = AfterAck /\ Loses(read)
  /\ read' = {}
  /\ pmicPc' = "stats"
  /\ UNCHANGED <<touchTask, touches, sample, powerKey, stats, powerOff, loop, user,
                 unanswered>>

(* Telemetry, when it is due: read_stats reads USB power before the rest.   *)
NotDue ==
  /\ pmicPc = "stats"
  /\ pmicPc' = "poll"
  /\ UNCHANGED <<touchTask, touches, latch, read, sample, powerKey, stats, powerOff,
                 loop, user, ghosts, faults>>

ReadsVbus ==
  /\ pmicPc = "stats"
  /\ sample' = {vbus}
  /\ pmicPc' = "publish"
  /\ UNCHANGED <<touchTask, touches, latch, read, powerKey, stats, powerOff, loop,
                 user, ghosts, faults>>

PublishesStats ==
  /\ pmicPc = "publish"
  /\ \/ stats' = {Online(b) : b \in sample} /\ UNCHANGED faults
     \/ stats' = {Error} /\ Fault
  /\ sample' = {}
  /\ pmicPc' = "poll"
  /\ UNCHANGED <<touchTask, touches, latch, read, powerKey, powerOff, loop,
                 user, ghosts>>

PmicTask ==
  \/ PmicStarts \/ TakesPowerOff \/ ReadsKey \/ Acknowledges \/ AckFails
  \/ NotDue \/ PublishesStats

-----------------------------------------------------------------------------
(* The UI loop, which polls the key before the touches and those before the *)
(* telemetry.  An event answers presses of its own kind alone, and neither   *)
(* one that is latched still nor one that was lost after it.                *)
Answers == unanswered' = unanswered \ (powerKey \ (latch \cup lost))

(* A display that goes to sleep has Slint's button released first; the      *)
(* mutant forgets that.                                                     *)
ButtonKept == pointer
ButtonReleased == FALSE

HandlesKey ==
  /\ powerKey # {}
  /\ powerKey' = {}
  /\ Answers
  /\ \/ /\ displayOn /\ powerKey = {"short"}
        /\ pointer' = ButtonReleased
        /\ \/ displayOn' = FALSE /\ UNCHANGED faults
           \/ UNCHANGED displayOn /\ Fault
     \/ displayOn /\ powerKey = {"long"} /\ UNCHANGED <<displayOn, pointer, faults>>
     \/ ~displayOn /\ displayOn' = TRUE /\ UNCHANGED <<pointer, faults>>
     \/ ~displayOn /\ Fault /\ UNCHANGED <<displayOn, pointer>>
  /\ UNCHANGED <<touchTask, touches, latch, pmicTask, stats, powerOff, usb, user, lost>>

(* A display that is on has all the waiting touches dispatched at once.     *)
DispatchesTouches ==
  /\ powerKey = {} /\ touches # <<>> /\ displayOn
  /\ pointer' = (touches[Len(touches)] = "Pressed")
  /\ touches' = <<>>
  /\ UNCHANGED <<touchTask, latch, pmicTask, powerKey, stats, powerOff, displayOn, usb,
                 user, ghosts, faults>>

DropsTouch ==
  /\ powerKey = {} /\ touches # <<>> /\ ~displayOn
  /\ touches' = Tail(touches)
  /\ UNCHANGED <<touchTask, latch, pmicTask, powerKey, stats, powerOff, loop, user,
                 ghosts, faults>>

(* An error leaves usb_connected as it was; in the mutant so does a sample  *)
(* without USB power.                                                       *)
UsbEverSeen(event) == usb \/ TRUE \in event.online
UsbAfter(event) == IF event = Error THEN usb ELSE TRUE \in event.online

HandlesStats ==
  /\ powerKey = {} /\ touches = <<>> /\ stats # {}
  /\ stats' = {}
  /\ \E event \in stats : usb' = UsbAfter(event)
  /\ UNCHANGED <<touchTask, touches, latch, pmicTask, powerKey, powerOff, displayOn,
                 pointer, user, ghosts, faults>>

UiLoop == HandlesKey \/ DispatchesTouches \/ DropsTouch \/ HandlesStats

-----------------------------------------------------------------------------
Next ==
  /\ pmicPc # "off"
  /\ Attention \/ TouchTask \/ Sends \/ PmicTask \/ ReadsVbus \/ UiLoop

Spec == Init /\ [][Next]_vars

(* The tasks and the UI loop are scheduled; a silent controller times out;  *)
(* telemetry falls due now and then.                                        *)
Fairness ==
  /\ WF_vars(pmicPc # "off" /\ (TouchTask \/ Sends))
  /\ WF_vars(pmicPc # "off" /\ PmicTask)
  /\ SF_vars(pmicPc # "off" /\ ReadsVbus)
  /\ WF_vars(pmicPc # "off" /\ UiLoop)

FairSpec == Spec /\ Fairness

-----------------------------------------------------------------------------
TypeOK ==
  /\ {finger, vbus, pressed, powerOff, displayOn, pointer, usb} \subseteq BOOLEAN
  /\ touchPc \in {"init", "wait", "read", "check", "send", "ended"}
  /\ pmicPc \in {"init", "poll", "read", "ack", "stats", "publish", "off", "ended"}
  /\ touches \in Seq(TouchState) /\ Len(touches) <= TouchCap
  /\ latch \subseteq Keys /\ read \subseteq Keys
  /\ unanswered \subseteq Keys /\ lost \subseteq Keys
  /\ powerKey \in Option(Keys) /\ sample \in Option(BOOLEAN)
  /\ stats \in Option(PmicEvent)
  /\ faults \in 0..MaxFaults

(* No button is down in Slint while the display is asleep: touches are not  *)
(* dispatched then, and neither would the release be.                       *)
AsleepReleased == ~displayOn => ~pointer

(* A press that arrives between the read and the acknowledgement of another *)
(* stays latched: nothing is cleared that was not read.                     *)
OnlyReadIsCleared ==
  [][pmicPc # "init" => \A key \in latch \ latch' : key \in read]_vars

(* What the device comes to when nobody touches, presses or plugs anything  *)
(* any more.                                                                *)
Quiet == <>[][~Attention]_vars

(* Slint's button is not left down under no finger, whatever edges were     *)
(* missed, reads failed or touches were dropped.                            *)
ButtonFollows == Quiet => <>[](pointer => finger \/ pmicPc = "off")

(* usb_connected, which decides whether the panel dims, becomes what is     *)
(* plugged in, unless the PMIC could not be initialized.                    *)
UsbTold == Quiet => <>[](usb = vbus \/ pmicPc \in {"ended", "off"})

(* A press is followed by an event of its kind, which the UI loop takes.    *)
(* Presses of one kind that are latched together share one.  A press goes   *)
(* without only if it is a short one read together with a long one, or its  *)
(* event is overwritten in the signal by one of the other kind, or an       *)
(* acknowledgement cleared it and failed.                                   *)
PressAnswered ==
  Quiet => <>[](unanswered \subseteq lost \/ pmicPc \in {"ended", "off"})
=============================================================================
