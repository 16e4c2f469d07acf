------------------------------ MODULE RtcSync ------------------------------
(***************************************************************************)
(* The real-time clock: the PCF85063 with its battery-backed calendar,     *)
(* oscillator flag and RAM byte, firmware/src/rtc.rs with its identity     *)
(* probe, its read and its synchronize, the task of firmware/src/tasks.rs  *)
(* that runs them, and the snapshot the UI loop keeps.                     *)
(*                                                                         *)
(* Every I2C transaction is a step of its own.  It may fail, before or     *)
(* after a write took effect, and the firmware may be reset between any    *)
(* two of them; the chip keeps what was written.  A calendar is the clock  *)
(* request that wrote it, and Foreign when it is of no request: another    *)
(* firmware's local time, a torn write, or what a dead battery leaves.     *)
(***************************************************************************)
EXTENDS Naturals

CONSTANTS Syncs,       \* clock requests of the host
          Foreign,     \* a calendar that no request wrote
          Units,       \* what the low bits of the RAM byte can hold
          Offsets,     \* the units that decode to a UTC offset
          Zero,        \* units of a zero byte
          OffsetOf,    \* the units of each request's offset
          MaxFaults    \* bound on failed transactions, resets, battery losses

ASSUME RtcSyncAssumption == /\ Foreign \notin Syncs
                            /\ Offsets \subseteq Units
                            /\ Zero \in Offsets
                            /\ OffsetOf \in [Syncs -> Units]
                            /\ MaxFaults \in Nat

VARIABLES
  osf,         \* the chip's oscillator-stop flag
  cal,         \* the chip's calendar
  ram,         \* the chip's RAM byte
  pc,          \* the next transaction of rtc_task
  saved,       \* saved_ram of the probe
  req,         \* the request being written
  sync,        \* channels.sync: the last request not yet taken, if any
  event,       \* channels.snapshot: the last event not yet taken, if any
  latest,      \* latest_rtc of the UI loop, if any
  probeTorn,   \* a probe was left between its toggle and its restore
  faults

chip == <<osf, cal, ram>>
vars == <<osf, cal, ram, pc, saved, req, sync, event, latest, probeTorn, faults>>

-----------------------------------------------------------------------------
(* An optional value is a set of at most one element.                       *)
Option(S) == {{}} \cup {{x} : x \in S}

Calendars == Syncs \cup {Foreign}
Byte == [marked : BOOLEAN, units : Units]
Snapshot == [cal : Calendars, valid : BOOLEAN, offset : Option(Offsets)]
Probing == {"observe", "restore"}
Pc == {"save", "toggle", "flag", "control", "read", "idle", "invalidate",
       "calendar", "offset", "verify", "stopped"} \cup Probing

ZeroByte == [marked |-> FALSE, units |-> Zero]
Toggle(b) == [b EXCEPT !.marked = ~b.marked]

Encodable(s) == OffsetOf[s] \in Offsets
EncodeUnmarked(s) == [marked |-> FALSE, units |-> OffsetOf[s]]
Encode(s) == [marked |-> TRUE, units |-> OffsetOf[s]]
Decode(b) == {u \in Offsets : b.marked /\ u = b.units}

(* What read returns, and when the rest of the firmware believes it.        *)
Now == [cal |-> cal, valid |-> ~osf, offset |-> Decode(ram)]
Synchronized(s) == s.valid /\ s.offset # {}

Online(s) == [snapshot |-> {s}]
Nothing == [snapshot |-> {}]       \* RtcEvent::Error and RtcEvent::SyncFailed

Fault == faults < MaxFaults /\ faults' = faults + 1
Torn == probeTorn' = (\/ probeTorn
                      \/ pc \in {"toggle"} \cup Probing /\ ram' # saved)

-----------------------------------------------------------------------------
(* The chip starts with a calendar that the host protocol never wrote.      *)
Init ==
  /\ osf \in BOOLEAN
  /\ cal = Foreign
  /\ ram \in [marked : {FALSE}, units : Units]
  /\ pc = "save"
  /\ saved = ZeroByte
  /\ req \in Syncs
  /\ sync = {} /\ event = {} /\ latest = {}
  /\ probeTorn = FALSE
  /\ faults = 0

-----------------------------------------------------------------------------
(* A transaction that fails: init gives up and the task ends; a read or a   *)
(* synchronize reports and the task goes on.                                *)
Booting == {"save", "toggle", "flag", "control"} \cup Probing

(* The effects a write may have had when it is reported as failed.          *)
WriteFails ==
  \/ pc = "toggle" /\ ram' = Toggle(saved) /\ UNCHANGED <<osf, cal>>
  \/ pc = "restore" /\ ram' = saved /\ UNCHANGED <<osf, cal>>
  \/ pc = "invalidate" /\ ram' = ZeroByte /\ UNCHANGED <<osf, cal>>
  \/ pc = "calendar" /\ osf' = FALSE /\ cal' \in {req, Foreign} /\ UNCHANGED ram
  \/ pc = "offset" /\ ram' = Encode(req) /\ UNCHANGED <<osf, cal>>

TransactionFails ==
  /\ pc \notin {"idle", "stopped"}
  /\ Fault
  /\ pc' = IF pc \in Booting THEN "stopped" ELSE "idle"
  /\ event' = {Nothing}
  /\ WriteFails \/ UNCHANGED chip
  /\ Torn
  /\ UNCHANGED <<saved, req, sync, latest>>

(* The firmware is reset: only the chip keeps its state.                    *)
Resets ==
  /\ Fault
  /\ pc' = "save"
  /\ sync' = {} /\ event' = {} /\ latest' = {}
  /\ UNCHANGED <<chip, saved, req>>
  /\ Torn

(* A reset in the middle of the calendar's burst write.                     *)
ResetsInBurst ==
  /\ pc = "calendar"
  /\ Fault
  /\ osf' = FALSE
  /\ cal' = Foreign
  /\ pc' = "save"
  /\ sync' = {} /\ event' = {} /\ latest' = {}
  /\ UNCHANGED <<ram, saved, req, probeTorn>>

(* The battery dies: the chip restarts with its oscillator flag set.        *)
BatteryDies ==
  /\ Fault
  /\ osf' = TRUE
  /\ cal' = Foreign
  /\ ram' \in Byte
  /\ pc' = "save"
  /\ sync' = {} /\ event' = {} /\ latest' = {}
  /\ UNCHANGED <<saved, req, probeTorn>>

-----------------------------------------------------------------------------
(* init.                                                                    *)
Saves ==
  /\ pc = "save"
  /\ saved' = ram
  /\ pc' = "toggle"
  /\ UNCHANGED <<chip, req, sync, event, latest, probeTorn, faults>>

Toggles ==
  /\ pc = "toggle"
  /\ ram' = Toggle(saved)
  /\ pc' = "observe"
  /\ UNCHANGED <<osf, cal, saved, req, sync, event, latest, probeTorn, faults>>

Observes ==
  /\ pc = "observe"
  /\ pc' = "restore"
  /\ UNCHANGED <<chip, saved, req, sync, event, latest, probeTorn, faults>>

NotRestored == ram
Restored == saved

Restores ==
  /\ pc = "restore"
  /\ ram' = Restored
  /\ pc' = "flag"
  /\ UNCHANGED <<osf, cal, saved, req, sync, event, latest, probeTorn, faults>>

ReadsFlag ==
  /\ pc = "flag"
  /\ pc' = "control"
  /\ UNCHANGED <<chip, saved, req, sync, event, latest, probeTorn, faults>>

SetsControl ==
  /\ pc = "control"
  /\ pc' = "read"
  /\ UNCHANGED <<chip, saved, req, sync, event, latest, probeTorn, faults>>

(* read, at boot and once a minute.                                         *)
Reads ==
  /\ pc = "read"
  /\ event' = {Online(Now)}
  /\ pc' = "idle"
  /\ UNCHANGED <<chip, saved, req, sync, latest, probeTorn, faults>>

MinuteTicks ==
  /\ pc = "idle"
  /\ sync = {}       \* select polls the request first
  /\ pc' = "read"
  /\ UNCHANGED <<chip, saved, req, sync, event, latest, probeTorn, faults>>

-----------------------------------------------------------------------------
(* synchronize.  A request whose offset cannot be encoded, or whose year    *)
(* the chip cannot hold, is refused before the chip is touched.             *)
Takes ==
  /\ pc = "idle"
  /\ \E s \in sync : IF Encodable(s)
                     THEN req' = s /\ pc' = "invalidate" /\ UNCHANGED event
                     ELSE event' = {Nothing} /\ UNCHANGED <<req, pc>>
  /\ sync' = {}
  /\ UNCHANGED <<chip, saved, latest, probeTorn, faults>>

SkipsInvalidation ==
  /\ pc = "invalidate"
  /\ pc' = "calendar"
  /\ UNCHANGED <<chip, saved, req, sync, event, latest, probeTorn, faults>>

Invalidates ==
  /\ pc = "invalidate"
  /\ ram' = ZeroByte
  /\ pc' = "calendar"
  /\ UNCHANGED <<osf, cal, saved, req, sync, event, latest, probeTorn, faults>>

SetsCalendar ==
  /\ pc = "calendar"
  /\ osf' = FALSE
  /\ cal' = req
  /\ pc' = "offset"
  /\ UNCHANGED <<ram, saved, req, sync, event, latest, probeTorn, faults>>

SetsOffset ==
  /\ pc = "offset"
  /\ ram' = Encode(req)
  /\ pc' = "verify"
  /\ UNCHANGED <<osf, cal, saved, req, sync, event, latest, probeTorn, faults>>

Verified == Synchronized(Now) /\ Now.cal = req /\ Now.offset = {OffsetOf[req]}

Verifies ==
  /\ pc = "verify"
  /\ event' = {IF Verified THEN Online(Now) ELSE Nothing}
  /\ pc' = "idle"
  /\ UNCHANGED <<chip, saved, req, sync, latest, probeTorn, faults>>

-----------------------------------------------------------------------------
(* The host's clock frame replaces one that was not taken yet.              *)
Requests(s) ==
  /\ sync' = {s}
  /\ UNCHANGED <<chip, pc, saved, req, event, latest, probeTorn, faults>>

(* The UI loop takes the last event.                                        *)
TakesEvent ==
  /\ \E e \in event : latest' = e.snapshot
  /\ event' = {}
  /\ UNCHANGED <<chip, pc, saved, req, sync, probeTorn, faults>>

TaskStep ==
  \/ Saves \/ Toggles \/ Observes \/ Restores \/ ReadsFlag \/ SetsControl
  \/ Reads \/ Takes \/ Invalidates \/ SetsCalendar \/ SetsOffset \/ Verifies

Next ==
  \/ TaskStep \/ MinuteTicks \/ TakesEvent
  \/ \E s \in Syncs : Requests(s)
  \/ TransactionFails \/ Resets \/ ResetsInBurst \/ BatteryDies

(* The task and the UI loop are scheduled, and the host sends its clock     *)
(* again every hour.                                                        *)
Fairness ==
  /\ WF_vars(TaskStep)
  /\ WF_vars(TakesEvent)
  /\ WF_vars(\E s \in Syncs : Requests(s))

Spec == Init /\ [][Next]_vars
FairSpec == Spec /\ Fairness

-----------------------------------------------------------------------------
TypeOK ==
  /\ osf \in BOOLEAN
  /\ cal \in Calendars
  /\ ram \in Byte
  /\ pc \in Pc
  /\ saved \in Byte
  /\ req \in Syncs
  /\ sync \in Option(Syncs)
  /\ event \in Option([snapshot : Option(Snapshot)])
  /\ latest \in Option(Snapshot)
  /\ probeTorn \in BOOLEAN
  /\ faults \in 0..MaxFaults

(* A snapshot is honest when it is believed only with the calendar and the  *)
(* offset of one and the same request.                                      *)
Honest(s) == Synchronized(s) => s.cal \in Syncs /\ s.offset = {OffsetOf[s.cal]}

(* What Snapshot::synchronized says of itself: it is true only of a clock   *)
(* that the host protocol wrote, and not of old local time.                 *)
FailsClosed == \A s \in latest : Honest(s)

(* So it is as long as no identity probe was interrupted; an interrupted    *)
(* synchronize fails closed, as its comment says.                           *)
FailsClosedUnlessTorn == ~probeTorn => FailsClosed

(* The byte that the chip will hold when the probe is over.                 *)
Settled == IF pc \in Probing THEN saved ELSE ram
Trusted == cal \in Syncs /\ ~osf /\ Settled = Encode(cal)

(* A synchronized clock survives resets and failed transactions: it is lost *)
(* only to the next synchronization, an interrupted probe or the battery.   *)
KeepsSync ==
  [][Trusted /\ ~Trusted' => pc = "invalidate" \/ osf' \/ probeTorn']_vars

(* Whatever failed, the UI gets a synchronized clock again, unless init      *)
(* failed and its task has ended, from a host whose offset the byte can     *)
(* hold.                                                                    *)
SendsUsable == \A s \in Syncs : Requests(s) => Encodable(s)
HasClock == \E s \in latest : Synchronized(s) /\ Honest(s)
GetsClock == <>[][SendsUsable]_vars => []<>(pc = "stopped" \/ HasClock)
=============================================================================
