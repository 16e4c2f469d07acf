----------------------------- MODULE UsageFeed -----------------------------
(***************************************************************************)
(* A usage snapshot's way from the host's poll to the label on the dial:   *)
(* the host's queue and pump (HostPromise), the BLE peripheral, the        *)
(* device's bounded topic receiver and the usage signal                    *)
(* (firmware/src/ble.rs), and the UI loop (firmware/src/bin/main.rs),      *)
(* which recomputes OFFLINE, LIVE or STALE when a BLE, usage, RTC or       *)
(* maintenance event is handled.  It implements UsagePromise.              *)
(*                                                                         *)
(* Time passes in units.  A snapshot carries its age since it was polled,  *)
(* up to MaxAge.  Tasks are prompt: a unit passes only when no task of the *)
(* device has anything to do, nothing is in flight, and the host's pump    *)
(* has nothing to write over a connection that carries, to release or to   *)
(* take down.                                                              *)
(***************************************************************************)
EXTENDS Naturals, Sequences

CONSTANTS QCap,        \* frames the host's queue holds
          AirCap,      \* frames in flight at the same time
          RecvCap,     \* snapshots the device's topic receiver holds
          FreshFor,    \* DATA_FRESHNESS_TIMEOUT
          MaintEvery,  \* period of the maintenance ticker
          MaxAge       \* ages are not told apart from here on

ASSUME UsageFeedAssumption == /\ {QCap, AirCap, RecvCap, FreshFor, MaintEvery}
                                   \subseteq Nat \ {0}
                              /\ MaxAge \in Nat
                              /\ MaxAge > FreshFor + MaintEvery

VARIABLES
  queue, hostUp, pump,  \* the host's queue and pump, as in HostPromise
  link, carries, air,   \* the connection, as in HostPromise
  server,     \* the device has its GATT server
  recv,       \* the topic's bounded receiver
  usage,      \* the usage signal
  ble,        \* the BLE state signal
  connected,  \* ble_connected
  latest,     \* latest_usage, once one was received
  recvAge,    \* the age of last_usage_at
  label,      \* data_label
  maintIn     \* units until the maintenance ticker fires

host == <<queue, hostUp, pump>>
ui == <<connected, latest, recvAge, label, maintIn>>
device == <<recv, usage, server>>
connection == <<link, carries, air>>
vars == <<queue, hostUp, pump, connection, server, recv, usage, ble, connected, latest,
          recvAge, label, maintIn>>

-----------------------------------------------------------------------------
Promise == INSTANCE UsagePromise

JustPolled == [age |-> 0, old |-> FALSE]
Host == INSTANCE HostPromise WITH Fresh <- {JustPolled}

Snapshot == Promise!Snapshot
Option(S) == Promise!Option(S)
BleState == {"Advertising", "Connected", "Error"}

Older(age) == Promise!Older(age)
Aged(s) == Promise!Aged(s)
Label(conn, snap, age) == Promise!Label(conn, snap, age)

(* ble_task: a peripheral without its GATT server says so and is never      *)
(* heard of again.                                                          *)
FirstSignal == IF server THEN {"Advertising"} ELSE {"Error"}

Init ==
  /\ Host!Init /\ link = FALSE
  /\ recv = <<>> /\ usage = {}
  /\ server \in BOOLEAN
  /\ ble = FirstSignal
  /\ connected = FALSE
  /\ latest = {}
  /\ recvAge = MaxAge
  /\ label = "OFFLINE"
  /\ maintIn = MaintEvery

-----------------------------------------------------------------------------
(* The host: a poll that succeeded is broadcast.                            *)
Publishes ==
  /\ Host!Publishes(JustPolled)
  /\ UNCHANGED <<device, ble, ui>>

(* The mutants of this module are plausible bugs, each beside what it       *)
(* would replace.                                                           *)
ReceivedAnyway(s) == Append(recv, s)

(* The device's receiver drops what it has no room for.                     *)
Received(s) == IF Len(recv) < RecvCap THEN Append(recv, s) ELSE recv

Delivers ==
  /\ Host!Delivers
  /\ recv' = Received(Head(air))
  /\ UNCHANGED <<usage, server, ble, ui>>

(* What the host and the radio do without the device.                       *)
HostStep ==
  /\ \/ Host!Writes \/ Host!Releases \/ Host!WriteFails \/ Host!GoesDown
     \/ Host!PumpAborted \/ Host!Attaches \/ Host!Breaks \/ Host!Restarts
  /\ UNCHANGED <<device, ble, ui>>

Connects ==
  /\ server
  /\ Host!Links
  /\ ble' = {"Connected"}
  /\ UNCHANGED <<device, ui>>

(* accept_loop: the connection ends, for the host has gone or a             *)
(* notification failed, and the device advertises again.  So it does when   *)
(* advertising fails: the Error that it signals then is overwritten before  *)
(* anybody can see it.                                                      *)
AdvertisingUnsignalled == ble
AdvertisingSignal == {"Advertising"}

Disconnects ==
  /\ Host!Disconnects
  /\ ble' = AdvertisingSignal
  /\ UNCHANGED <<device, ui>>

AdvertisingFails ==
  /\ server /\ ~link
  /\ ble' = AdvertisingSignal
  /\ UNCHANGED <<host, connection, device, ui>>

(* The device restarts, and has its server or has not.                      *)
Restarts ==
  /\ Promise!Restarts
  /\ server' \in BOOLEAN
  /\ link' = FALSE /\ carries' = FALSE /\ air' = <<>>
  /\ recv' = <<>> /\ usage' = {}
  /\ ble' = FirstSignal'
  /\ UNCHANGED host

-----------------------------------------------------------------------------
(* usage_task: the signal keeps the last snapshot only.                     *)
Forwards ==
  /\ recv # <<>>
  /\ usage' = {Head(recv)}
  /\ recv' = Tail(recv)
  /\ UNCHANGED <<host, connection, server, ble, ui>>

-----------------------------------------------------------------------------
(* next_ui_event polls maintenance before the BLE signal, and that one      *)
(* before the usage signal.                                                 *)
LabelLeftStanding == label
LabelAtMaintenance == Label(connected, latest, recvAge)

Maintenance ==
  /\ maintIn = 0
  /\ maintIn' = MaintEvery
  /\ label' = LabelAtMaintenance
  /\ UNCHANGED <<host, connection, device, ble, connected, latest, recvAge>>

(* A BLE event leaves last_usage_at alone.                                  *)
AgeResetByBle == 0
AgeAfterBle == recvAge

BleEvent ==
  /\ maintIn > 0
  /\ \E state \in ble : connected' = (state = "Connected")
  /\ ble' = {}
  /\ recvAge' = AgeAfterBle
  /\ label' = Label(connected', latest, recvAge')
  /\ UNCHANGED <<host, connection, device, latest, maintIn>>

UsageEvent ==
  /\ maintIn > 0 /\ ble = {}
  /\ usage # {}
  /\ latest' = usage
  /\ usage' = {}
  /\ recvAge' = 0
  /\ label' = Label(connected, latest', recvAge')
  /\ UNCHANGED <<host, connection, recv, server, ble, connected, maintIn>>

RtcEvent ==
  /\ label' = Label(connected, latest, recvAge)
  /\ UNCHANGED <<host, connection, device, ble, connected, latest, recvAge, maintIn>>

-----------------------------------------------------------------------------
Prompt == /\ maintIn > 0 /\ ble = {} /\ usage = {} /\ recv = <<>>
          /\ air = <<>> /\ pump # "written"
          /\ pump = "ready" /\ carries => queue = <<>>
          /\ pump = "none" => ~hostUp

Tick ==
  /\ Prompt
  /\ maintIn' = maintIn - 1
  /\ recvAge' = Older(recvAge)
  /\ latest' = {Aged(s) : s \in latest}
  /\ queue' = [i \in 1..Len(queue) |-> Aged(queue[i])]
  /\ UNCHANGED <<hostUp, pump, connection, device, ble, connected, label>>

Next ==
  \/ Publishes \/ Delivers \/ HostStep \/ Connects \/ Disconnects
  \/ AdvertisingFails \/ Restarts \/ Forwards
  \/ Maintenance \/ BleEvent \/ UsageEvent \/ RtcEvent
  \/ Tick

(* The device's tasks are scheduled and time passes.                        *)
Fairness == /\ WF_vars(Maintenance) /\ WF_vars(BleEvent) /\ WF_vars(UsageEvent)
            /\ WF_vars(Forwards) /\ WF_vars(Tick)

Spec == Init /\ [][Next]_vars
FairSpec == Spec /\ Fairness

-----------------------------------------------------------------------------
TypeOK ==
  /\ queue \in Seq(Snapshot) /\ Len(queue) <= QCap
  /\ air \in Seq(Snapshot) /\ Len(air) <= AirCap
  /\ recv \in Seq(Snapshot) /\ Len(recv) <= RecvCap
  /\ usage \in Option(Snapshot) /\ latest \in Option(Snapshot)
  /\ ble \in Option(BleState)
  /\ pump \in {"none", "ready", "written"}
  /\ {hostUp, server, link, carries, connected} \subseteq BOOLEAN
  /\ label \in Promise!Labels
  /\ recvAge \in 0..MaxAge
  /\ maintIn \in 0..MaintEvery

(* What main.rs says, that two missed host polls make the displayed data    *)
(* stale: what is shown as LIVE was polled within that time.                *)
LiveMeansCurrent == Promise!LiveMeansCurrent

(* The frames that an earlier session left in the queue are the only        *)
(* exception to it.                                                         *)
LiveMeansCurrentOrLeftOver == Promise!LiveMeansCurrentOrLeftOver

(* No snapshot replaces one that was polled after it, whatever was dropped, *)
(* overwritten or left over on the way.                                     *)
NewestWins == Promise!NewestWins

(* The queue, the receiver, the signals and the faults of the link keep the *)
(* promise that the dial is built on: snapshots in the order of their       *)
(* polls, at once or left over, under a label that is always reconsidered.  *)
Implements == Promise!Spec

(* A device that the host has left says so, however fast connections come   *)
(* and go: the last state always gets through the signal.                   *)
GoesOffline == <>[](~link) => <>[](label = "OFFLINE")
=============================================================================
