---------------------------- MODULE UsagePromise ----------------------------
(***************************************************************************)
(* What the way of a snapshot from the host to the dial promises, without  *)
(* its queue, link, receiver and signals: the UI loop learns a snapshot at *)
(* some time, never one older than it knows, either promptly or left over  *)
(* from an earlier session; it hears of the connection; and it considers   *)
(* the label anew at each of these and at every maintenance tick           *)
(* (firmware/src/bin/main.rs).  UsageFeed implements it, Dial builds on it. *)
(***************************************************************************)
EXTENDS Naturals

CONSTANTS FreshFor,    \* DATA_FRESHNESS_TIMEOUT
          MaintEvery,  \* period of the maintenance ticker
          MaxAge       \* ages are not told apart from here on

VARIABLES
  connected,  \* ble_connected
  latest,     \* latest_usage, once one was received
  recvAge,    \* the age of last_usage_at
  label,      \* data_label
  maintIn     \* units until the maintenance ticker fires

ui == <<connected, latest, recvAge, label, maintIn>>

-----------------------------------------------------------------------------
(* A snapshot: how long ago it was polled, and whether an earlier session   *)
(* queued it.                                                               *)
Snapshot == [age : 0..MaxAge, old : BOOLEAN]
Option(S) == {{}} \cup {{x} : x \in S}
Labels == {"OFFLINE", "LIVE", "STALE"}

Older(age) == IF age < MaxAge THEN age + 1 ELSE age
Aged(s) == [s EXCEPT !.age = Older(s.age)]

(* update_data_state.                                                       *)
Label(conn, snap, age) ==
  IF ~conn THEN "OFFLINE"
  ELSE IF snap # {} /\ age < FreshFor THEN "LIVE" ELSE "STALE"

Init ==
  /\ connected = FALSE
  /\ latest = {}
  /\ recvAge = MaxAge
  /\ label = "OFFLINE"
  /\ maintIn = MaintEvery

-----------------------------------------------------------------------------
Considers == label' = Label(connected', latest', recvAge')

Acceptable(s) == /\ s.old \/ s.age = 0
                 /\ \A t \in latest : s.age <= t.age

Learns(s) ==
  /\ Acceptable(s)
  /\ latest' = {s}
  /\ recvAge' = 0
  /\ UNCHANGED <<connected, maintIn>>
  /\ Considers

Hears(state) ==
  /\ connected' = state
  /\ UNCHANGED <<latest, recvAge, maintIn>>
  /\ Considers

(* An RTC event changes nothing that the label depends on but the time.     *)
Reconsiders == UNCHANGED <<connected, latest, recvAge, maintIn>> /\ Considers

Maintains ==
  /\ maintIn = 0
  /\ maintIn' = MaintEvery
  /\ UNCHANGED <<connected, latest, recvAge>>
  /\ Considers

Tick ==
  /\ maintIn > 0
  /\ maintIn' = maintIn - 1
  /\ recvAge' = Older(recvAge)
  /\ latest' = {Aged(s) : s \in latest}
  /\ UNCHANGED <<connected, label>>

(* A device that restarts knows nothing.                                    *)
Restarts == /\ connected' = FALSE /\ latest' = {} /\ recvAge' = MaxAge
            /\ label' = "OFFLINE" /\ maintIn' = MaintEvery

Next ==
  \/ \E s \in Snapshot : Learns(s)
  \/ \E state \in BOOLEAN : Hears(state)
  \/ Reconsiders \/ Maintains \/ Restarts \/ Tick

Spec == Init /\ [][Next]_ui

-----------------------------------------------------------------------------
TypeOK ==
  /\ connected \in BOOLEAN
  /\ latest \in Option(Snapshot)
  /\ recvAge \in 0..MaxAge
  /\ label \in Labels
  /\ maintIn \in 0..MaintEvery

(* LIVE is never left standing: nothing recomputes the label when the data  *)
(* turns stale, so the maintenance ticker must, within its period.          *)
LiveMeansRecent == label = "LIVE" => recvAge < FreshFor + MaintEvery

(* main.rs says that two missed host polls make the displayed data stale:   *)
(* what is shown as LIVE was polled within that time.                       *)
PolledRecently == \A s \in latest : s.age < FreshFor + MaintEvery
LiveMeansCurrent == label = "LIVE" => PolledRecently

(* The frames that an earlier session left in the queue are the only        *)
(* exception to it.                                                         *)
LiveMeansCurrentOrLeftOver ==
  label = "LIVE" => PolledRecently \/ \E s \in latest : s.old

(* No snapshot replaces one that was polled after it, whatever was dropped, *)
(* overwritten or left over on the way.                                     *)
NewestWins == [][\A s \in latest, t \in latest' : t.age <= Older(s.age)]_ui
=============================================================================
