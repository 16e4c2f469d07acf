-------------------------------- MODULE Dial --------------------------------
(***************************************************************************)
(* What the dial says: the readings of a usage source (UsageSources), as   *)
(* the feed promises to deliver them (UsagePromise), become the usage, the *)
(* pace (PaceWindow, which PaceRing implements), the countdown and the     *)
(* summary under it (firmware/src/bin/main.rs), by the clock that the UI   *)
(* loop has last heard of.                                                 *)
(*                                                                         *)
(* A unit of time is a part of a minute.  The dial cannot see whether a    *)
(* percentage was told, nor that the account has reached its limit.        *)
(***************************************************************************)
EXTENDS UsageSources, Sequences

CONSTANTS FreshFor, MaintEvery, MaxAge,  \* of UsagePromise
          Capacity,      \* SEGMENTS
          Window,        \* WINDOW_SECONDS
          MaxGap,        \* MAXIMUM_SAMPLE_GAP_SECONDS
          MinCoverage,   \* MINIMUM_COVERAGE_SECONDS
          UnchangedLong, \* USAGE_UNCHANGED_SECONDS
          Minute,        \* units in a minute
          MinutesAnHour,
          RtcEvery       \* units between two readings of the RTC

ASSUME DialAssumption ==
  /\ {Capacity, Window, MaxGap, MinCoverage, UnchangedLong, Minute, MinutesAnHour,
      RtcEvery, FreshFor, MaintEvery, MaxAge} \subseteq Nat \ {0}
  /\ FreshFor <= MaxGap /\ MaxGap < MaxAge /\ MinCoverage <= Window
  /\ MaxAge > FreshFor + MaintEvery

VARIABLES
  connected, latest, recvAge, label, maintIn,  \* of UsagePromise
  usage,      \* latest_usage: percentage and status
  toReset,    \* units until its reset, if it has one
  clock,      \* the age of latest_rtc, if that tells the time
  previous, intervals,  \* the pace
  summary,    \* pace_summary
  countdown,  \* usage_session_reset: minutes, if there are any
  told,       \* whether its percentage was told
  taint,      \* what the pace should not have counted
  limitFor    \* units that the account has been at its limit for

ui == <<connected, latest, recvAge, label, maintIn>>
pace == <<previous, intervals>>
face == <<summary, countdown>>
vars == <<ui, usage, toReset, clock, pace, face, told, taint, limitFor>>

Feed == INSTANCE UsagePromise
Pace == INSTANCE PaceWindow WITH Percents <- 0..Full, MaxElapsed <- MaxAge

Taints == {"unknown", "stretched"}
NoUsage == [session |-> Unknown.session, status |-> Unknown.status]

-----------------------------------------------------------------------------
(* The mutants of this module and of those it builds on are plausible bugs, *)
(* each beside what it would replace.                                       *)
MinutesRoundedDown == {(left + lag) \div Minute : left \in toReset, lag \in clock}

(* minutes_until by latest_rtc: partial minutes round up, and there are     *)
(* none when the reset is over, or when either is unknown.                  *)
Minutes ==
  {m \in {(left + lag + Minute - 1) \div Minute : left \in toReset, lag \in clock} : m > 0}

(* update_pace: of these, the first that holds.  A rate is whole, and less  *)
(* than one away from the pace.                                             *)
Hour == Minute * MinutesAnHour
AtLimit(u) == u.status = "Limited" \/ u.session >= Full

ExhaustsEarly(rate) ==
  \E m \in Minutes : ((Full - usage.session) * MinutesAnHour) \div rate < m

Verdict(rate) ==
  IF rate = 0 THEN "UNCHANGED"
  ELSE IF Minutes = {} \/ usage.status = "Unknown" THEN "PACE"
  ELSE IF ExhaustsEarly(rate) THEN "TOO FAST" ELSE "ON TRACK"

SummariesLimitFirst ==
  IF latest # {} /\ AtLimit(usage) THEN {"LIMIT REACHED"}
  ELSE IF ~connected THEN {"OFFLINE"}
  ELSE IF latest = {} THEN {"WAITING"}
  ELSE IF recvAge >= FreshFor THEN {"STALE"}
  ELSE IF Pace!Coverage < MinCoverage THEN {"NOT READY"}
  ELSE {Verdict(rate) : rate \in Pace!Paces(Hour)}

SummariesNeverStale ==
  IF ~connected THEN {"OFFLINE"}
  ELSE IF latest = {} THEN {"WAITING"}
  ELSE IF AtLimit(usage) THEN {"LIMIT REACHED"}
  ELSE IF Pace!Coverage < MinCoverage THEN {"NOT READY"}
  ELSE {Verdict(rate) : rate \in Pace!Paces(Hour)}

Summaries ==
  IF ~connected THEN {"OFFLINE"}
  ELSE IF latest = {} THEN {"WAITING"}
  ELSE IF recvAge >= FreshFor THEN {"STALE"}
  ELSE IF AtLimit(usage) THEN {"LIMIT REACHED"}
  ELSE IF Pace!Coverage < MinCoverage THEN {"NOT READY"}
  ELSE IF Pace!UnchangedFor >= UnchangedLong THEN {"UNCHANGED"}
  ELSE {Verdict(rate) : rate \in Pace!Paces(Hour)}

(* update_usage_state, whose label is the feed's.                           *)
Shows == summary' \in Summaries' /\ countdown' = Minutes'

-----------------------------------------------------------------------------
Init ==
  /\ Feed!Init
  /\ usage = NoUsage /\ toReset = {} /\ clock = {}
  /\ Pace!Init
  /\ summary = "OFFLINE" /\ countdown = {}
  /\ told = FALSE /\ taint = {} /\ limitFor = 0

(* What a source tells of an account at its limit.  A proxy whose own fetch  *)
(* failed tells older numbers and is not truthful in this sense: nothing     *)
(* after it could know.                                                      *)
Truthful(s, r) == r.told /\ s.age < limitFor => AtLimit(r.of)

(* The time between two readings is that between their arrivals, in full    *)
(* seconds: none, or a part of a unit, within one unit.                     *)
Elapsed == IF recvAge = 0 THEN {0, 1} ELSE {recvAge}

(* A pace should not count spending that nobody has told of, nor over a     *)
(* shorter time than the one between the polls of its readings.             *)
Pretends(r) == ~told /\ r.of.session > 0
Stretches(s, elapsed) ==
  \E t \in latest : ~t.old /\ t.age - s.age > Pace!Lesser(elapsed, MaxGap)

TaintAfter(s, r, elapsed) ==
  IF intervals' = <<>> THEN {}
  ELSE taint \cup {x \in Taints : \/ x = "unknown" /\ Pretends(r)
                                  \/ x = "stretched" /\ Stretches(s, elapsed)}

Last == -(RtcEvery + MaintEvery)
Later(n) == IF n < Last THEN Last ELSE n
ResetIn(r, s) == IF r.of.reset = Never THEN {} ELSE {Later(r.of.reset - s.age)}

Receives(s, r) ==
  /\ Truthful(s, r)
  /\ Feed!Learns(s)
  /\ \E elapsed \in Elapsed :
       /\ Pace!Record(r.of.session, elapsed)
       /\ taint' = TaintAfter(s, r, elapsed)
  /\ usage' = [session |-> r.of.session, status |-> r.of.status]
  /\ toReset' = ResetIn(r, s)
  /\ told' = r.told
  /\ UNCHANGED <<clock, limitFor>>
  /\ Shows

UsageEvent(s) == Feed!Acceptable(s) /\ \E r \in Polled : Receives(s, r)

-----------------------------------------------------------------------------
Standing == UNCHANGED <<usage, toReset, pace, told, taint, limitFor>>

BleEvent == \E state \in BOOLEAN : Feed!Hears(state) /\ Standing /\ UNCHANGED clock /\ Shows
Maintenance == Feed!Maintains /\ Standing /\ UNCHANGED clock /\ Shows

(* The RTC is read again, or synchronized; or it fails, or has no valid     *)
(* time.                                                                    *)
RtcEvent(time) == Feed!Reconsiders /\ clock' = time /\ Standing /\ Shows

Restarts ==
  /\ Feed!Restarts
  /\ usage' = NoUsage /\ toReset' = {} /\ clock' = {}
  /\ previous' = {} /\ intervals' = <<>>
  /\ summary' = "OFFLINE" /\ countdown' = {}
  /\ told' = FALSE /\ taint' = {}
  /\ UNCHANGED limitFor

-----------------------------------------------------------------------------
(* The account reaches its limit, and has a new window.                     *)
LongAtLimit == FreshFor + MaintEvery + 1
ReachesLimit == limitFor = 0 /\ limitFor' = 1
                /\ UNCHANGED <<ui, usage, toReset, clock, pace, face, told, taint>>
StartsAnew == limitFor > 0 /\ limitFor' = 0
              /\ UNCHANGED <<ui, usage, toReset, clock, pace, face, told, taint>>

Tick ==
  /\ Feed!Tick
  /\ clock # {RtcEvery}
  /\ clock' = {lag + 1 : lag \in clock}
  /\ toReset' = {Later(left - 1) : left \in toReset}
  /\ limitFor' = IF limitFor \in 1..(LongAtLimit - 1) THEN limitFor + 1 ELSE limitFor
  /\ UNCHANGED <<usage, pace, face, told, taint>>

Next ==
  \/ \E s \in Feed!Snapshot : UsageEvent(s)
  \/ BleEvent \/ Maintenance \/ Restarts
  \/ \E time \in {{}, {0}} : RtcEvent(time)
  \/ ReachesLimit \/ StartsAnew \/ Tick

Spec == Init /\ [][Next]_vars

-----------------------------------------------------------------------------
TypeOK ==
  /\ Feed!TypeOK
  /\ usage \in [session : 0..Full, status : Statuses]
  /\ \A left \in toReset : left \in Int
  /\ clock \in Maybe(0..RtcEvery)
  /\ previous \in Maybe(0..Full)
  /\ intervals \in Seq(Pace!Interval) /\ Len(intervals) <= Capacity
  /\ told \in BOOLEAN /\ taint \subseteq Taints /\ limitFor \in 0..LongAtLimit

(* A red summary is about now: the host is there, the reading is recent,    *)
(* and the window that is being exhausted has not ended long ago by a clock *)
(* that is known.                                                           *)
AlarmIsCurrent ==
  /\ summary \in {"LIMIT REACHED", "TOO FAST"} =>
       connected /\ recvAge < FreshFor + MaintEvery
  /\ summary = "TOO FAST" => clock # {} /\ \E left \in toReset : left > Last

(* The countdown never promises a reset before its time, nor one that is    *)
(* over by more than the reading of the clock and the ticker can be late;   *)
(* and it is not blank while there is a clock and a reset to count to.      *)
CountdownTrue ==
  /\ \A m \in countdown :
       \E left \in toReset : left <= m * Minute /\ (m - 1) * Minute < left - Last
  /\ countdown = {} /\ clock # {} => \A left \in toReset : left <= 0

(* An account that has been at its limit for longer than data is fresh is   *)
(* not said to have a pace, although claude_code.rs turns the refusal into  *)
(* a failed poll: unless the last answer was left over, or told nothing.    *)
LimitNotHidden ==
  limitFor = LongAtLimit /\ told /\ (\A s \in latest : ~s.old) =>
    summary \in {"OFFLINE", "WAITING", "STALE", "LIMIT REACHED"}

(* No interval of the pace is shorter than the time between the polls of    *)
(* its readings, and none bridges an outage, unless the earlier of them was *)
(* left over.                                                               *)
NeverBridges == "stretched" \notin taint

(* pace.rs does not want to manufacture a pace from data that was never     *)
(* observed: no alarm is raised by spending counted from a percentage that  *)
(* the host did not know.                                                   *)
NoAlarmFromUnknown == summary = "TOO FAST" => "unknown" \notin taint
=============================================================================
