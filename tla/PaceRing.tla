------------------------------ MODULE PaceRing ------------------------------
(***************************************************************************)
(* Pace (claudial-icd/src/pace.rs): a ring of segments, of which head is   *)
(* the next to be written and len the number that counts, and the readings *)
(* that walk it from the newest segment back.  It implements PaceWindow.   *)
(***************************************************************************)
EXTENDS Integers, Sequences

CONSTANTS Percents,    \* the percentages a reading may have
          Segments,    \* SEGMENTS
          Window,      \* WINDOW_SECONDS
          MinCoverage, \* MINIMUM_COVERAGE_SECONDS
          MaxGap,      \* MAXIMUM_SAMPLE_GAP_SECONDS
          Scale,       \* SCALE
          Hour,        \* 60 * 60
          MaxRate,     \* u16::MAX
          MaxElapsed   \* bound on the seconds between two readings

(* The last conjunct: SCALE resolves one percent per hour over any coverage *)
(* that a rate is computed from (3600 <= 300 * 500_000).                    *)
ASSUME PaceRingAssumption ==
  /\ Percents \subseteq Nat
  /\ {Segments, Window, MinCoverage, MaxGap, Scale, Hour} \subseteq Nat \ {0}
  /\ {MaxRate, MaxElapsed} \subseteq Nat
  /\ MinCoverage <= Window
  /\ Hour <= MinCoverage * (Scale \div 2)

VARIABLES segments, head, len, previous

vars == <<segments, head, len, previous>>

Slots == 0..(Segments - 1)
Segment == [delta : Nat, elapsed : Nat]
EmptySegment == [delta |-> 0, elapsed |-> 0]

Lesser(a, b) == IF a <= b THEN a ELSE b
(* The mutant takes the reset of a rolling window for spending.             *)
Difference(a, b) == IF a >= b THEN a - b ELSE b - a
SaturatingSub(a, b) == IF a >= b THEN a - b ELSE 0

Init ==
  /\ segments = [i \in Slots |-> EmptySegment]
  /\ head = 0
  /\ len = 0
  /\ previous = {}

-----------------------------------------------------------------------------
(* The first reading establishes a baseline.                                *)
RecordFirst(percent) ==
  /\ previous = {}
  /\ previous' = {percent}
  /\ UNCHANGED <<segments, head, len>>

(* So does one after a gap, or one in the same second.                      *)
RecordGap(percent, elapsed) ==
  /\ previous # {}
  /\ elapsed = 0 \/ elapsed > MaxGap
  /\ previous' = {percent}
  /\ head' = 0 /\ len' = 0
  /\ UNCHANGED segments

NextLen == Lesser(len + 1, Segments)

RecordInterval(percent, elapsed) ==
  /\ elapsed \in 1..MaxGap
  /\ \E before \in previous :
       segments' = [segments EXCEPT ![head] =
         [delta |-> SaturatingSub(percent, before), elapsed |-> elapsed]]
  /\ previous' = {percent}
  /\ head' = (head + 1) % Segments
  /\ len' = NextLen

Record(percent, elapsed) ==
  RecordFirst(percent) \/ RecordGap(percent, elapsed) \/ RecordInterval(percent, elapsed)

Next == \E percent \in Percents, elapsed \in 0..MaxElapsed : Record(percent, elapsed)

Spec == Init /\ [][Next]_vars

-----------------------------------------------------------------------------
(* The readings.  Each is a walk of its own from the newest segment back.   *)
Recent(n) == segments[(head + Segments - 1 - n) % Segments]

(* rate_per_hour: the seconds of segment n that are within the window,      *)
(* after those of the segments before it.  A walk that has covered the      *)
(* window stops: further segments would contribute nothing.                 *)
Included(n, covered) == Lesser(Recent(n).elapsed, Window - covered)

CoveredBy[n \in 0..len] ==
  IF n = 0 THEN 0 ELSE CoveredBy[n - 1] + Included(n - 1, CoveredBy[n - 1])

Covered == CoveredBy[len]

(* The spending of a segment that is cut by the window counts in part; the  *)
(* mutant counts it whole.                                                  *)
WholeShare(n, included) == Recent(n).delta * Scale
Share(n, included) == (Recent(n).delta * included * Scale) \div Recent(n).elapsed

ScaledSpentBy[n \in 0..len] ==
  IF n = 0 THEN 0
  ELSE ScaledSpentBy[n - 1] + Share(n - 1, Included(n - 1, CoveredBy[n - 1]))

(* A rate, once enough has been observed.                                   *)
Rate == LET scaledRate == (ScaledSpentBy[len] * Hour) \div Covered
        IN Lesser((scaledRate + Scale \div 2) \div Scale, MaxRate)

RatePerHour == IF Covered < MinCoverage THEN {} ELSE {Rate}

(* covered_seconds, by which readiness_remaining_seconds counts down.  The  *)
(* mutant stops where unchanged_seconds does.                               *)
StopsAtIncrease(n, covered) == covered = Window \/ Recent(n).delta > 0
Stops(n, covered) == covered = Window

CoveredSecondsBy[n \in 0..len] ==
  IF n = 0 THEN 0
  ELSE LET covered == CoveredSecondsBy[n - 1]
       IN IF Stops(n - 1, covered) THEN covered
          ELSE covered + Lesser(Recent(n - 1).elapsed, Window - covered)

CoveredSeconds == CoveredSecondsBy[len]
ReadinessRemaining == SaturatingSub(MinCoverage, CoveredSeconds)

(* unchanged_seconds: the segments, within the window, up to the last       *)
(* increase, which the mutant walks through.                                *)
UnchangedThroughIncrease == Covered
UnchangedSeconds ==
  CoveredBy[CHOOSE n \in 0..len : /\ \A m \in 0..(n - 1) : Recent(m).delta = 0
                                  /\ n = len \/ Recent(n).delta > 0]

-----------------------------------------------------------------------------
TypeOK ==
  /\ segments \in [Slots -> Segment]
  /\ head \in Slots
  /\ len \in 0..Segments
  /\ previous \in {{}} \cup {{p} : p \in Percents}

(* The intervals that the ring stands for.                                  *)
Intervals == [n \in 1..len |-> Recent(n - 1)]

Remembered == INSTANCE PaceWindow WITH Capacity <- Segments, intervals <- Intervals

(* The ring remembers what it promises: the newest intervals of one         *)
(* continuous observation, in their order, across wrap-arounds and gaps.    *)
Implements == Remembered!Spec

(* The rate is the pace of the window, to less than one percent per hour:   *)
(* the walk clips the segment that begins before it.                        *)
RateIsPace == \A rate \in RatePerHour : rate = MaxRate \/ rate \in Remembered!Paces(Hour)

(* No rate is withheld once the countdown to it has ended, and none shown   *)
(* before, although two walks of the ring decide the one and the other; and *)
(* until then the countdown is what the observation lacks.                  *)
ReadyMeansRate ==
  /\ ReadinessRemaining = 0 <=> RatePerHour # {}
  /\ RatePerHour = {} => ReadinessRemaining = MinCoverage - Remembered!Coverage

(* The streak that the page reports is the window's.                        *)
StreakIsTrue == UnchangedSeconds = Remembered!UnchangedFor
=============================================================================
