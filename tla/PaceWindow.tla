----------------------------- MODULE PaceWindow -----------------------------
(***************************************************************************)
(* What claudial-icd/src/pace.rs promises to remember: the most recent     *)
(* timed intervals between readings, newest first, as many as it has room  *)
(* for, of one continuous observation; and what the pace of that           *)
(* observation is.                                                         *)
(***************************************************************************)
EXTENDS Integers, Sequences

CONSTANTS Percents,   \* the percentages a reading may have
          Capacity,   \* SEGMENTS
          Window,     \* WINDOW_SECONDS
          MaxGap,     \* MAXIMUM_SAMPLE_GAP_SECONDS
          MaxElapsed  \* seconds between readings are at most that

VARIABLES previous,  \* the last reading, if there was one
          intervals  \* newest first

vars == <<previous, intervals>>

Interval == [delta : Nat, elapsed : 1..MaxGap]

Lesser(a, b) == IF a <= b THEN a ELSE b

(* A drop is a reset of the rolling window, not negative spending.          *)
Spending(before, after) == IF after >= before THEN after - before ELSE 0

(* Nothing is known of the time before the first reading, nor across a gap. *)
ContinuousAfterGap(elapsed) == elapsed > 0
Continuous(elapsed) == elapsed \in 1..MaxGap

Observe(interval) ==
  LET longer == <<interval>> \o intervals
  IN SubSeq(longer, 1, Lesser(Len(longer), Capacity))

Init == previous = {} /\ intervals = <<>>

Record(percent, elapsed) ==
  /\ previous' = {percent}
  /\ intervals' =
       IF previous = {} THEN intervals
       ELSE IF ~Continuous(elapsed) THEN <<>>
       ELSE LET before == CHOOSE p \in previous : TRUE
            IN Observe([delta |-> Spending(before, percent), elapsed |-> elapsed])

Next == \E percent \in Percents, elapsed \in 0..MaxElapsed : Record(percent, elapsed)

Spec == Init /\ [][Next]_vars

-----------------------------------------------------------------------------
(* The seconds of the n newest intervals, and the part of them within the   *)
(* window.                                                                  *)
Total[n \in 0..Len(intervals)] ==
  IF n = 0 THEN 0 ELSE Total[n - 1] + intervals[n].elapsed

Coverage == Lesser(Total[Len(intervals)], Window)

(* The intervals that lie within the window as a whole, and the one that    *)
(* begins before it, if there is one.                                       *)
Whole == {n \in 1..Len(intervals) : Total[n] <= Window}
Partial == {n \in 1..Len(intervals) : Total[n - 1] < Window /\ Window < Total[n]}

Spent[n \in 0..Len(intervals)] ==
  IF n = 0 THEN 0 ELSE Spent[n - 1] + (IF n \in Whole THEN intervals[n].delta ELSE 0)

(* The whole numbers of percent per Hour seconds that are less than one     *)
(* away from the pace.  The partial interval counts with its share of the   *)
(* spending.                                                                *)
Paces(hour) ==
  LET part == IF Partial = {} THEN [delta |-> 0, elapsed |-> 1]
              ELSE intervals[CHOOSE n \in Partial : TRUE]
      within == IF Partial = {} THEN 0
                ELSE Window - Total[(CHOOSE n \in Partial : TRUE) - 1]
      exact == hour * (Spent[Len(intervals)] * part.elapsed + part.delta * within)
      unit == part.elapsed * Coverage
  IN {exact \div unit, (exact + unit - 1) \div unit}

(* The observation's time without an increase.                              *)
Increases == {n \in 1..Len(intervals) : intervals[n].delta > 0}
UnchangedFor ==
  IF Increases = {} THEN Coverage
  ELSE LET last == CHOOSE n \in Increases : \A m \in Increases : n <= m
       IN Lesser(Total[last - 1], Window)
=============================================================================
