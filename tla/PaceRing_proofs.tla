-------------------------- MODULE PaceRing_proofs --------------------------
(***************************************************************************)
(* The ring of PaceRing implements PaceWindow, for every number of         *)
(* segments: the heart of it is that writing the slot at head and moving   *)
(* head on shifts every reading by one and loses only the oldest.  And     *)
(* what is read from it is what the window says: the walks are recursive   *)
(* functions, which induction over their finite domains identifies.        *)
(***************************************************************************)
EXTENDS PaceRing, FiniteSetTheorems, TLAPS

Slot(h, n) == (h + Segments - 1 - n) % Segments

(* The remainder of a number below twice the divisor.                       *)
LEMMA SmallRemainder ==
  ASSUME NEW s \in Nat \ {0}, NEW a \in Nat, a < 2 * s
  PROVE  a % s = IF a < s THEN a ELSE a - s
<1>1. CASE a < s
  BY <1>1, SMT
<1>2. CASE ~(a < s)
  BY <1>2, SMT
<1> QED BY <1>1, <1>2

(* Where head goes, and where the walk from head back finds its segments.   *)
LEMMA HeadMoves ==
  ASSUME NEW h \in Slots
  PROVE  (h + 1) % Segments = IF h + 1 < Segments THEN h + 1 ELSE 0
<1>1. Segments \in Nat \ {0}
  BY PaceRingAssumption
<1>2. h + 1 \in Nat /\ h + 1 < 2 * Segments
  BY <1>1 DEF Slots
<1> DEFINE a == h + 1
<1>3. a % Segments = IF a < Segments THEN a ELSE a - Segments
  BY <1>1, <1>2, SmallRemainder, Zenon
<1> QED BY <1>1, <1>3 DEF Slots

LEMMA SlotIs ==
  ASSUME NEW h \in Slots, NEW n \in Slots
  PROVE  Slot(h, n) = IF n < h THEN h - 1 - n ELSE h + Segments - 1 - n
<1>1. Segments \in Nat \ {0}
  BY PaceRingAssumption
<1>2. h + Segments - 1 - n \in Nat /\ h + Segments - 1 - n < 2 * Segments
  BY <1>1 DEF Slots
<1> DEFINE a == h + Segments - 1 - n
<1>3. a % Segments = IF a < Segments THEN a ELSE a - Segments
  BY <1>1, <1>2, SmallRemainder, Zenon
<1> QED BY <1>1, <1>3 DEF Slots, Slot

(* Seen from the new head, segment 0 is the one just written and every      *)
(* other segment is one further back.                                       *)
LEMMA WalkShifts ==
  ASSUME NEW h \in Slots, NEW next, next = (h + 1) % Segments
  PROVE  /\ next \in Slots
         /\ Slot(next, 0) = h
         /\ \A n \in 1..(Segments - 1) :
              /\ Slot(next, n) = Slot(h, n - 1)
              /\ Slot(h, n - 1) \in Slots
              /\ Slot(h, n - 1) # h
<1>1. Segments \in Nat \ {0}
  BY PaceRingAssumption
<1>2. next = IF h + 1 < Segments THEN h + 1 ELSE 0
  BY HeadMoves
<1>3. next \in Slots /\ 0 \in Slots
  BY <1>1, <1>2 DEF Slots
<1>4. Slot(next, 0) = h
  <2>1. Slot(next, 0) = IF 0 < next THEN next - 1 - 0 ELSE next + Segments - 1 - 0
    BY <1>3, SlotIs
  <2> QED BY <2>1, <1>1, <1>2 DEF Slots
<1>5. ASSUME NEW n \in 1..(Segments - 1)
      PROVE  /\ Slot(next, n) = Slot(h, n - 1)
             /\ Slot(h, n - 1) \in Slots
             /\ Slot(h, n - 1) # h
  <2>1. n \in Slots /\ n - 1 \in Slots
    BY <1>1 DEF Slots
  <2>2. Slot(next, n) = IF n < next THEN next - 1 - n ELSE next + Segments - 1 - n
    BY <2>1, <1>3, SlotIs
  <2>3. Slot(h, n - 1) = IF n - 1 < h THEN h - 1 - (n - 1) ELSE h + Segments - 1 - (n - 1)
    BY <2>1, SlotIs
  <2> QED BY <2>2, <2>3, <1>1, <1>2 DEF Slots
<1> QED BY <1>3, <1>4, <1>5

-----------------------------------------------------------------------------
(* Types.                                                                   *)
THEOREM InitTypeOK == Init => TypeOK
BY PaceRingAssumption DEF Init, TypeOK, Slots, Segment, EmptySegment

THEOREM NextTypeOK == TypeOK /\ [Next]_vars => TypeOK'
<1> SUFFICES ASSUME TypeOK, [Next]_vars PROVE TypeOK'
  OBVIOUS
<1>0. Segments \in Nat \ {0} /\ Percents \subseteq Nat /\ MaxElapsed \in Nat
  BY PaceRingAssumption
<1>1. CASE UNCHANGED vars
  BY <1>1 DEF TypeOK, vars
<1>2. ASSUME NEW percent \in Percents, NEW elapsed \in 0..MaxElapsed,
             Record(percent, elapsed)
      PROVE  TypeOK'
  <2>1. previous' \in {{}} \cup {{p} : p \in Percents}
    BY <1>2 DEF Record, RecordFirst, RecordGap, RecordInterval
  <2>2. CASE RecordFirst(percent)
    BY <2>1, <2>2 DEF TypeOK, RecordFirst
  <2>3. CASE RecordGap(percent, elapsed)
    BY <1>0, <2>1, <2>3 DEF TypeOK, RecordGap, Slots
  <2>4. CASE RecordInterval(percent, elapsed)
    <3>1. PICK before \in previous :
            segments' = [segments EXCEPT ![head] =
              [delta |-> SaturatingSub(percent, before), elapsed |-> elapsed]]
      BY <2>4 DEF RecordInterval
    <3>2. before \in Nat /\ percent \in Nat /\ elapsed \in Nat
      BY <1>0 DEF TypeOK
    <3>3. [delta |-> SaturatingSub(percent, before), elapsed |-> elapsed] \in Segment
      BY <3>2 DEF Segment, SaturatingSub
    <3>4. segments' \in [Slots -> Segment]
      BY <3>1, <3>3 DEF TypeOK
    <3>5. head' \in Slots
      BY <2>4, WalkShifts DEF TypeOK, RecordInterval
    <3>6. len' \in 0..Segments
      BY <2>4, <1>0 DEF TypeOK, RecordInterval, NextLen, Lesser
    <3> QED BY <2>1, <3>4, <3>5, <3>6 DEF TypeOK
  <2> QED BY <1>2, <2>2, <2>3, <2>4 DEF Record
<1> QED BY <1>1, <1>2 DEF Next

(* TypeOK: head is always a slot of the ring and len never exceeds it, so   *)
(* that no walk of pace.rs reads outside the array or a segment twice.      *)
THEOREM SpecTypeOK == Spec => []TypeOK
BY InitTypeOK, NextTypeOK, PTL DEF Spec

-----------------------------------------------------------------------------
(* What recording an interval does to the intervals the ring stands for.    *)
LEMMA IntervalsGrow ==
  ASSUME TypeOK, NEW segment \in Segment,
         segments' = [segments EXCEPT ![head] = segment],
         head' = (head + 1) % Segments,
         len' = NextLen
  PROVE  Intervals' = Remembered!Observe(segment)
<1> DEFINE longer == <<segment>> \o Intervals
<1>0. Segments \in Nat \ {0} /\ len \in 0..Segments /\ head \in Slots
  BY PaceRingAssumption DEF TypeOK
<1>1. \A n \in 1..len : n - 1 \in Slots /\ Recent(n - 1) = segments[Slot(head, n - 1)]
  BY <1>0 DEF Recent, Slot, Slots
<1>2. \A n \in 1..len : Recent(n - 1) \in Segment
  <2> TAKE n \in 1..len
  <2>1. Slot(head, n - 1) \in Slots
    BY <1>0, <1>1, SlotIs DEF Slots
  <2> QED BY <1>1, <2>1 DEF TypeOK
<1>3. Intervals \in Seq(Segment) /\ Len(Intervals) = len
  BY <1>0, <1>2 DEF Intervals
<1>4. longer \in Seq(Segment) /\ Len(longer) = len + 1
  BY <1>3, <1>0
<1>5. longer[1] = segment
  BY <1>3
<1>6. \A n \in 2..(len + 1) : longer[n] = Recent(n - 2)
  <2> TAKE n \in 2..(len + 1)
  <2>1. longer[n] = Intervals[n - 1]
    BY <1>3, <1>0
  <2>2. n - 1 \in 1..len
    BY <1>0
  <2>3. Intervals[n - 1] = Recent((n - 1) - 1)
    BY <2>2 DEF Intervals
  <2>4. (n - 1) - 1 = n - 2
    BY <1>0
  <2> QED BY <2>1, <2>3, <2>4
<1>7. len' \in 1..Segments /\ len' <= len + 1 /\ len' = Lesser(Len(longer), Segments)
  BY <1>0, <1>4 DEF NextLen, Lesser
<1>8. Remembered!Observe(segment) = [n \in 1..len' |-> longer[n]]
  <2>1. Remembered!Observe(segment) = SubSeq(longer, 1, len')
    BY <1>7 DEF Remembered!Observe, Remembered!Lesser, Lesser
  <2> QED BY <2>1, <1>4, <1>7, <1>0
<1>9. \A n \in 1..len' : Recent(n - 1)' = longer[n]
  <2> TAKE n \in 1..len'
  <2>0. n \in Nat /\ n - 1 \in 0..(Segments - 1)
    BY <1>7, <1>0
  <2>1. Recent(n - 1)' = segments'[Slot(head', n - 1)]
    BY DEF Recent, Slot
  <2>2. CASE n = 1
    <3>1. Slot(head', n - 1) = head
      BY <2>2, <1>0, WalkShifts
    <3>2. segments'[head] = segment
      BY <1>0 DEF TypeOK
    <3> QED BY <2>1, <2>2, <3>1, <3>2, <1>5
  <2>3. CASE n # 1
    <3>1. n - 1 \in 1..(Segments - 1) /\ n \in 2..(len + 1)
      BY <2>0, <2>3, <1>7, <1>0
    <3>2. /\ Slot(head', n - 1) = Slot(head, (n - 1) - 1)
          /\ Slot(head, (n - 1) - 1) \in Slots
          /\ Slot(head, (n - 1) - 1) # head
      BY <3>1, <1>0, WalkShifts
    <3>3. (n - 1) - 1 = n - 2
      BY <2>0
    <3>4. segments'[Slot(head, n - 2)] = segments[Slot(head, n - 2)]
      BY <3>2, <3>3 DEF TypeOK
    <3>5. Recent(n - 2) = segments[Slot(head, n - 2)]
      BY DEF Recent, Slot
    <3> QED BY <2>1, <3>1, <3>2, <3>3, <3>4, <3>5, <1>6
  <2> QED BY <2>2, <2>3
<1> QED BY <1>8, <1>9 DEF Intervals

(* Every step of the ring is a step of the window, or changes nothing.      *)
LEMMA StepRefines ==
  TypeOK /\ [Next]_vars => [Remembered!Next]_(Remembered!vars)
<1> SUFFICES ASSUME TypeOK, [Next]_vars PROVE [Remembered!Next]_(Remembered!vars)
  OBVIOUS
<1>0. Segments \in Nat \ {0} /\ Percents \subseteq Nat /\ MaxElapsed \in Nat /\ MaxGap \in Nat
  BY PaceRingAssumption
<1>1. CASE UNCHANGED vars
  BY <1>1 DEF vars, Remembered!vars, Intervals, Recent
<1>2. ASSUME NEW percent \in Percents, NEW elapsed \in 0..MaxElapsed,
             Record(percent, elapsed)
      PROVE  Remembered!Record(percent, elapsed)
  <2>1. CASE RecordFirst(percent)
    <3>1. Intervals' = Intervals
      BY <2>1 DEF RecordFirst, Intervals, Recent
    <3> QED BY <2>1, <3>1 DEF RecordFirst, Remembered!Record
  <2>2. CASE RecordGap(percent, elapsed)
    <3>1. Intervals' = <<>>
      BY <2>2 DEF RecordGap, Intervals
    <3>2. ~Remembered!Continuous(elapsed)
      BY <2>2, <1>0 DEF RecordGap, Remembered!Continuous
    <3> QED BY <2>2, <3>1, <3>2 DEF RecordGap, Remembered!Record
  <2>3. CASE RecordInterval(percent, elapsed)
    <3>1. PICK before \in previous :
            segments' = [segments EXCEPT ![head] =
              [delta |-> SaturatingSub(percent, before), elapsed |-> elapsed]]
      BY <2>3 DEF RecordInterval
    <3>2. previous = {before} /\ before \in Nat /\ percent \in Nat /\ elapsed \in Nat
      BY <1>0 DEF TypeOK
    <3> DEFINE segment == [delta |-> SaturatingSub(percent, before), elapsed |-> elapsed]
    <3>3. segment \in Segment
      BY <3>2 DEF Segment, SaturatingSub
    <3>4. Intervals' = Remembered!Observe(segment)
      BY <2>3, <3>1, <3>3, IntervalsGrow DEF RecordInterval
    <3>5. segment = [delta |-> Remembered!Spending(before, percent), elapsed |-> elapsed]
      BY DEF SaturatingSub, Remembered!Spending
    <3>6. Remembered!Continuous(elapsed)
      BY <2>3 DEF RecordInterval, Remembered!Continuous
    <3>7. before = CHOOSE p \in previous : TRUE
      BY <3>2
    <3>8. previous' = {percent} /\ previous # {}
      BY <2>3, <3>2 DEF RecordInterval
    <3> QED BY <3>4, <3>5, <3>6, <3>7, <3>8 DEF Remembered!Record
  <2> QED BY <1>2, <2>1, <2>2, <2>3 DEF Record
<1> QED BY <1>1, <1>2 DEF Next, Remembered!Next

LEMMA InitRefines == Init => Remembered!Init
BY DEF Init, Remembered!Init, Intervals

(* Implements: for every size of the ring, what its readings walk are the   *)
(* newest intervals of one continuous observation, newest first.            *)
THEOREM SpecImplements == Spec => Implements
BY SpecTypeOK, InitRefines, StepRefines, PTL DEF Spec, Implements, Remembered!Spec

-----------------------------------------------------------------------------
(* Every set of naturals that has an element has a least one.               *)
LEMMA Least ==
  ASSUME NEW S \in SUBSET Nat, S # {}
  PROVE  \E n \in S : \A m \in S : n <= m
<1> DEFINE T == {0..n : n \in S}
           R == StrictSubsetOrdering(Nat)
           F == FiniteSubsetsOf(Nat)
<1>1. IsWellFoundedOn(R, F)
  BY FS_StrictSubsetOrderingWellFounded
<1>2. \A n \in Nat : 0..n \in SUBSET Nat /\ 0..n \in F
  <2> TAKE n \in Nat
  <2>1. IsFiniteSet(0..n)
    BY FS_Interval
  <2> QED BY <2>1 DEF FiniteSubsetsOf
<1>3. T # {} /\ T \subseteq F
  BY <1>2
<1>4. PICK x \in T : \A y \in T : ~(<<y, x>> \in R)
  <2> HIDE DEF T, R, F
  <2> QED BY <1>1, <1>3, WFMin
<1>5. PICK n \in S : x = 0..n
  BY <1>4
<1>6. ASSUME NEW m \in S, ~(n <= m) PROVE FALSE
  <2>1. 0..m \subseteq 0..n /\ n \in 0..n /\ n \notin 0..m
    BY <1>6
  <2>2. <<0..m, 0..n>> \in R
    BY <2>1, <1>2 DEF StrictSubsetOrdering
  <2>3. 0..m \in T
    OBVIOUS
  <2> QED BY <1>4, <1>5, <2>2, <2>3
<1> QED BY <1>6

(* What holds of 0 and of n when it does of n - 1 holds of all up to N.     *)
LEMMA Induction ==
  ASSUME NEW N \in Nat, NEW S, 0 \in S, \A n \in 1..N : n - 1 \in S => n \in S
  PROVE  \A n \in 0..N : n \in S
<1> DEFINE missing == (0..N) \ S
<1> SUFFICES ASSUME missing # {} PROVE FALSE
  OBVIOUS
<1>1. PICK n \in missing : \A m \in missing : n <= m
  <2>1. missing \in SUBSET Nat
    OBVIOUS
  <2> HIDE DEF missing
  <2> QED BY <2>1, Least
<1>2. n \in 1..N /\ n - 1 \in 0..N /\ ~(n <= n - 1)
  BY <1>1
<1> QED BY <1>1, <1>2

(* The sums of the first n of N numbers: they exist, and a recursive        *)
(* definition of them is one.                                               *)
Sum(f, N, v) ==
  f \in [0..N -> Nat] /\ f[0] = 0 /\ \A n \in 1..N : f[n] = f[n - 1] + v[n]

LEMMA SumExists ==
  ASSUME NEW N \in Nat, NEW v \in [1..N -> Nat]
  PROVE  \E f : Sum(f, N, v)
<1> DEFINE S == {k \in 0..N : \E f : Sum(f, k, v)}
<1>1. 0 \in S
  <2> DEFINE f == [n \in 0..0 |-> 0]
  <2>1. Sum(f, 0, v)
    BY DEF Sum
  <2> HIDE DEF f
  <2> QED BY <2>1
<1>2. ASSUME NEW k \in 1..N, k - 1 \in S PROVE k \in S
  <2>1. PICK f : Sum(f, k - 1, v)
    BY <1>2
  <2> DEFINE g == [n \in 0..k |-> IF n = k THEN f[k - 1] + v[k] ELSE f[n]]
  <2>2. f \in [0..(k - 1) -> Nat] /\ f[k - 1] \in Nat /\ v[k] \in Nat /\ k \in Nat \ {0}
    BY <2>1 DEF Sum
  <2>3. \A n \in 0..(k - 1) : g[n] = f[n]
    BY <2>2
  <2>4. g \in [0..k -> Nat] /\ g[k] = f[k - 1] + v[k]
    <3>1. \A n \in 0..k : (IF n = k THEN f[k - 1] + v[k] ELSE f[n]) \in Nat
      BY <2>2
    <3> QED BY <2>2, <3>1
  <2> HIDE DEF g
  <2>5. Sum(g, k, v)
    <3>1. g[0] = 0
      BY <2>1, <2>2, <2>3 DEF Sum
    <3>2. ASSUME NEW n \in 1..k PROVE g[n] = g[n - 1] + v[n]
      <4>1. g[n - 1] = f[n - 1]
        BY <2>2, <2>3
      <4>2. CASE n = k
        BY <4>1, <4>2, <2>4
      <4>3. CASE n # k
        <5>1. n \in 1..(k - 1)
          BY <4>3, <2>2
        <5>2. g[n] = f[n] /\ f[n] = f[n - 1] + v[n]
          BY <5>1, <2>1, <2>3 DEF Sum
        <5> QED BY <4>1, <5>2
      <4> QED BY <4>2, <4>3
    <3> QED BY <2>4, <3>1, <3>2 DEF Sum
  <2> QED BY <2>5
<1>3. N \in S
  <2> HIDE DEF S
  <2>1. \A n \in 0..N : n \in S
    BY <1>1, <1>2, Induction
  <2> QED BY <2>1
<1> QED BY <1>3

LEMMA SumIs ==
  ASSUME NEW N \in Nat, NEW v \in [1..N -> Nat],
         NEW f, f = [n \in 0..N |-> IF n = 0 THEN 0 ELSE f[n - 1] + v[n]]
  PROVE  Sum(f, N, v)
<1> DEFINE S == {n \in 0..N : f[n] \in Nat}
<1>1. f[0] = 0
  OBVIOUS
<1>2. \A n \in 1..N : f[n] = f[n - 1] + v[n]
  OBVIOUS
<1>3. 0 \in S
  BY <1>1
<1>4. ASSUME NEW n \in 1..N, n - 1 \in S PROVE n \in S
  <2>1. f[n] = f[n - 1] + v[n] /\ v[n] \in Nat /\ n \in 0..N
    BY <1>2
  <2> QED BY <2>1, <1>4
<1>5. \A n \in 0..N : n \in S
  <2> HIDE DEF S
  <2> QED BY <1>3, <1>4, Induction
<1>6. f \in [0..N -> Nat]
  <2>1. \A n \in 0..N : f[n] \in Nat
    BY <1>5
  <2>2. f = [n \in 0..N |-> f[n]]
    OBVIOUS
  <2> QED BY <2>1, <2>2
<1> QED BY <1>1, <1>2, <1>6 DEF Sum

LEMMA SumGrows ==
  ASSUME NEW N \in Nat, NEW v \in [1..N -> Nat], NEW f, Sum(f, N, v),
         NEW n \in 0..N, NEW m \in 0..n
  PROVE  f[m] <= f[n]
<1> DEFINE S == {k \in 0..N : m <= k => f[m] <= f[k]}
<1>0. f \in [0..N -> Nat] /\ m \in 0..N /\ m \in Nat /\ n \in Nat /\ m <= n
  BY DEF Sum
<1>1. 0 \in S
  BY <1>0
<1>2. ASSUME NEW k \in 1..N, k - 1 \in S PROVE k \in S
  <2>1. f[k] = f[k - 1] + v[k] /\ v[k] \in Nat /\ f[k - 1] \in Nat /\ f[m] \in Nat /\ k \in 0..N
    BY <1>0 DEF Sum
  <2>2. CASE m = k
    BY <2>1, <2>2
  <2>3. CASE m # k
    BY <2>1, <2>3, <1>2, <1>0
  <2> QED BY <2>2, <2>3
<1>3. n \in S
  <2> HIDE DEF S
  <2>1. \A k \in 0..N : k \in S
    BY <1>1, <1>2, Induction
  <2> QED BY <2>1
<1> QED BY <1>0, <1>3

-----------------------------------------------------------------------------
(* The intervals that the ring stands for have a duration, so that nothing  *)
(* is divided by zero.                                                      *)
Timed == \A n \in 1..len : Recent(n - 1).elapsed \in 1..MaxGap

LEMMA Constants ==
  /\ Segments \in Nat \ {0} /\ Window \in Nat \ {0} /\ MinCoverage \in Nat \ {0}
  /\ MaxGap \in Nat \ {0} /\ Scale \in Nat \ {0} /\ Hour \in Nat \ {0}
  /\ MaxRate \in Nat /\ MaxElapsed \in Nat /\ MinCoverage <= Window
BY PaceRingAssumption

LEMMA RecentTyped ==
  ASSUME TypeOK, NEW n \in 1..len
  PROVE  Recent(n - 1) \in Segment
<1>0. len \in 0..Segments /\ head \in Slots /\ n - 1 \in Slots
  BY Constants DEF TypeOK, Slots
<1>1. Slot(head, n - 1) \in Slots
  <2>1. Slot(head, n - 1) =
          IF n - 1 < head THEN head - 1 - (n - 1) ELSE head + Segments - 1 - (n - 1)
    BY <1>0, SlotIs
  <2> QED BY <2>1, <1>0, Constants DEF Slots
<1> QED BY <1>0, <1>1 DEF TypeOK, Recent, Slot

LEMMA IntervalsAre ==
  ASSUME TypeOK
  PROVE  /\ len \in Nat /\ Intervals \in Seq(Segment) /\ Len(Intervals) = len
         /\ \A n \in 1..len : Intervals[n] = Recent(n - 1)
         /\ \A n \in 1..len : Intervals[n].elapsed \in Nat /\ Intervals[n].delta \in Nat
<1>0. len \in Nat
  BY Constants DEF TypeOK
<1>1. \A n \in 1..len : Recent(n - 1) \in Segment
  BY RecentTyped
<1> QED BY <1>0, <1>1 DEF Intervals, Segment

(* What the recursive readings are.  First, the window's seconds.           *)
Elapsed == [n \in 1..len |-> Intervals[n].elapsed]

LEMMA TotalIs ==
  ASSUME TypeOK
  PROVE  Sum(Remembered!Total, len, Elapsed)
<1> DEFINE total == Remembered!Total
<1>1. len \in Nat /\ Elapsed \in [1..len -> Nat] /\ Len(Intervals) = len
  BY IntervalsAre DEF Elapsed
<1>2. PICK f : Sum(f, len, Elapsed)
  BY <1>1, SumExists
<1>3. f = [n \in 0..Len(Intervals) |->
             IF n = 0 THEN 0 ELSE f[n - 1] + Intervals[n].elapsed]
  <2>1. f = [n \in 0..len |-> f[n]]
    BY <1>2 DEF Sum
  <2>2. \A n \in 0..len : f[n] = IF n = 0 THEN 0 ELSE f[n - 1] + Intervals[n].elapsed
    BY <1>1, <1>2 DEF Sum, Elapsed
  <2> QED BY <1>1, <2>1, <2>2
<1>4. total = [n \in 0..Len(Intervals) |->
                 IF n = 0 THEN 0 ELSE total[n - 1] + Intervals[n].elapsed]
  BY <1>3 DEF Remembered!Total
<1> HIDE DEF total
<1>5. total = [n \in 0..len |-> IF n = 0 THEN 0 ELSE total[n - 1] + Elapsed[n]]
  BY <1>1, <1>4 DEF Elapsed
<1>6. Sum(total, len, Elapsed)
  BY <1>1, <1>5, SumIs
<1> QED BY <1>6 DEF total

(* The window is as much of them as fits into it.                           *)
LEMMA CoveredWalk ==
  ASSUME TypeOK
  PROVE  /\ \A n \in 0..len : CoveredBy[n] = Lesser(Remembered!Total[n], Window)
         /\ CoveredBy[0] = 0
         /\ \A n \in 1..len :
              CoveredBy[n] = CoveredBy[n - 1] + Included(n - 1, CoveredBy[n - 1])
<1> DEFINE total == Remembered!Total
           f == [n \in 0..len |-> Lesser(total[n], Window)]
<1>1. len \in Nat /\ Window \in Nat
  BY IntervalsAre, Constants
<1>2. /\ \A n \in 0..len : total[n] \in Nat
      /\ total[0] = 0
      /\ \A n \in 1..len : total[n] = total[n - 1] + Recent(n - 1).elapsed
      /\ \A n \in 1..len : Recent(n - 1).elapsed \in Nat
  BY TotalIs, IntervalsAre DEF Sum, Elapsed
<1> HIDE DEF total
<1>3. ASSUME NEW n \in 1..len
      PROVE  Lesser(total[n], Window) =
               Lesser(total[n - 1], Window) + Included(n - 1, Lesser(total[n - 1], Window))
  <2>1. n - 1 \in 0..len /\ n \in 0..len
    BY <1>1
  <2>2. total[n] \in Nat /\ total[n - 1] \in Nat /\ Recent(n - 1).elapsed \in Nat
    BY <1>2, <2>1
  <2>3. total[n] = total[n - 1] + Recent(n - 1).elapsed
    BY <1>2
  <2> QED BY <2>2, <2>3, <1>1 DEF Included, Lesser
<1>4. f = [n \in 0..len |-> IF n = 0 THEN 0 ELSE f[n - 1] + Included(n - 1, f[n - 1])]
  <2>1. f[0] = 0
    BY <1>1, <1>2 DEF Lesser
  <2>2. ASSUME NEW n \in 1..len PROVE f[n] = f[n - 1] + Included(n - 1, f[n - 1])
    <3>1. n - 1 \in 0..len /\ n \in 0..len
      BY <1>1
    <3>2. f[n - 1] = Lesser(total[n - 1], Window) /\ f[n] = Lesser(total[n], Window)
      BY <3>1
    <3> QED BY <3>2, <1>3
  <2>3. f = [n \in 0..len |-> f[n]]
    OBVIOUS
  <2> HIDE DEF f
  <2>4. \A n \in 0..len : f[n] = IF n = 0 THEN 0 ELSE f[n - 1] + Included(n - 1, f[n - 1])
    BY <1>1, <2>1, <2>2
  <2> QED BY <2>3, <2>4
<1> DEFINE covered == CoveredBy
<1>5. covered = [n \in 0..len |->
                   IF n = 0 THEN 0 ELSE covered[n - 1] + Included(n - 1, covered[n - 1])]
  <2> HIDE DEF f
  <2> QED BY <1>4 DEF CoveredBy
<1> HIDE DEF covered
<1>6. covered[0] = 0 /\ \A n \in 1..len : covered[n] = covered[n - 1] + Included(n - 1, covered[n - 1])
  BY <1>1, <1>5
<1> DEFINE S == {n \in 0..len : covered[n] = Lesser(total[n], Window)}
<1>7. 0 \in S
  BY <1>1, <1>2, <1>6 DEF Lesser
<1>8. ASSUME NEW n \in 1..len, n - 1 \in S PROVE n \in S
  <2>1. n \in 0..len
    BY <1>1
  <2>2. covered[n - 1] = Lesser(total[n - 1], Window)
    BY <1>8
  <2> QED BY <2>1, <2>2, <1>3, <1>6
<1>9. \A n \in 0..len : n \in S
  <2> HIDE DEF S
  <2> QED BY <1>1, <1>7, <1>8, Induction
<1> QED BY <1>6, <1>9 DEF covered, total

LEMMA CoveredIs ==
  ASSUME TypeOK
  PROVE  \A n \in 0..len : CoveredBy[n] = Lesser(Remembered!Total[n], Window)
BY CoveredWalk

LEMMA CoveredAdds ==
  ASSUME TypeOK
  PROVE  /\ \A n \in 0..len : CoveredBy[n] \in Nat /\ CoveredBy[n] <= Window
         /\ CoveredBy[0] = 0
         /\ \A n \in 1..len :
              CoveredBy[n] = CoveredBy[n - 1] + Included(n - 1, CoveredBy[n - 1])
<1> DEFINE total == Remembered!Total
           covered == CoveredBy
<1>1. /\ \A n \in 0..len : covered[n] = Lesser(total[n], Window)
      /\ covered[0] = 0
      /\ \A n \in 1..len : covered[n] = covered[n - 1] + Included(n - 1, covered[n - 1])
  BY CoveredWalk
<1>2. \A n \in 0..len : total[n] \in Nat
  BY TotalIs DEF Sum
<1> HIDE DEF total, covered
<1>3. \A n \in 0..len : covered[n] \in Nat /\ covered[n] <= Window
  BY <1>1, <1>2, Constants DEF Lesser
<1> QED BY <1>1, <1>3 DEF covered

-----------------------------------------------------------------------------
(* Arithmetic of the rate.                                                  *)
LEMMA Division ==
  ASSUME NEW a \in Nat, NEW b \in Nat \ {0}
  PROVE  a \div b \in Nat /\ b * (a \div b) <= a /\ a < b * (a \div b) + b
OBVIOUS
LEMMA DivisionIs ==
  ASSUME NEW a \in Nat, NEW b \in Nat \ {0}, NEW q \in Nat, b * q <= a, a < b * q + b
  PROVE  a \div b = q
<1>1. a \div b \in Nat /\ b * (a \div b) <= a /\ a < b * (a \div b) + b
  BY Division
<1> DEFINE p == a \div b
<1> HIDE DEF p
<1>2. p \in Nat /\ b * p <= a /\ a < b * p + b
  BY <1>1 DEF p
<1>3. CASE p < q
  <2>1. b * (p + 1) <= b * q
    BY <1>2, <1>3
  <2> QED BY <2>1, <1>2
<1>4. CASE q < p
  <2>1. b * (q + 1) <= b * p
    BY <1>2, <1>4
  <2> QED BY <2>1, <1>2
<1> QED BY <1>2, <1>3, <1>4 DEF p
LEMMA Exact ==
  ASSUME NEW a \in Nat, NEW b \in Nat \ {0}
  PROVE  (a * b) \div b = a
<1>1. a * b \in Nat /\ b * a <= a * b /\ a * b < b * a + b
  OBVIOUS
<1> QED BY <1>1, DivisionIs

LEMMA Times ==
  ASSUME NEW a \in Int, NEW b \in Int, NEW c \in Nat, a <= b
  PROVE  c * a \in Int /\ c * b \in Int /\ c * a <= c * b
OBVIOUS

LEMMA Between ==
  ASSUME NEW a \in Nat, NEW b \in Nat, NEW c \in Nat, a <= b, b <= c, c <= a + 1
  PROVE  b = a \/ b = c
OBVIOUS

ScaledShare(whole, d, w, e, scale) == whole * scale + (d * w * scale) \div e
RoundedRate(z, C, hour, scale) == ((z * hour) \div C + scale \div 2) \div scale
Nearest(exact, unit) == {exact \div unit, (exact + unit - 1) \div unit}
RateIsNear(whole, d, w, e, C, hour, scale) ==
  RoundedRate(ScaledShare(whole, d, w, e, scale), C, hour, scale)
    \in Nearest(hour * (whole * e + d * w), e * C)

LEMMA RateArithmetic ==
  ASSUME NEW whole \in Nat, NEW d \in Nat, NEW w \in Nat, NEW e \in Nat \ {0},
         NEW C \in Nat \ {0}, NEW hour \in Nat \ {0}, NEW scale \in Nat \ {0},
         hour <= C * (scale \div 2)
  PROVE  RateIsNear(whole, d, w, e, C, hour, scale)
<1> SUFFICES ASSUME NEW Z, Z = whole * scale + (d * w * scale) \div e,
                    NEW R, R = ((Z * hour) \div C + scale \div 2) \div scale,
                    NEW exact, exact = hour * (whole * e + d * w),
                    NEW unit, unit = e * C
             PROVE  R \in {exact \div unit, (exact + unit - 1) \div unit}
  BY Zenon DEF RateIsNear, Nearest, RoundedRate, ScaledShare
<1> DEFINE x == whole * e + d * w
           p == (d * w * scale) \div e
           r == (Z * hour) \div C
           h == scale \div 2
           F == exact \div unit
           G == (exact + unit - 1) \div unit
<1>1. /\ d * w * scale \in Nat /\ p \in Nat /\ Z \in Nat /\ x \in Nat
      /\ e * p <= d * w * scale /\ d * w * scale < e * p + e
  <2>1. d * w * scale \in Nat
    OBVIOUS
  <2>2. p \in Nat /\ e * p <= d * w * scale /\ d * w * scale < e * p + e
    BY <2>1, Division
  <2>3. whole * scale \in Nat /\ x \in Nat
    OBVIOUS
  <2> QED BY <2>1, <2>2, <2>3
<1>2. /\ Z * hour \in Nat /\ r \in Nat
      /\ C * r <= Z * hour /\ Z * hour < C * r + C
  <2>1. Z * hour \in Nat
    BY <1>1
  <2> QED BY <2>1, Division
<1>3. h \in Nat /\ 2 * h <= scale
  OBVIOUS
<1>4. /\ R \in Nat /\ scale * R <= r + h /\ r + h < scale * R + scale
  <2>1. r + h \in Nat
    BY <1>2, <1>3
  <2> HIDE DEF r, h
  <2>2. (r + h) \div scale \in Nat /\ scale * ((r + h) \div scale) <= r + h
        /\ r + h < scale * ((r + h) \div scale) + scale
    BY <2>1, Division
  <2> QED BY <2>2 DEF r, h
<1>5. exact \in Nat /\ unit \in Nat \ {0} /\ exact = hour * x
  BY <1>1
<1>6. F \in Nat /\ unit * F <= exact /\ exact < unit * F + unit
  BY <1>5, Division
<1>7. G \in Nat /\ unit * G <= exact + unit - 1 /\ exact <= unit * G
  <2>1. exact + unit - 1 \in Nat
    BY <1>5
  <2>2. G \in Nat /\ unit * G <= exact + unit - 1 /\ exact + unit - 1 < unit * G + unit
    BY <2>1, <1>5, Division
  <2> HIDE DEF G
  <2>3. unit * G \in Nat
    BY <2>2, <1>5
  <2> QED BY <2>2, <2>3, <1>5
<1> HIDE DEF p, r, h, F, G
<1>8. e * Z <= scale * x /\ scale * x < e * Z + e
  <2>1. Z = whole * scale + p
    BY DEF p
  <2>2. e * Z = e * (whole * scale) + e * p
    BY <2>1, <1>1
  <2>3. scale * x = e * (whole * scale) + d * w * scale
    OBVIOUS
  <2> HIDE DEF x
  <2>4. e * p \in Nat /\ e * (whole * scale) \in Nat
    BY <1>1
  <2> QED BY <2>2, <2>3, <2>4, <1>1
<1> HIDE DEF x
<1>9. F <= R
  <2> SUFFICES ASSUME R < F PROVE FALSE
    BY <1>4, <1>6
  <2>1. r + h + 1 <= scale * F
    <3>1. scale * (R + 1) <= scale * F
      BY <1>4, <1>6, Times
    <3>2. scale * (R + 1) = scale * R + scale
      BY <1>4
    <3>3. scale * R \in Nat /\ scale * F \in Nat
      BY <1>4, <1>6
    <3> QED BY <3>1, <3>2, <3>3, <1>2, <1>3, <1>4
  <2>2. unit * (r + 1 + h) <= unit * (scale * F)
    BY <2>1, <1>2, <1>3, <1>5, <1>6, Times
  <2>3. unit * (scale * F) <= scale * exact
    <3>1. scale * (unit * F) <= scale * exact
      BY <1>5, <1>6, Times
    <3>2. scale * (unit * F) = unit * (scale * F)
      BY <1>5, <1>6
    <3> QED BY <3>1, <3>2
  <2>4. e * (Z * hour) + e <= unit * (r + 1)
    <3>1. Z * hour + 1 <= C * (r + 1)
      <4>1. C * (r + 1) = C * r + C
        BY <1>2
      <4> QED BY <4>1, <1>2
    <3>2. e * (Z * hour + 1) <= e * (C * (r + 1))
      BY <3>1, <1>2, Times
    <3>3. e * (Z * hour + 1) = e * (Z * hour) + e /\ e * (C * (r + 1)) = unit * (r + 1)
      BY <1>2
    <3> QED BY <3>2, <3>3
  <2>5. scale * exact + 1 <= e * (Z * hour) + unit * h
    <3>1. hour * (scale * x + 1) <= hour * (e * Z + e)
      BY <1>1, <1>8, Times
    <3>2. hour * (scale * x + 1) = scale * exact + hour
      BY <1>1, <1>5
    <3>3. hour * (e * Z + e) = e * (Z * hour) + e * hour
      BY <1>1
    <3>4. e * hour <= unit * h
      <4>1. e * hour <= e * (C * h)
        BY <1>3, Times DEF h
      <4>2. e * (C * h) = unit * h
        BY <1>3
      <4> QED BY <4>1, <4>2
    <3>5. scale * exact \in Nat /\ e * (Z * hour) \in Nat /\ e * hour \in Nat /\ unit * h \in Nat
      BY <1>1, <1>2, <1>3, <1>5
    <3> QED BY <3>1, <3>2, <3>3, <3>4, <3>5
  <2>6. unit * (r + 1 + h) = unit * (r + 1) + unit * h
    BY <1>2, <1>3, <1>5
  <2>7. /\ unit * (r + 1) \in Nat /\ unit * h \in Nat /\ scale * exact \in Nat
        /\ e * (Z * hour) \in Nat /\ unit * (scale * F) \in Nat
    BY <1>1, <1>2, <1>3, <1>5, <1>6
  <2> HIDE DEF F
  <2> QED BY <2>2, <2>3, <2>4, <2>5, <2>6, <2>7
<1>10. R <= G
  <2> SUFFICES ASSUME G < R PROVE FALSE
    BY <1>4, <1>7
  <2>1. scale * G + 1 <= r
    <3>1. scale * (G + 1) <= scale * R
      BY <1>4, <1>7, Times
    <3>2. scale * (G + 1) = scale * G + scale
      BY <1>7
    <3>3. scale * R \in Nat /\ scale * G \in Nat
      BY <1>4, <1>7
    <3> QED BY <3>1, <3>2, <3>3, <1>2, <1>3, <1>4
  <2>2. unit * (scale * G) + unit <= unit * r
    <3>1. unit * (scale * G + 1) <= unit * r
      BY <2>1, <1>2, <1>5, <1>7, Times
    <3>2. unit * (scale * G + 1) = unit * (scale * G) + unit
      BY <1>5, <1>7
    <3> QED BY <3>1, <3>2
  <2>3. unit * r <= e * (Z * hour)
    <3>1. e * (C * r) <= e * (Z * hour)
      BY <1>2, Times
    <3>2. e * (C * r) = unit * r
      BY <1>2
    <3> QED BY <3>1, <3>2
  <2>4. e * (Z * hour) <= scale * exact
    <3>1. hour * (e * Z) <= hour * (scale * x)
      BY <1>1, <1>8, Times
    <3>2. hour * (e * Z) = e * (Z * hour) /\ hour * (scale * x) = scale * exact
      BY <1>1, <1>5
    <3> QED BY <3>1, <3>2
  <2>5. scale * exact <= unit * (scale * G)
    <3>1. scale * exact <= scale * (unit * G)
      BY <1>5, <1>7, Times
    <3>2. scale * (unit * G) = unit * (scale * G)
      BY <1>5, <1>7
    <3> QED BY <3>1, <3>2
  <2>6. /\ unit * (scale * G) \in Nat /\ unit * r \in Nat
        /\ e * (Z * hour) \in Nat /\ scale * exact \in Nat
    BY <1>1, <1>2, <1>5, <1>7
  <2> QED BY <2>2, <2>3, <2>4, <2>5, <2>6, <1>5
<1>11. G <= F + 1
  <2> SUFFICES ASSUME F + 2 <= G PROVE FALSE
    BY <1>6, <1>7
  <2>1. unit * (F + 2) <= unit * G
    BY <1>5, <1>6, <1>7, Times
  <2>2. unit * (F + 2) = unit * F + unit + unit
    BY <1>5, <1>6
  <2>3. unit * F \in Nat /\ unit * G \in Nat
    BY <1>5, <1>6, <1>7
  <2> QED BY <2>1, <2>2, <2>3, <1>5, <1>6, <1>7
<1>12. F \in Nat /\ G \in Nat /\ R \in Nat
  BY <1>4, <1>6, <1>7
<1>13. R = F \/ R = G
  BY ONLY <1>9, <1>10, <1>11, <1>12
<1> QED BY <1>4, <1>13 DEF F, G

-----------------------------------------------------------------------------
(* The spending of the intervals that lie within the window as a whole.     *)
Wholly == [n \in 1..len |-> IF n \in Remembered!Whole THEN Intervals[n].delta ELSE 0]

LEMMA SpentIs ==
  ASSUME TypeOK
  PROVE  Wholly \in [1..len -> Nat] /\ Sum(Remembered!Spent, len, Wholly)
<1> DEFINE spent == Remembered!Spent
<1>1. len \in Nat /\ Wholly \in [1..len -> Nat] /\ Len(Intervals) = len
  BY IntervalsAre DEF Wholly
<1>2. PICK f : Sum(f, len, Wholly)
  BY <1>1, SumExists
<1>3. f = [n \in 0..Len(Intervals) |->
             IF n = 0 THEN 0
             ELSE f[n - 1] + (IF n \in Remembered!Whole THEN Intervals[n].delta ELSE 0)]
  <2>1. f = [n \in 0..len |-> f[n]]
    BY <1>2 DEF Sum
  <2>2. \A n \in 0..len :
          f[n] = IF n = 0 THEN 0
                 ELSE f[n - 1] + (IF n \in Remembered!Whole THEN Intervals[n].delta ELSE 0)
    BY <1>1, <1>2 DEF Sum, Wholly
  <2> QED BY <1>1, <2>1, <2>2
<1>4. spent = [n \in 0..Len(Intervals) |->
                 IF n = 0 THEN 0
                 ELSE spent[n - 1] + (IF n \in Remembered!Whole THEN Intervals[n].delta ELSE 0)]
  BY <1>3 DEF Remembered!Spent
<1> HIDE DEF spent
<1>5. spent = [n \in 0..len |-> IF n = 0 THEN 0 ELSE spent[n - 1] + Wholly[n]]
  BY <1>1, <1>4 DEF Wholly
<1>6. Sum(spent, len, Wholly)
  BY <1>1, <1>5, SumIs
<1> QED BY <1>1, <1>6 DEF spent

(* What the walk adds for each segment.                                     *)
Shares == [n \in 1..len |-> Share(n - 1, Included(n - 1, CoveredBy[n - 1]))]

LEMMA ShareIs ==
  ASSUME TypeOK, Timed, NEW n \in 1..len,
         NEW t, t = Remembered!Total
  PROVE  /\ Shares[n] \in Nat
         /\ t[n] <= Window => Shares[n] = Intervals[n].delta * Scale
         /\ t[n - 1] >= Window => Shares[n] = 0
         /\ t[n - 1] < Window /\ Window < t[n] =>
              Shares[n] = (Intervals[n].delta * (Window - t[n - 1]) * Scale)
                            \div Intervals[n].elapsed
<1> DEFINE d == Intervals[n].delta
           e == Intervals[n].elapsed
           c == Included(n - 1, CoveredBy[n - 1])
<1>1. /\ len \in Nat /\ n - 1 \in 0..len /\ n \in 0..len
      /\ Window \in Nat /\ Scale \in Nat
  BY IntervalsAre, Constants
<1>2. d \in Nat /\ e \in Nat \ {0} /\ Recent(n - 1) = Intervals[n]
  BY IntervalsAre, Constants DEF Timed
<1>3. t[n - 1] \in Nat /\ t[n] \in Nat /\ t[n] = t[n - 1] + e
  BY TotalIs, <1>1 DEF Sum, Elapsed
<1>4. c = Lesser(e, Window - Lesser(t[n - 1], Window))
  BY <1>1, <1>2, CoveredIs DEF Included
<1>5. Shares[n] = (d * c * Scale) \div e
  BY <1>2 DEF Shares, Share
<1> HIDE DEF d, e, c
<1>6. CASE t[n] <= Window
  <2>1. c = e /\ t[n - 1] < Window
    BY <1>1, <1>2, <1>3, <1>4, <1>6 DEF Lesser
  <2>2. d * c * Scale = (d * Scale) * e /\ d * Scale \in Nat
    BY <2>1, <1>1, <1>2
  <2>3. Shares[n] = d * Scale
    BY <2>2, <1>2, <1>5, Exact
  <2> QED BY <2>1, <2>2, <2>3, <1>1, <1>3, <1>6 DEF d
<1>7. CASE t[n - 1] >= Window
  <2>1. c = 0 /\ ~(t[n] <= Window)
    BY <1>1, <1>2, <1>3, <1>4, <1>7 DEF Lesser
  <2>2. d * c * Scale = 0 * e
    BY <2>1, <1>1, <1>2
  <2>3. Shares[n] = 0
    BY <2>2, <1>2, <1>5, Exact
  <2> QED BY <2>1, <2>3, <1>1, <1>3, <1>7
<1>8. CASE t[n - 1] < Window /\ Window < t[n]
  <2>1. c = Window - t[n - 1] /\ c \in Nat
    BY <1>1, <1>2, <1>3, <1>4, <1>8 DEF Lesser
  <2>2. d * c * Scale \in Nat
    BY <2>1, <1>1, <1>2
  <2>3. Shares[n] \in Nat
    BY <2>2, <1>2, <1>5, Division
  <2> QED BY <2>1, <2>3, <1>1, <1>3, <1>5, <1>8 DEF d, e
<1> QED BY <1>1, <1>3, <1>6, <1>7, <1>8

LEMMA ScaledIs ==
  ASSUME TypeOK, Timed
  PROVE  Sum(ScaledSpentBy, len, Shares)
<1>1. len \in Nat /\ Shares \in [1..len -> Nat]
  <2>1. \A n \in 1..len : Shares[n] \in Nat
    BY ShareIs
  <2>2. Shares = [n \in 1..len |-> Shares[n]]
    BY DEF Shares
  <2> QED BY <2>1, <2>2, IntervalsAre
<1>2. PICK f : Sum(f, len, Shares)
  BY <1>1, SumExists
<1>3. f = [n \in 0..len |->
             IF n = 0 THEN 0
             ELSE f[n - 1] + Share(n - 1, Included(n - 1, CoveredBy[n - 1]))]
  <2>1. f = [n \in 0..len |-> f[n]]
    BY <1>2 DEF Sum
  <2>2. \A n \in 0..len :
          f[n] = IF n = 0 THEN 0
                 ELSE f[n - 1] + Share(n - 1, Included(n - 1, CoveredBy[n - 1]))
    BY <1>1, <1>2 DEF Sum, Shares
  <2> QED BY <2>1, <2>2
<1> DEFINE scaled == ScaledSpentBy
<1>4. scaled = [n \in 0..len |->
                  IF n = 0 THEN 0
                  ELSE scaled[n - 1] + Share(n - 1, Included(n - 1, CoveredBy[n - 1]))]
  BY <1>3 DEF ScaledSpentBy
<1> HIDE DEF scaled
<1>5. scaled = [n \in 0..len |-> IF n = 0 THEN 0 ELSE scaled[n - 1] + Shares[n]]
  BY <1>1, <1>4 DEF Shares
<1>6. Sum(scaled, len, Shares)
  BY <1>1, <1>5, SumIs
<1> QED BY <1>6 DEF scaled

(* At most one interval is cut by the window.                               *)
LEMMA OnePartial ==
  ASSUME TypeOK, NEW n \in Remembered!Partial, NEW m \in Remembered!Partial
  PROVE  n = m
<1> DEFINE t == Remembered!Total
<1>1. /\ len \in Nat /\ Len(Intervals) = len /\ Window \in Nat
      /\ Elapsed \in [1..len -> Nat] /\ Sum(t, len, Elapsed)
  BY IntervalsAre, TotalIs, Constants DEF Elapsed
<1>2. /\ n \in 1..len /\ t[n - 1] < Window /\ Window < t[n]
      /\ m \in 1..len /\ t[m - 1] < Window /\ Window < t[m]
  BY <1>1 DEF Remembered!Partial
<1> HIDE DEF t
<1>3. \A k \in 0..len : t[k] \in Nat
  BY <1>1 DEF Sum
<1>4. CASE n < m
  <2>1. n \in 0..(m - 1) /\ m - 1 \in 0..len
    BY <1>1, <1>2, <1>4
  <2>2. t[n] <= t[m - 1]
    BY <2>1, <1>1, SumGrows
  <2> QED BY <2>1, <2>2, <1>1, <1>2, <1>3
<1>5. CASE m < n
  <2>1. m \in 0..(n - 1) /\ n - 1 \in 0..len
    BY <1>1, <1>2, <1>5
  <2>2. t[m] <= t[n - 1]
    BY <2>1, <1>1, SumGrows
  <2> QED BY <2>1, <2>2, <1>1, <1>2, <1>3
<1> QED BY <1>1, <1>2, <1>4, <1>5

(* The interval that the window cuts, if there is one, and what of it is    *)
(* within.                                                                  *)
Cut == CHOOSE n \in Remembered!Partial : TRUE
Part == IF Remembered!Partial = {} THEN [delta |-> 0, elapsed |-> 1] ELSE Intervals[Cut]
Within == IF Remembered!Partial = {} THEN 0 ELSE Window - Remembered!Total[Cut - 1]
Remnant == (Part.delta * Within * Scale) \div Part.elapsed

LEMMA PartTyped ==
  ASSUME TypeOK, Timed
  PROVE  /\ Part.delta \in Nat /\ Part.elapsed \in Nat \ {0} /\ Within \in Nat
         /\ Remnant \in Nat
<1>1. /\ len \in Nat /\ Len(Intervals) = len /\ Window \in Nat /\ Scale \in Nat
      /\ Sum(Remembered!Total, len, Elapsed)
  BY IntervalsAre, TotalIs, Constants
<1>2. Part.delta \in Nat /\ Part.elapsed \in Nat \ {0} /\ Within \in Nat
  <2>1. CASE Remembered!Partial = {}
    BY <2>1 DEF Part, Within
  <2>2. CASE Remembered!Partial # {}
    <3>1. Cut \in Remembered!Partial
      BY <2>2 DEF Cut
    <3>2. Cut \in 1..len /\ Remembered!Total[Cut - 1] < Window
      BY <1>1, <3>1 DEF Remembered!Partial
    <3>3. Cut - 1 \in 0..len
      BY <1>1, <3>2
    <3>4. Remembered!Total[Cut - 1] \in Nat
      BY <1>1, <3>3 DEF Sum
    <3>5. Intervals[Cut].delta \in Nat /\ Intervals[Cut].elapsed \in Nat \ {0}
      BY <3>2, IntervalsAre, Constants DEF Timed
    <3> QED BY <1>1, <2>2, <3>2, <3>4, <3>5 DEF Part, Within
  <2> QED BY <2>1, <2>2
<1>3. Part.delta * Within * Scale \in Nat
  BY <1>1, <1>2
<1> QED BY <1>2, <1>3, Division DEF Remnant

(* The walk's sum is that of the whole intervals and the cut one.           *)
LEMMA ScaledSpending ==
  ASSUME TypeOK, Timed
  PROVE  /\ Remembered!Spent[len] \in Nat
         /\ ScaledSpentBy[len] = Remembered!Spent[len] * Scale + Remnant
<1> DEFINE t == Remembered!Total
           s == Remembered!Spent
           z == ScaledSpentBy
           Partial == Remembered!Partial
           Whole == Remembered!Whole
           Past(n) == IF \E m \in Partial : m <= n THEN Remnant ELSE 0
           S == {n \in 0..len : z[n] = s[n] * Scale + Past(n)}
<1>1. /\ len \in Nat /\ Len(Intervals) = len /\ Window \in Nat /\ Scale \in Nat
      /\ Sum(t, len, Elapsed) /\ Sum(z, len, Shares) /\ Sum(s, len, Wholly)
      /\ Remnant \in Nat
  BY IntervalsAre, TotalIs, ScaledIs, SpentIs, PartTyped, Constants
<1>2. /\ \A n \in 1..len : n \in Partial <=> t[n - 1] < Window /\ Window < t[n]
      /\ \A n \in 1..len : n \in Whole <=> t[n] <= Window
      /\ \A n \in Partial : n \in 1..len
  BY <1>1 DEF Remembered!Partial, Remembered!Whole
<1>3. \A n \in 0..len : t[n] \in Nat /\ s[n] \in Nat /\ z[n] \in Nat
  BY <1>1 DEF Sum
<1>4. s[0] = 0 /\ z[0] = 0
  BY <1>1 DEF Sum
<1>5. ASSUME NEW n \in 1..len
      PROVE  /\ z[n] = z[n - 1] + Shares[n]
             /\ s[n] = s[n - 1] + (IF n \in Whole THEN Intervals[n].delta ELSE 0)
             /\ Intervals[n].delta \in Nat
             /\ n \in 0..len /\ n - 1 \in 0..len
  BY <1>1, IntervalsAre DEF Sum, Wholly
<1>6. ASSUME NEW n \in 1..len
      PROVE  /\ Shares[n] \in Nat
             /\ t[n] <= Window => Shares[n] = Intervals[n].delta * Scale
             /\ t[n - 1] >= Window => Shares[n] = 0
             /\ n \in Partial => Shares[n] = Remnant
  <2>1. ASSUME n \in Partial PROVE Shares[n] = Remnant
    <3>1. n = Cut
      <4>1. Cut \in Partial
        BY <2>1 DEF Cut
      <4> QED BY <2>1, <4>1, OnePartial
    <3>2. Part = Intervals[n] /\ Within = Window - t[n - 1]
      BY <2>1, <3>1 DEF Part, Within
    <3>3. t[n - 1] < Window /\ Window < t[n]
      BY <1>2, <2>1
    <3>4. Shares[n] = (Intervals[n].delta * (Window - t[n - 1]) * Scale)
                        \div Intervals[n].elapsed
      BY <3>3, ShareIs
    <3> QED BY <3>2, <3>4 DEF Remnant
  <2> QED BY <2>1, ShareIs
<1>7. \A n \in Partial, m \in Partial : n = m
  BY OnePartial
<1> HIDE DEF t, s, z, Partial, Whole
<1>8. 0 \in S
  <2>1. ~\E m \in Partial : m <= 0
    BY <1>1, <1>2
  <2> QED BY <1>1, <1>4, <2>1
<1>9. ASSUME NEW n \in 1..len, n - 1 \in S PROVE n \in S
  <2>1. z[n - 1] = s[n - 1] * Scale + Past(n - 1)
    BY <1>9
  <2>2. n \notin Partial => Past(n) = Past(n - 1)
    <3>1. ASSUME n \notin Partial, NEW m \in Partial PROVE m <= n <=> m <= n - 1
      <4>1. m \in 1..len /\ m # n
        BY <1>2, <3>1
      <4> QED BY <1>1, <4>1
    <3> QED BY <3>1
  <2>3. /\ z[n] = z[n - 1] + Shares[n] /\ Intervals[n].delta \in Nat
        /\ s[n] = s[n - 1] + (IF n \in Whole THEN Intervals[n].delta ELSE 0)
        /\ n \in 0..len /\ n - 1 \in 0..len
    BY <1>5
  <2>4. /\ t[n] \in Nat /\ t[n - 1] \in Nat /\ s[n - 1] \in Nat
        /\ Past(n - 1) \in Nat
    BY <1>1, <1>3, <2>3
  <2> DEFINE d == Intervals[n].delta
             past == Past(n - 1)
  <2>5. CASE t[n] <= Window
    <3>1. Shares[n] = d * Scale /\ s[n] = s[n - 1] + d /\ n \notin Partial
      BY <1>1, <1>2, <1>6, <2>3, <2>4, <2>5
    <3>2. Past(n) = past
      BY <3>1, <2>2
    <3> HIDE DEF d, past
    <3>3. z[n] = (s[n - 1] * Scale + past) + d * Scale
      BY <2>1, <2>3, <3>1 DEF past
    <3>4. (s[n - 1] + d) * Scale = s[n - 1] * Scale + d * Scale
      BY <1>1, <2>3, <2>4 DEF d
    <3>5. s[n - 1] * Scale \in Nat /\ d * Scale \in Nat /\ past \in Nat
      BY <1>1, <2>3, <2>4 DEF d, past
    <3>6. z[n] = s[n] * Scale + past
      BY <3>1, <3>3, <3>4, <3>5
    <3> QED BY <2>3, <3>2, <3>6
  <2>6. CASE t[n] > Window /\ t[n - 1] >= Window
    <3>1. Shares[n] = 0 /\ n \notin Whole /\ n \notin Partial
      BY <1>1, <1>2, <1>6, <2>4, <2>6
    <3>2. s[n] = s[n - 1] /\ z[n] = z[n - 1] /\ Past(n) = past
      BY <1>3, <2>2, <2>3, <2>4, <3>1
    <3> QED BY <2>1, <2>3, <3>2
  <2>7. CASE t[n] > Window /\ t[n - 1] < Window
    <3>1. n \in Partial /\ n \notin Whole
      BY <1>1, <1>2, <2>4, <2>7
    <3>2. Shares[n] = Remnant
      BY <1>6, <3>1
    <3>3. Past(n) = Remnant /\ Past(n - 1) = 0
      <4>1. ASSUME NEW m \in Partial PROVE ~(m <= n - 1)
        BY <1>1, <1>7, <3>1
      <4> QED BY <1>1, <3>1, <4>1
    <3>4. s[n] = s[n - 1]
      BY <2>3, <2>4, <3>1
    <3>5. s[n] * Scale \in Nat
      BY <1>1, <2>4, <3>4
    <3> HIDE DEF Past
    <3> QED BY <1>1, <2>1, <2>3, <3>2, <3>3, <3>4, <3>5
  <2> QED BY <1>1, <2>4, <2>5, <2>6, <2>7
<1>10. len \in S
  <2> HIDE DEF S
  <2>1. \A n \in 0..len : n \in S
    BY <1>1, <1>8, <1>9, Induction
  <2> QED BY <1>1, <2>1
<1>11. Past(len) = Remnant
  <2>1. CASE Partial = {}
    <3>1. Remnant = 0
      <4>1. Within = 0 /\ Part = [delta |-> 0, elapsed |-> 1]
        BY <2>1 DEF Within, Part, Partial
      <4>2. Part.delta * Within * Scale = 0 * 1
        BY <4>1, <1>1
      <4> QED BY <4>1, <4>2, Exact DEF Remnant
    <3> QED BY <2>1, <3>1
  <2>2. CASE Partial # {}
    BY <1>1, <1>2, <2>2
  <2> QED BY <2>1, <2>2
<1> QED BY <1>1, <1>3, <1>10, <1>11 DEF s, z

-----------------------------------------------------------------------------
(* Every interval that the ring stands for has a duration, so that no share *)
(* of one divides by zero.                                                  *)
LEMMA InitTimed == Init => Timed
BY DEF Init, Timed

LEMMA NextTimed == TypeOK /\ Timed /\ [Next]_vars => Timed'
<1> SUFFICES ASSUME TypeOK, Timed, [Next]_vars PROVE Timed'
  OBVIOUS
<1>0. Segments \in Nat \ {0} /\ Percents \subseteq Nat /\ MaxElapsed \in Nat /\ MaxGap \in Nat
  BY PaceRingAssumption
<1>1. CASE UNCHANGED vars
  BY <1>1 DEF Timed, vars, Recent
<1>2. ASSUME NEW percent \in Percents, NEW elapsed \in 0..MaxElapsed,
             Record(percent, elapsed)
      PROVE  Timed'
  <2>1. CASE RecordFirst(percent)
    BY <2>1 DEF RecordFirst, Timed, Recent
  <2>2. CASE RecordGap(percent, elapsed)
    BY <2>2 DEF RecordGap, Timed
  <2>3. CASE RecordInterval(percent, elapsed)
    <3>1. PICK before \in previous :
            segments' = [segments EXCEPT ![head] =
              [delta |-> SaturatingSub(percent, before), elapsed |-> elapsed]]
      BY <2>3 DEF RecordInterval
    <3>2. before \in Nat /\ percent \in Nat /\ elapsed \in Nat
      <4>1. before \in Percents
        BY DEF TypeOK
      <4> QED BY <1>0, <4>1
    <3> DEFINE segment == [delta |-> SaturatingSub(percent, before), elapsed |-> elapsed]
               longer == <<segment>> \o Intervals
    <3>3. segment \in Segment /\ segment.elapsed \in 1..MaxGap
      BY <2>3, <3>2 DEF Segment, SaturatingSub, RecordInterval
    <3>4. Intervals' = Remembered!Observe(segment)
      BY <2>3, <3>1, <3>3, IntervalsGrow DEF RecordInterval
    <3>5. len' \in Nat /\ len' <= len + 1 /\ len' = Lesser(len + 1, Segments)
      BY <1>0, <2>3 DEF RecordInterval, NextLen, Lesser, TypeOK
    <3> HIDE DEF segment
    <3>6. len \in Nat /\ Intervals \in Seq(Segment) /\ Len(Intervals) = len
      BY IntervalsAre
    <3>7. longer \in Seq(Segment) /\ Len(longer) = len + 1
      BY <3>3, <3>6
    <3>8. \A n \in 1..(len + 1) : longer[n].elapsed \in 1..MaxGap
      <4>1. longer[1] = segment
        BY <3>6
      <4>2. ASSUME NEW n \in 2..(len + 1) PROVE longer[n].elapsed \in 1..MaxGap
        <5>1. longer[n] = Intervals[n - 1] /\ n - 1 \in 1..len
          BY <3>6
        <5>2. Intervals[n - 1] = Recent((n - 1) - 1)
          BY <5>1, IntervalsAre
        <5>3. Recent((n - 1) - 1).elapsed \in 1..MaxGap
          BY <5>1 DEF Timed
        <5> QED BY <5>1, <5>2, <5>3
      <4> QED BY <3>3, <3>6, <4>1, <4>2
    <3>9. Intervals' = SubSeq(longer, 1, len')
      BY <3>4, <3>5, <3>7 DEF Remembered!Observe, Remembered!Lesser, Lesser
    <3> HIDE DEF longer
    <3>10. \A n \in 1..len' : Intervals'[n] = longer[n]
      BY <3>5, <3>6, <3>7, <3>9
    <3>11. ASSUME NEW n \in 1..len' PROVE Recent(n - 1)'.elapsed \in 1..MaxGap
      <4>1. Intervals'[n] = Recent(n - 1)'
        BY <3>5 DEF Intervals
      <4> QED BY <3>5, <3>6, <3>8, <3>10, <4>1
    <3> QED BY <3>11 DEF Timed
  <2> QED BY <1>2, <2>1, <2>2, <2>3 DEF Record
<1> QED BY <1>1, <1>2 DEF Next

IInv == TypeOK /\ Timed

LEMMA SpecIInv == Spec => []IInv
<1>1. Init => IInv
  BY InitTypeOK, InitTimed DEF IInv
<1>2. IInv /\ [Next]_vars => IInv'
  BY NextTypeOK, NextTimed DEF IInv
<1> QED BY <1>1, <1>2, PTL DEF Spec

LEMMA CoveredIsCoverage ==
  ASSUME TypeOK
  PROVE  /\ Covered = Remembered!Coverage /\ Covered \in Nat
         /\ Len(Intervals) = len /\ len \in Nat
<1>1. len \in 0..len /\ Len(Intervals) = len /\ len \in Nat
  BY IntervalsAre
<1>2. Covered = Lesser(Remembered!Total[len], Window)
  BY <1>1, CoveredIs DEF Covered
<1>3. Remembered!Total[len] \in Nat
  BY <1>1, TotalIs DEF Sum
<1> QED BY <1>1, <1>2, <1>3, Constants
        DEF Remembered!Coverage, Remembered!Lesser, Lesser

(* The walk of covered_seconds, which stops for good once it has covered    *)
(* the window, and that of rate_per_hour agree at every segment.            *)
LEMMA WalksAgree ==
  ASSUME TypeOK
  PROVE  \A n \in 0..len : CoveredSecondsBy[n] = CoveredBy[n]
<1> DEFINE covered == CoveredBy
           seconds == CoveredSecondsBy
           Step(n, c) == IF Stops(n - 1, c) THEN c
                         ELSE c + Lesser(Recent(n - 1).elapsed, Window - c)
<1>1. len \in Nat /\ Window \in Nat
  BY IntervalsAre, Constants
<1>2. /\ covered[0] = 0 /\ \A n \in 0..len : covered[n] \in Nat /\ covered[n] <= Window
      /\ \A n \in 1..len : covered[n] = covered[n - 1] + Included(n - 1, covered[n - 1])
  BY CoveredAdds
<1>3. \A n \in 1..len : Recent(n - 1).elapsed \in Nat
  BY IntervalsAre
<1> HIDE DEF covered
<1>4. ASSUME NEW n \in 1..len PROVE covered[n] = Step(n, covered[n - 1])
  <2>1. n - 1 \in 0..len /\ covered[n - 1] \in Nat /\ covered[n - 1] <= Window
    BY <1>1, <1>2
  <2>2. CASE covered[n - 1] = Window
    <3>1. Included(n - 1, covered[n - 1]) = 0
      BY <1>1, <1>3, <2>2 DEF Included, Lesser
    <3> QED BY <1>2, <2>1, <2>2, <3>1 DEF Stops
  <2>3. CASE covered[n - 1] # Window
    BY <1>2, <2>3 DEF Stops, Included
  <2> QED BY <2>2, <2>3
<1> DEFINE f == [n \in 0..len |-> covered[n]]
<1>5. f = [n \in 0..len |-> IF n = 0 THEN 0 ELSE Step(n, f[n - 1])]
  <2>1. f[0] = 0
    BY <1>1, <1>2
  <2>2. ASSUME NEW n \in 1..len PROVE f[n] = Step(n, f[n - 1])
    <3>1. n - 1 \in 0..len /\ n \in 0..len
      BY <1>1
    <3>2. f[n - 1] = covered[n - 1] /\ f[n] = covered[n]
      BY <3>1
    <3> QED BY <3>2, <1>4
  <2>3. f = [n \in 0..len |-> f[n]]
    OBVIOUS
  <2> HIDE DEF f, Step
  <2>4. \A n \in 0..len : f[n] = IF n = 0 THEN 0 ELSE Step(n, f[n - 1])
    BY <1>1, <2>1, <2>2
  <2> QED BY <2>3, <2>4
<1>6. seconds = [n \in 0..len |-> IF n = 0 THEN 0 ELSE Step(n, seconds[n - 1])]
  <2> HIDE DEF f
  <2> QED BY <1>5 DEF CoveredSecondsBy
<1> HIDE DEF seconds
<1>7. seconds[0] = 0 /\ \A n \in 1..len : seconds[n] = Step(n, seconds[n - 1])
  <2> HIDE DEF Step
  <2> QED BY <1>1, <1>6
<1> DEFINE S == {n \in 0..len : seconds[n] = covered[n]}
<1>8. 0 \in S
  BY <1>1, <1>2, <1>7
<1>9. ASSUME NEW n \in 1..len, n - 1 \in S PROVE n \in S
  <2>1. n \in 0..len /\ seconds[n - 1] = covered[n - 1]
    BY <1>1, <1>9
  <2> HIDE DEF Step
  <2> QED BY <2>1, <1>4, <1>7
<1>10. \A n \in 0..len : n \in S
  <2> HIDE DEF S
  <2> QED BY <1>1, <1>8, <1>9, Induction
<1> QED BY <1>10 DEF covered, seconds

(* No rate is withheld once the countdown to it has ended, and none is      *)
(* shown before, for the two walks that decide this agree; and until then   *)
(* the countdown is what the observation lacks.                             *)
LEMMA IInvReady == IInv => ReadyMeansRate
<1> SUFFICES ASSUME TypeOK PROVE ReadyMeansRate
  BY DEF IInv
<1>1. Covered \in Nat /\ Covered = Remembered!Coverage /\ len \in 0..len
  BY CoveredIsCoverage
<1>2. CoveredSeconds = Covered
  BY <1>1, WalksAgree DEF CoveredSeconds, Covered
<1> QED BY <1>1, <1>2, Constants
        DEF ReadyMeansRate, ReadinessRemaining, RatePerHour, SaturatingSub

THEOREM SpecReadyMeansRate == Spec => []ReadyMeansRate
BY SpecIInv, IInvReady, PTL

(* The streak ends at the newest increase.                                  *)
LEMMA IInvStreak == IInv => StreakIsTrue
<1> SUFFICES ASSUME TypeOK PROVE StreakIsTrue
  BY DEF IInv
<1> DEFINE Ends(n) == /\ \A m \in 0..(n - 1) : Recent(m).delta = 0
                      /\ n = len \/ Recent(n).delta > 0
           streak == CHOOSE n \in 0..len : Ends(n)
           last == CHOOSE n \in Remembered!Increases :
                     \A m \in Remembered!Increases : n <= m
<1>1. /\ len \in Nat /\ Len(Intervals) = len /\ Covered = Remembered!Coverage
      /\ \A n \in 1..len : Intervals[n] = Recent(n - 1)
      /\ \A n \in 1..len : Intervals[n].delta \in Nat
  BY IntervalsAre, CoveredIsCoverage
<1>2. \A n : n \in Remembered!Increases <=> n \in 1..len /\ Recent(n - 1).delta > 0
  BY <1>1 DEF Remembered!Increases
<1>3. \A n \in 0..(len - 1) : Recent(n).delta \in Nat
  <2> TAKE n \in 0..(len - 1)
  <2>1. n + 1 \in 1..len /\ (n + 1) - 1 = n
    BY <1>1
  <2> QED BY <1>1, <2>1
<1>4. UnchangedSeconds = CoveredBy[streak]
  BY DEF UnchangedSeconds
<1> HIDE DEF Ends
<1>5. CASE Remembered!Increases = {}
  <2>1. \A m \in 0..(len - 1) : Recent(m).delta = 0
    <3> TAKE m \in 0..(len - 1)
    <3>1. m + 1 \in 1..len /\ (m + 1) - 1 = m
      BY <1>1
    <3> QED BY <1>2, <1>3, <1>5, <3>1
  <2>2. len \in 0..len /\ Ends(len)
    BY <1>1, <2>1 DEF Ends
  <2>3. ASSUME NEW n \in 0..len, Ends(n) PROVE n = len
    BY <1>1, <2>1, <2>3 DEF Ends
  <2>4. streak = len
    BY <2>2, <2>3
  <2>5. Remembered!UnchangedFor = Remembered!Coverage
    BY <1>5 DEF Remembered!UnchangedFor
  <2> HIDE DEF streak
  <2> QED BY <1>1, <1>4, <2>4, <2>5 DEF StreakIsTrue, Covered
<1>6. CASE Remembered!Increases # {}
  <2>1. Remembered!Increases \in SUBSET Nat
    BY <1>1, <1>2
  <2>2. last \in Remembered!Increases /\ \A m \in Remembered!Increases : last <= m
    <3>1. \E n \in Remembered!Increases : \A m \in Remembered!Increases : n <= m
      BY <1>6, <2>1, Least
    <3> QED BY <3>1
  <2> HIDE DEF last
  <2>3. last \in 1..len /\ last - 1 \in 0..len /\ Recent(last - 1).delta > 0
    BY <1>1, <1>2, <2>2
  <2>4. \A m \in 0..((last - 1) - 1) : Recent(m).delta = 0
    <3> TAKE m \in 0..((last - 1) - 1)
    <3>1. m + 1 \in 1..len /\ (m + 1) - 1 = m /\ ~(last <= m + 1) /\ m \in 0..(len - 1)
      BY <1>1, <2>3
    <3> QED BY <1>2, <1>3, <2>2, <3>1
  <2>5. Ends(last - 1)
    BY <2>3, <2>4 DEF Ends
  <2>6. ASSUME NEW n \in 0..len, Ends(n) PROVE n = last - 1
    <3>1. ~(n < last - 1)
      <4> SUFFICES ASSUME n < last - 1 PROVE FALSE
        OBVIOUS
      <4>1. n \in 0..((last - 1) - 1) /\ n # len
        BY <1>1, <2>3
      <4> QED BY <2>4, <2>6, <4>1 DEF Ends
    <3>2. ~(last - 1 < n)
      <4> SUFFICES ASSUME last - 1 < n PROVE FALSE
        OBVIOUS
      <4>1. last - 1 \in 0..(n - 1)
        BY <1>1, <2>3
      <4> QED BY <2>3, <2>6, <4>1 DEF Ends
    <3> QED BY <1>1, <2>3, <3>1, <3>2
  <2>7. streak = last - 1
    BY <2>3, <2>5, <2>6
  <2>8. CoveredBy[last - 1] = Lesser(Remembered!Total[last - 1], Window)
    BY <2>3, CoveredIs
  <2>9. Remembered!UnchangedFor = Remembered!Lesser(Remembered!Total[last - 1], Window)
    BY <1>6 DEF Remembered!UnchangedFor, last
  <2> HIDE DEF streak
  <2>10. UnchangedSeconds = Lesser(Remembered!Total[last - 1], Window)
    BY <1>4, <2>7, <2>8
  <2> QED BY <2>9, <2>10 DEF StreakIsTrue, Remembered!Lesser, Lesser
<1> QED BY <1>5, <1>6

THEOREM SpecStreakIsTrue == Spec => []StreakIsTrue
BY SpecIInv, IInvStreak, PTL

(* The rate that is shown is the window's pace: rounding twice and clipping *)
(* the oldest segment do not move it by a whole percent.                    *)
LEMMA IInvRate == IInv => RateIsPace
<1> SUFFICES ASSUME TypeOK, Timed, NEW rate \in RatePerHour, rate # MaxRate
             PROVE  rate \in Remembered!Paces(Hour)
  BY DEF IInv, RateIsPace
<1> DEFINE whole == Remembered!Spent[len]
           d == Part.delta
           e == Part.elapsed
           z == ScaledSpentBy[len]
           rounded == ((z * Hour) \div Covered + Scale \div 2) \div Scale
           exact == Hour * (whole * e + d * Within)
           unit == e * Covered
<1>1. /\ whole \in Nat /\ d \in Nat /\ e \in Nat \ {0} /\ Within \in Nat
      /\ z = whole * Scale + (d * Within * Scale) \div e
  BY ScaledSpending, PartTyped DEF Remnant
<1>2. Covered \in Nat \ {0} /\ Hour <= Covered * (Scale \div 2)
  <2>1. Covered \in Nat /\ MinCoverage <= Covered
    BY CoveredIsCoverage, Constants DEF RatePerHour
  <2>2. Scale \div 2 \in Nat /\ Hour <= MinCoverage * (Scale \div 2)
    BY Constants, PaceRingAssumption
  <2> DEFINE half == Scale \div 2
  <2> HIDE DEF half
  <2>3. half * MinCoverage <= half * Covered
    BY <2>1, <2>2, Constants, Times DEF half
  <2>4. /\ half * MinCoverage = MinCoverage * half /\ half * Covered = Covered * half
        /\ half * MinCoverage \in Nat /\ half * Covered \in Nat
    BY <2>1, <2>2, Constants DEF half
  <2> QED BY <2>1, <2>2, <2>3, <2>4, Constants DEF half
<1>3. rate = rounded
  BY DEF RatePerHour, Rate, Lesser
<1>4. Remembered!Paces(Hour) = {exact \div unit, (exact + unit - 1) \div unit}
  BY CoveredIsCoverage DEF Remembered!Paces, Part, Within, Cut
<1> HIDE DEF whole, d, e, z
<1>5. Hour \in Nat \ {0} /\ Scale \in Nat \ {0}
  BY Constants
<1>6. RateIsNear(whole, d, Within, e, Covered, Hour, Scale)
  BY <1>1, <1>2, <1>5, RateArithmetic
<1>7. rounded \in {exact \div unit, (exact + unit - 1) \div unit}
  BY <1>1, <1>6 DEF RateIsNear, Nearest, RoundedRate, ScaledShare
<1> QED BY <1>3, <1>4, <1>7

(* The rate is the pace of what is remembered, to less than one percent per *)
(* hour, for every size of ring and window.                                 *)
THEOREM SpecRateIsPace == Spec => []RateIsPace
BY SpecIInv, IInvRate, PTL

-----------------------------------------------------------------------------
(* The width of the walks' integers.  Nothing in them saturates: a window   *)
(* that is passed over would make the subtraction of u32 wrap, and the sum  *)
(* is multiplied once more after the walk.                                  *)
DeltasUpTo(most) == \A i \in Slots : segments[i].delta <= most

WalkFits(most) ==
  /\ \A n \in 0..len : /\ CoveredBy[n] \in 0..Window /\ CoveredSecondsBy[n] \in 0..Window
                       /\ ScaledSpentBy[n] * Hour <= Segments * (most * Scale) * Hour
  /\ \A n \in 1..len : LET included == Included(n - 1, CoveredBy[n - 1])
                       IN  Recent(n - 1).delta * included * Scale <= (most * MaxGap) * Scale

LEMMA QuotientUpTo ==
  ASSUME NEW a \in Nat, NEW b \in Nat \ {0}, NEW q \in Nat, a <= q * b
  PROVE  a \div b <= q
<1> DEFINE p == a \div b
<1>1. p \in Nat /\ b * p <= a
  BY Division
<1> HIDE DEF p
<1>2. CASE q < p
  <2>1. b * (q + 1) <= b * p
    BY <1>1, <1>2
  <2> QED BY <1>1, <2>1
<1> QED BY <1>1, <1>2 DEF p

LEMMA ProductUpTo ==
  ASSUME NEW a \in Nat, NEW b \in Nat, NEW c \in Nat, NEW d \in Nat, a <= c, b <= d
  PROVE  a * b \in Nat /\ c * d \in Nat /\ a * b <= c * d
<1>1. a * b <= a * d /\ a * d = d * a
  OBVIOUS
<1>2. d * a <= d * c /\ d * c = c * d
  OBVIOUS
<1> QED BY <1>1, <1>2

LEMMA NextDeltas ==
  ASSUME TypeOK, [Next]_vars, NEW most \in Nat, Percents \subseteq 0..most, DeltasUpTo(most)
  PROVE  DeltasUpTo(most)'
<1>1. CASE segments' = segments
  BY <1>1 DEF DeltasUpTo
<1>2. ASSUME NEW percent \in Percents, NEW elapsed, RecordInterval(percent, elapsed)
      PROVE  DeltasUpTo(most)'
  <2>1. PICK before \in previous :
          segments' = [segments EXCEPT ![head] =
            [delta |-> SaturatingSub(percent, before), elapsed |-> elapsed]]
    BY <1>2 DEF RecordInterval
  <2>2. before \in 0..most /\ percent \in 0..most
    BY DEF TypeOK
  <2>3. SaturatingSub(percent, before) <= most
    BY <2>2 DEF SaturatingSub
  <2> QED BY <2>1, <2>3 DEF DeltasUpTo, TypeOK
<1> QED
  BY <1>1, <1>2 DEF Next, Record, RecordFirst, RecordGap, vars

(* What a share of the window adds is no more than its segment's spending.  *)
LEMMA ShareUpTo ==
  ASSUME IInv, NEW most \in Nat, DeltasUpTo(most), NEW n \in 1..len
  PROVE  /\ Shares[n] \in Nat /\ Shares[n] <= most * Scale
         /\ Recent(n - 1).delta * Included(n - 1, CoveredBy[n - 1]) * Scale
              <= (most * MaxGap) * Scale
<1> DEFINE d == Recent(n - 1).delta
           e == Recent(n - 1).elapsed
           c == Included(n - 1, CoveredBy[n - 1])
<1>1. d \in Nat /\ d <= most
  <2>1. Recent(n - 1) \in Segment
    BY RecentTyped DEF IInv
  <2>2. len \in 0..Segments /\ head \in Slots
    BY Constants DEF IInv, TypeOK, Slots
  <2>3. Slot(head, n - 1) \in Slots
    <3>1. n - 1 \in Slots
      BY <2>2, Constants DEF Slots
    <3>2. Slot(head, n - 1) =
            IF n - 1 < head THEN head - 1 - (n - 1) ELSE head + Segments - 1 - (n - 1)
      BY <2>2, <3>1, SlotIs
    <3> QED BY <2>2, <3>1, <3>2, Constants DEF Slots
  <2>4. Recent(n - 1) = segments[Slot(head, n - 1)]
    BY DEF Recent, Slot
  <2> QED BY <2>1, <2>3, <2>4 DEF DeltasUpTo, Segment
<1>2. e \in Nat \ {0} /\ e <= MaxGap /\ MaxGap \in Nat /\ Scale \in Nat
  BY Constants DEF IInv, Timed
<1>3. c \in Nat /\ c <= e
  <2>1. n - 1 \in 0..len /\ len \in Nat
    BY IntervalsAre DEF IInv
  <2>2. CoveredBy[n - 1] = Lesser(Remembered!Total[n - 1], Window)
    BY <2>1, CoveredIs DEF IInv
  <2>3. Remembered!Total[n - 1] \in Nat
    BY <2>1, TotalIs DEF IInv, Sum
  <2> QED BY <1>2, <2>2, <2>3, Constants DEF Included, Lesser
<1>4. Shares[n] = (d * c * Scale) \div e
  BY DEF Shares, Share
<1> HIDE DEF d, e, c
<1>5. d * c \in Nat /\ d * c <= most * MaxGap /\ most * MaxGap \in Nat
  BY <1>1, <1>2, <1>3, ProductUpTo
<1>6. d * c * Scale \in Nat /\ d * c * Scale <= (most * MaxGap) * Scale
  BY <1>2, <1>5, ProductUpTo
<1>7. d * c * Scale <= (most * Scale) * e /\ most * Scale \in Nat
  <2>1. d * c <= most * e /\ most * e \in Nat
    BY <1>1, <1>2, <1>3, ProductUpTo
  <2>2. d * c * Scale <= (most * e) * Scale
    BY <1>2, <1>5, <2>1, ProductUpTo
  <2>3. (most * e) * Scale = (most * Scale) * e /\ most * Scale \in Nat
    BY <1>2
  <2> QED BY <2>2, <2>3
<1>8. (d * c * Scale) \div e \in Nat /\ (d * c * Scale) \div e <= most * Scale
  BY <1>2, <1>6, <1>7, Division, QuotientUpTo
<1> QED BY <1>4, <1>6, <1>8 DEF d, c

LEMMA SumUpTo ==
  ASSUME NEW N \in Nat, NEW v \in [1..N -> Nat], NEW f, Sum(f, N, v),
         NEW b \in Nat, \A n \in 1..N : v[n] <= b, NEW n \in 0..N
  PROVE  f[n] \in Nat /\ f[n] <= n * b
<1> DEFINE S == {k \in 0..N : f[k] <= k * b}
<1>0. f \in [0..N -> Nat] /\ f[0] = 0
  BY DEF Sum
<1>1. 0 \in S
  BY <1>0
<1>2. ASSUME NEW k \in 1..N, k - 1 \in S PROVE k \in S
  <2>1. f[k] = f[k - 1] + v[k] /\ f[k - 1] \in Nat /\ v[k] \in Nat /\ v[k] <= b
        /\ f[k - 1] <= (k - 1) * b /\ k \in 0..N /\ k \in Nat
    BY <1>0, <1>2 DEF Sum
  <2>2. (k - 1) * b + b = k * b
    BY <2>1
  <2>3. (k - 1) * b \in Nat
    BY <2>1
  <2> QED BY <2>1, <2>2, <2>3
<1>3. n \in S
  <2> HIDE DEF S
  <2> QED BY <1>1, <1>2, Induction
<1> QED BY <1>0, <1>3

LEMMA IInvWalkFits ==
  ASSUME IInv, NEW most \in Nat, DeltasUpTo(most)
  PROVE  WalkFits(most)
<1>1. len \in Nat /\ len <= Segments /\ Segments \in Nat /\ most * Scale \in Nat /\ Hour \in Nat
  BY Constants DEF IInv, TypeOK
<1>2. Sum(ScaledSpentBy, len, Shares) /\ Shares \in [1..len -> Nat]
  <2>1. \A n \in 1..len : Shares[n] \in Nat
    BY ShareUpTo
  <2>2. Shares = [n \in 1..len |-> Shares[n]]
    BY DEF Shares
  <2> QED BY <2>1, <2>2, ScaledIs DEF IInv
<1>3. ASSUME NEW n \in 0..len
      PROVE  ScaledSpentBy[n] * Hour <= Segments * (most * Scale) * Hour
  <2>1. ScaledSpentBy[n] \in Nat /\ ScaledSpentBy[n] <= n * (most * Scale)
    BY <1>1, <1>2, ShareUpTo, SumUpTo
  <2>2. n * (most * Scale) \in Nat /\ n * (most * Scale) <= Segments * (most * Scale)
    <3>1. n \in Nat /\ n <= Segments
      BY <1>1
    <3> QED BY <1>1, <3>1, ProductUpTo
  <2>3. ScaledSpentBy[n] <= Segments * (most * Scale) /\ Segments * (most * Scale) \in Nat
    BY <1>1, <2>1, <2>2
  <2> QED BY <1>1, <2>1, <2>3, ProductUpTo
<1>4. ASSUME NEW n \in 0..len
      PROVE  CoveredBy[n] \in 0..Window /\ CoveredSecondsBy[n] \in 0..Window
  <2>1. CoveredBy[n] = Lesser(Remembered!Total[n], Window)
    BY CoveredIs DEF IInv
  <2>2. Remembered!Total[n] \in Nat
    BY TotalIs DEF IInv, Sum
  <2>3. CoveredBy[n] \in 0..Window
    BY <2>1, <2>2, Constants DEF Lesser
  <2>4. CoveredSecondsBy[n] = CoveredBy[n]
    BY WalksAgree DEF IInv
  <2> QED BY <2>3, <2>4
<1> QED BY <1>3, <1>4, ShareUpTo DEF WalkFits

(* No reading overflows: no walk passes the window's edge, and what one     *)
(* adds up and multiplies stays below a bound that the constants give,      *)
(* 64 * 255 * SCALE * 3600 < 2^64 with those of the code.                   *)
THEOREM SpecWalkFits ==
  ASSUME NEW most \in Nat, Percents \subseteq 0..most
  PROVE  Spec => []WalkFits(most)
<1>1. Init => DeltasUpTo(most)
  BY DEF Init, DeltasUpTo, EmptySegment
<1>2. TypeOK /\ DeltasUpTo(most) /\ [Next]_vars => DeltasUpTo(most)'
  BY NextDeltas
<1>3. IInv /\ DeltasUpTo(most) => WalkFits(most)
  BY IInvWalkFits
<1> QED BY <1>1, <1>2, <1>3, SpecIInv, SpecTypeOK, PTL DEF Spec
=============================================================================
