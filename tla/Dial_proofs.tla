---------------------------- MODULE Dial_proofs ----------------------------
(***************************************************************************)
(* What the dial says is right for every timeout, ring size, window and    *)
(* percentage.  What it shows was right when it was last considered; the   *)
(* invariant says how much of that is left: the time until the maintenance *)
(* ticker fires bounds how old the reading under a summary can be, and the *)
(* reset is counted from what the clock said, which a passing unit of time *)
(* moves by as much as the reset itself.                                   *)
(***************************************************************************)
EXTENDS Dial, TLAPS

(* A snapshot of this session is as old as its arrival.                     *)
PromptAge == \A s \in latest : s.old \/ s.age = recvAge

(* A verdict is withdrawn before its reading is old.                        *)
Vague == {"OFFLINE", "WAITING", "STALE"}
Recent == summary \notin Vague =>
  connected /\ latest # {} /\ recvAge + maintIn < FreshFor + MaintEvery

(* A pace is only told of an account below its limit; and one that has told *)
(* so cannot have been at it for longer than that.                          *)
BelowLimit == summary \notin Vague \cup {"LIMIT REACHED"} => ~AtLimit(usage)
Truth ==
  told /\ ~AtLimit(usage) /\ recvAge < MaxAge /\ latest # {} /\ (\A s \in latest : ~s.old) =>
    limitFor <= recvAge + 1

(* The countdown and the alarm, by the time that the clock told then.       *)
Ahead == summary = "TOO FAST" => \E left \in toReset, lag \in clock : left + lag >= 1
Counted == \A m \in countdown :
  /\ m \in Nat \ {0}
  /\ \E left \in toReset, lag \in clock :
       left + lag <= m * Minute /\ (m - 1) * Minute < left + lag
Over == countdown = {} => \A left \in toReset, lag \in clock : left + lag <= 0

(* There are no intervals before there is a reading.                        *)
Baseline == previous = {} => intervals = <<>>

Shown == Recent /\ BelowLimit /\ Ahead /\ Counted /\ Over
IInv == TypeOK /\ PromptAge /\ Shown /\ Truth /\ Baseline /\ NeverBridges

-----------------------------------------------------------------------------
LEMMA Constants ==
  /\ Full \in Nat \ {0} /\ Reported \subseteq Nat /\ Resets \subseteq Nat \ {0}
  /\ Capacity \in Nat \ {0} /\ MaxGap \in Nat \ {0} /\ Minute \in Nat \ {0}
  /\ RtcEvery \in Nat \ {0} /\ FreshFor \in Nat \ {0} /\ MaintEvery \in Nat \ {0}
  /\ MaxAge \in Nat \ {0} /\ MaxAge > FreshFor + MaintEvery
BY DialAssumption, UsageSourcesAssumption

(* What the sources make of any answer is within its range.                 *)
LEMMA PercentInRange ==
  ASSUME NEW option \in Maybe(Reported)
  PROVE  Percent(option) \in 0..Full
<1>1. OrZero(option) \in Nat
  BY Constants DEF OrZero, Maybe
<1> QED BY <1>1, Constants DEF Percent, Clamp

LEMMA CodeReads ==
  ASSUME NEW a \in CodeAnswer, NEW r \in ClaudeCode(a)
  PROVE  r \in Reading
<1>1. Unknown \in Reading
  BY Constants DEF Unknown, Reading, Never, Statuses
<1>2. /\ Percent(a.session) \in 0..Full /\ OrZero(a.reset) \in Resets \cup {Never}
      /\ CodeStatus(a.status) \in Statuses
  <2>1. a.session \in Maybe(Reported) /\ a.reset \in Maybe(Resets)
    BY DEF CodeAnswer
  <2>2. OrZero(a.reset) \in Resets \cup {Never}
    BY <2>1 DEF OrZero, Maybe, Never
  <2>3. CodeStatus(a.status) \in Statuses
    BY Zenon DEF CodeStatus, Statuses
  <2> QED BY <2>1, <2>2, <2>3, PercentInRange
<1>3. \/ r = Unknown
      \/ r = [session |-> Percent(a.session), reset |-> OrZero(a.reset),
              status |-> CodeStatus(a.status)]
  BY Zenon DEF ClaudeCode
<1> QED BY <1>1, <1>2, <1>3 DEF Reading

LEMMA ProxyReads ==
  ASSUME NEW a \in ProxyAnswer, NEW r \in ClaudeProxy(a)
  PROVE  r \in Reading
<1>1. Unknown \in Reading
  BY Constants DEF Unknown, Reading, Never, Statuses
<1>2. ASSUME NEW five \in a.five,
             r = [session |-> Percent(five.utilization), reset |-> OrZero(five.resets),
                  status |-> ProxyStatus(five, a.seven)]
      PROVE  r \in Reading
  <2>1. five.utilization \in Maybe(Reported) /\ five.resets \in Maybe(Resets)
    BY DEF ProxyAnswer, Maybe, Limit
  <2>2. Percent(five.utilization) \in 0..Full
    BY <2>1, PercentInRange
  <2>3. OrZero(five.resets) \in Resets \cup {Never}
    BY <2>1 DEF OrZero, Maybe, Never
  <2>4. ProxyStatus(five, a.seven) \in Statuses
    BY DEF ProxyStatus, Statuses
  <2> QED BY <1>2, <2>2, <2>3, <2>4 DEF Reading
<1>3. r = Unknown \/ \E five \in a.five :
        r = [session |-> Percent(five.utilization), reset |-> OrZero(five.resets),
             status |-> ProxyStatus(five, a.seven)]
  BY DEF ClaudeProxy
<1> QED BY <1>1, <1>2, <1>3

LEMMA PolledReads ==
  ASSUME NEW r \in Polled
  PROVE  r.of \in Reading /\ r.told \in BOOLEAN
<1>1. ASSUME r \in CodeReadings PROVE r.of \in Reading /\ r.told \in BOOLEAN
  <2>1. PICK a \in CodeAnswer :
          r \in {[of |-> q, told |-> a.header /\ Told(a.session)] : q \in ClaudeCode(a)}
    BY <1>1 DEF CodeReadings
  <2> DEFINE b == a.header /\ Told(a.session)
  <2>2. b \in BOOLEAN
    BY DEF Told
  <2> HIDE DEF b
  <2>3. PICK q \in ClaudeCode(a) : r = [of |-> q, told |-> b]
    BY <2>1 DEF b
  <2> QED BY <2>2, <2>3, CodeReads
<1>2. ASSUME r \in ProxyReadings PROVE r.of \in Reading /\ r.told \in BOOLEAN
  <2>1. PICK a \in ProxyAnswer :
          r \in {[of |-> q, told |-> \E five \in a.five : Told(five.utilization)] :
                 q \in ClaudeProxy(a)}
    BY <1>2 DEF ProxyReadings
  <2> DEFINE b == \E five \in a.five : Told(five.utilization)
  <2>2. b \in BOOLEAN
    OBVIOUS
  <2> HIDE DEF b
  <2>3. PICK q \in ClaudeProxy(a) : r = [of |-> q, told |-> b]
    BY <2>1 DEF b
  <2> QED BY <2>2, <2>3, ProxyReads
<1> QED BY <1>1, <1>2 DEF Polled

-----------------------------------------------------------------------------
(* What the dial is told it is told as the feed promises.                   *)
LEMMA OlderIs ==
  ASSUME NEW age \in 0..MaxAge
  PROVE  /\ Feed!Older(age) \in 0..MaxAge
         /\ Feed!Older(age) <= age + 1 /\ age <= Feed!Older(age)
         /\ Feed!Older(age) < MaxAge => Feed!Older(age) = age + 1
BY Constants DEF Feed!Older

LEMMA AgedIs ==
  ASSUME NEW s \in Feed!Snapshot
  PROVE  /\ Feed!Aged(s) \in Feed!Snapshot
         /\ Feed!Aged(s).age = Feed!Older(s.age) /\ Feed!Aged(s).old = s.old
BY OlderIs DEF Feed!Snapshot, Feed!Aged

LEMMA LabelIs == ASSUME Feed!Considers PROVE label' \in Feed!Labels
BY DEF Feed!Considers, Feed!Label, Feed!Labels

LEMMA FedKeeps ==
  ASSUME Feed!TypeOK, PromptAge, [Feed!Next]_(Feed!ui)
  PROVE  (Feed!TypeOK /\ PromptAge)'
<1> USE DEF Feed!TypeOK
<1>1. CASE UNCHANGED Feed!ui
  BY <1>1 DEF Feed!ui, PromptAge
<1>2. ASSUME NEW s \in Feed!Snapshot, Feed!Learns(s) PROVE (Feed!TypeOK /\ PromptAge)'
  <2>1. recvAge' \in 0..MaxAge /\ maintIn' \in 0..MaintEvery /\ label' \in Feed!Labels
    BY <1>2, LabelIs, Constants DEF Feed!Learns
  <2>2. PromptAge'
    BY <1>2 DEF Feed!Learns, Feed!Acceptable, PromptAge
  <2> QED BY <1>2, <2>1, <2>2 DEF Feed!Learns, Feed!Option
<1>3. ASSUME NEW state \in BOOLEAN, Feed!Hears(state) PROVE (Feed!TypeOK /\ PromptAge)'
  BY <1>3, LabelIs DEF Feed!Hears, PromptAge
<1>4. CASE Feed!Reconsiders
  BY <1>4, LabelIs DEF Feed!Reconsiders, PromptAge
<1>5. CASE Feed!Maintains
  <2>1. maintIn' \in 0..MaintEvery /\ label' \in Feed!Labels
    BY <1>5, LabelIs, Constants DEF Feed!Maintains
  <2> QED BY <1>5, <2>1 DEF Feed!Maintains, PromptAge
<1>6. CASE Feed!Restarts
  <2>1. {} \in Feed!Option(Feed!Snapshot) /\ "OFFLINE" \in Feed!Labels
    BY DEF Feed!Option, Feed!Labels
  <2>2. (recvAge \in 0..MaxAge /\ maintIn \in 0..MaintEvery)'
    BY <1>6, Constants DEF Feed!Restarts
  <2> QED BY <1>6, <2>1, <2>2 DEF Feed!Restarts, PromptAge
<1>7. CASE Feed!Tick
  <2>1. recvAge' \in 0..MaxAge
    BY <1>7, OlderIs DEF Feed!Tick
  <2>2. maintIn' \in 0..MaintEvery
    BY <1>7, Constants DEF Feed!Tick
  <2>3. latest' \in Feed!Option(Feed!Snapshot) /\ PromptAge'
    <3>1. CASE latest = {}
      BY <1>7, <3>1 DEF Feed!Tick, Feed!Option, PromptAge
    <3>2. ASSUME NEW s \in Feed!Snapshot, latest = {s}
          PROVE  latest' \in Feed!Option(Feed!Snapshot) /\ PromptAge'
      <4>1. latest' = {Feed!Aged(s)}
        BY <1>7, <3>2 DEF Feed!Tick
      <4>2. s.old \/ Feed!Older(s.age) = Feed!Older(recvAge)
        BY <3>2 DEF PromptAge
      <4> QED BY <1>7, <3>2, <4>1, <4>2, AgedIs DEF Feed!Tick, Feed!Option, PromptAge
    <3> QED BY <3>1, <3>2 DEF Feed!Option
  <2> QED BY <1>7, <2>1, <2>2, <2>3 DEF Feed!Tick
<1> QED BY <1>1, <1>2, <1>3, <1>4, <1>5, <1>6, <1>7 DEF Feed!Next

LEMMA StepIsFed == ASSUME [Next]_vars PROVE [Feed!Next]_(Feed!ui)
<1>1. ASSUME NEW s \in Feed!Snapshot, UsageEvent(s) PROVE Feed!Next
  BY <1>1 DEF UsageEvent, Receives, Feed!Next
<1>2. CASE BleEvent
  BY <1>2 DEF BleEvent, Feed!Next
<1>3. CASE Maintenance
  BY <1>3 DEF Maintenance, Feed!Next
<1>4. CASE Restarts
  BY <1>4 DEF Restarts, Feed!Next
<1>5. ASSUME NEW time, RtcEvent(time) PROVE Feed!Next
  BY <1>5 DEF RtcEvent, Feed!Next
<1>6. CASE ReachesLimit \/ StartsAnew \/ UNCHANGED vars
  BY <1>6 DEF ReachesLimit, StartsAnew, vars, ui, Feed!ui
<1>7. CASE Tick
  BY <1>7 DEF Tick, Feed!Next
<1> QED BY <1>1, <1>2, <1>3, <1>4, <1>5, <1>6, <1>7 DEF Next

-----------------------------------------------------------------------------
(* The pace.                                                                *)
PaceTyped == /\ previous \in Maybe(0..Full)
             /\ intervals \in Seq(Pace!Interval) /\ Len(intervals) <= Capacity

LEMMA Observed ==
  ASSUME PaceTyped, NEW interval \in Pace!Interval
  PROVE  /\ Pace!Observe(interval) \in Seq(Pace!Interval)
         /\ Len(Pace!Observe(interval)) <= Capacity
<1> DEFINE longer == <<interval>> \o intervals
           n == Pace!Lesser(Len(longer), Capacity)
<1>1. longer \in Seq(Pace!Interval) /\ Len(longer) \in Nat \ {0} /\ Capacity \in Nat \ {0}
  BY Constants DEF PaceTyped
<1> HIDE DEF longer
<1>2. n \in 1..Len(longer) /\ n <= Capacity
  BY <1>1 DEF Pace!Lesser
<1>3. Pace!Observe(interval) = SubSeq(longer, 1, n)
  BY DEF Pace!Observe, longer
<1> HIDE DEF n
<1> QED BY <1>1, <1>2, <1>3

LEMMA RecordKeeps ==
  ASSUME PaceTyped, NEW percent \in 0..Full, NEW elapsed \in Nat, Pace!Record(percent, elapsed)
  PROVE  PaceTyped' /\ previous' # {}
<1>1. previous' = {percent} /\ previous' \in Maybe(0..Full)
  BY DEF Pace!Record, Maybe
<1>2. CASE previous = {}
  BY <1>1, <1>2 DEF Pace!Record, PaceTyped
<1>3. CASE previous # {} /\ ~Pace!Continuous(elapsed)
  <2>1. intervals' = <<>>
    BY <1>3 DEF Pace!Record
  <2>2. <<>> \in Seq(Pace!Interval) /\ Len(<<>>) <= Capacity
    BY Constants
  <2> QED BY <1>1, <2>1, <2>2 DEF PaceTyped
<1>4. ASSUME NEW before \in 0..Full, previous = {before}, Pace!Continuous(elapsed)
      PROVE  PaceTyped'
  <2> DEFINE interval == [delta |-> Pace!Spending(before, percent), elapsed |-> elapsed]
  <2>1. interval \in Pace!Interval
    BY <1>4, Constants DEF Pace!Interval, Pace!Spending, Pace!Continuous
  <2>2. intervals' = Pace!Observe(interval)
    <3>1. before = CHOOSE p \in previous : TRUE
      BY <1>4
    <3> QED BY <1>4, <3>1 DEF Pace!Record
  <2> HIDE DEF interval
  <2> QED BY <1>1, <2>1, <2>2, Observed DEF PaceTyped
<1> QED BY <1>1, <1>2, <1>3, <1>4 DEF PaceTyped, Maybe

-----------------------------------------------------------------------------
(* What is shown is right when it is.                                       *)
LEMMA MinutesRoundUp ==
  ASSUME NEW left \in Int, NEW lag \in Nat
  PROVE  LET n == left + lag
             m == (n + Minute - 1) \div Minute
         IN m \in Int /\ n <= m * Minute /\ (m - 1) * Minute < n
<1> DEFINE a == left + lag + Minute - 1
           m == a \div Minute
<1>1. a \in Int /\ Minute \in Nat \ {0}
  BY Constants
<1> HIDE DEF a
<1>2. m \in Int /\ m * Minute <= a /\ a < m * Minute + Minute
  BY <1>1
<1> HIDE DEF m
<1>3. (m - 1) * Minute = m * Minute - Minute /\ m * Minute \in Int
  BY <1>1, <1>2
<1>4. left + lag <= m * Minute /\ (m - 1) * Minute < left + lag
  BY <1>1, <1>2, <1>3 DEF a
<1> QED BY <1>2, <1>4 DEF m, a

LEMMA CountsForward ==
  ASSUME NEW m \in Nat \ {0}, NEW left \in Int, NEW lag \in Nat,
         (m - 1) * Minute < left + lag
  PROVE  left + lag >= 1
<1>1. (m - 1) * Minute \in Nat
  BY Constants
<1> QED BY <1>1

ClockTyped == /\ \A left \in toReset : left \in Int
              /\ \A lag \in clock : lag \in Nat

LEMMA CountsRight ==
  ASSUME Shows, ClockTyped'
  PROVE  Counted' /\ Over'
<1>1. countdown' = {m \in {(left + lag + Minute - 1) \div Minute :
                             left \in toReset', lag \in clock'} : m > 0}
  BY DEF Shows, Minutes
<1>2. ASSUME NEW m \in countdown'
      PROVE  /\ m \in Nat \ {0}
             /\ \E left \in toReset', lag \in clock' :
                  left + lag <= m * Minute /\ (m - 1) * Minute < left + lag
  <2>1. PICK left \in toReset', lag \in clock' :
          m = (left + lag + Minute - 1) \div Minute /\ m > 0
    BY <1>1
  <2>2. left \in Int /\ lag \in Nat
    BY DEF ClockTyped
  <2>3. m \in Int /\ left + lag <= m * Minute /\ (m - 1) * Minute < left + lag
    BY <2>1, <2>2, MinutesRoundUp
  <2>4. m \in Nat \ {0}
    BY <2>1, <2>3
  <2> QED BY <2>3, <2>4
<1>3. ASSUME countdown' = {}, NEW left \in toReset', NEW lag \in clock'
      PROVE  left + lag <= 0
  <2> DEFINE m == (left + lag + Minute - 1) \div Minute
  <2>1. left \in Int /\ lag \in Nat /\ Minute \in Nat \ {0}
    BY Constants DEF ClockTyped
  <2>2. ~(m > 0)
    BY <1>1, <1>3
  <2>3. m \in Int /\ left + lag <= m * Minute
    BY <2>1, MinutesRoundUp
  <2> HIDE DEF m
  <2>4. m * Minute <= 0
    BY <2>1, <2>2, <2>3
  <2>5. m * Minute \in Int
    BY <2>1, <2>3
  <2> QED BY <2>1, <2>3, <2>4, <2>5
<1> QED BY <1>2, <1>3 DEF Counted, Over

LEMMA ShowsRight ==
  ASSUME Shows, ClockTyped', recvAge' \in 0..MaxAge, maintIn' \in 0..MaintEvery
  PROVE  Shown'
<1>1. summary' \in Summaries' /\ countdown' = Minutes'
  BY DEF Shows
<1>2. summary' \notin Vague => connected' /\ latest' # {} /\ ~(recvAge' >= FreshFor)
  BY <1>1 DEF Summaries, Vague
<1>3. Recent'
  BY <1>2, DialAssumption DEF Recent
<1>4. BelowLimit'
  BY <1>1 DEF Summaries, Vague, BelowLimit
<1>5. Ahead'
  <2> SUFFICES ASSUME summary' = "TOO FAST"
               PROVE  \E left \in toReset', lag \in clock' : left + lag >= 1
    BY DEF Ahead
  <2>1. PICK rate \in Pace!Paces(Hour)' : Verdict(rate)' = "TOO FAST"
    BY <1>1 DEF Summaries
  <2>2. Minutes' # {}
    BY <2>1 DEF Verdict
  <2>3. PICK m \in countdown' : TRUE
    BY <1>1, <2>2
  <2>4. PICK left \in toReset', lag \in clock' : (m - 1) * Minute < left + lag
    BY CountsRight DEF Counted
  <2>5. m \in Nat \ {0}
    BY CountsRight DEF Counted
  <2>6. left \in Int /\ lag \in Nat
    BY DEF ClockTyped
  <2>7. left + lag >= 1
    BY <2>4, <2>5, <2>6, CountsForward
  <2> QED BY <2>7
<1> QED BY <1>3, <1>4, <1>5, CountsRight DEF Shown

-----------------------------------------------------------------------------
(* The rest of the types, and what follows from them.                       *)
OthersTyped ==
  /\ usage \in [session : 0..Full, status : Statuses]
  /\ \A left \in toReset : left \in Int
  /\ clock \in Maybe(0..RtcEvery)
  /\ told \in BOOLEAN /\ taint \subseteq Taints /\ limitFor \in 0..LongAtLimit

LEMMA TypesAre == TypeOK <=> Feed!TypeOK /\ PaceTyped /\ OthersTyped
BY DEF TypeOK, PaceTyped, OthersTyped

LEMMA FeedTypes ==
  ASSUME Feed!TypeOK
  PROVE  /\ recvAge \in 0..MaxAge /\ maintIn \in 0..MaintEvery
         /\ latest = {} \/ \E s \in Feed!Snapshot : latest = {s}
         /\ \A s \in latest : s \in Feed!Snapshot /\ s.age \in 0..MaxAge
BY DEF Feed!TypeOK, Feed!Option, Feed!Snapshot

LEMMA ClockIs == OthersTyped => ClockTyped
BY Constants DEF OthersTyped, ClockTyped, Maybe

LEMMA LaterIs ==
  ASSUME NEW left \in Int
  PROVE  /\ Later(left) \in Int /\ Last \in Int /\ Last <= -RtcEvery
         /\ left >= -RtcEvery => Later(left) = left
         /\ Later(left) = left \/ Later(left) = Last
BY Constants DEF Later, Last

LEMMA ResetTyped ==
  ASSUME NEW r \in Polled, NEW s \in Feed!Snapshot
  PROVE  \A left \in ResetIn(r, s) : left \in Int
<1>1. r.of.reset - s.age \in Int
  <2>1. r.of.reset \in Nat
    <3> DEFINE reset == r.of.reset
    <3>1. reset \in Resets \cup {0}
      BY PolledReads DEF Reading, Never
    <3> HIDE DEF reset
    <3>2. reset \in Nat
      BY <3>1, UsageSourcesAssumption
    <3> QED BY <3>2 DEF reset
  <2>2. s.age \in Nat
    BY Constants DEF Feed!Snapshot
  <2> QED BY <2>1, <2>2
<1> DEFINE left == r.of.reset - s.age
<1>2. ResetIn(r, s) = {} \/ ResetIn(r, s) = {Later(left)}
  BY DEF ResetIn
<1> HIDE DEF left
<1> QED BY <1>1, <1>2, LaterIs DEF left

LEMMA InitIInv == Init => IInv
<1> SUFFICES ASSUME Init PROVE IInv
  OBVIOUS
<1> USE DEF Init
<1>1. Feed!TypeOK
  <2>1. {} \in Feed!Option(Feed!Snapshot) /\ "OFFLINE" \in Feed!Labels
    BY DEF Feed!Option, Feed!Labels
  <2>2. recvAge \in 0..MaxAge /\ maintIn \in 0..MaintEvery
    BY Constants DEF Feed!Init
  <2> QED BY <2>1, <2>2 DEF Feed!Init, Feed!TypeOK
<1>2. PaceTyped
  BY Constants DEF Pace!Init, PaceTyped, Maybe
<1>3. OthersTyped
  <2>1. usage \in [session : 0..Full, status : Statuses]
    BY Constants DEF NoUsage, Unknown, Statuses
  <2>2. 0 \in 0..LongAtLimit
    BY Constants DEF LongAtLimit
  <2> QED BY <2>1, <2>2 DEF OthersTyped, Maybe
<1>4. PromptAge /\ Truth
  BY DEF Feed!Init, PromptAge, Truth
<1>5. Shown
  BY DEF Shown, Recent, BelowLimit, Ahead, Counted, Over, Vague
<1>6. Baseline /\ NeverBridges
  BY DEF Pace!Init, Baseline, NeverBridges
<1> QED BY <1>1, <1>2, <1>3, <1>4, <1>5, <1>6, TypesAre DEF IInv

-----------------------------------------------------------------------------
(* One lemma per group of actions.                                          *)
Fed == Feed!TypeOK /\ PromptAge

LEMMA ReceivesKeeps ==
  ASSUME IInv, NEW s \in Feed!Snapshot, NEW r \in Polled, Receives(s, r), Fed'
  PROVE  IInv'
<1>1. /\ r.of \in Reading /\ r.told \in BOOLEAN
      /\ r.of.session \in 0..Full /\ r.of.status \in Statuses
      /\ s.age \in 0..MaxAge
  BY PolledReads DEF Reading, Feed!Snapshot
<1>2. /\ latest' = {s} /\ recvAge' = 0
      /\ (s.old \/ s.age = 0)
  BY DEF Receives, Feed!Learns, Feed!Acceptable
<1>3. PICK elapsed \in Elapsed :
        Pace!Record(r.of.session, elapsed) /\ taint' = TaintAfter(s, r, elapsed)
  BY DEF Receives
<1>4. /\ usage' = [session |-> r.of.session, status |-> r.of.status]
      /\ toReset' = ResetIn(r, s)
      /\ told' = r.told
      /\ clock' = clock /\ limitFor' = limitFor
  BY DEF Receives
<1>5. /\ PaceTyped /\ OthersTyped /\ Baseline /\ PromptAge /\ NeverBridges
      /\ recvAge \in 0..MaxAge
      /\ \A t \in latest : t.age \in 0..MaxAge
  BY TypesAre, FeedTypes DEF IInv
<1>6. elapsed \in Nat
  BY <1>3, <1>5, Constants DEF Elapsed
<1>7. PaceTyped' /\ previous' # {}
  BY <1>1, <1>3, <1>5, <1>6, RecordKeeps
<1>8. OthersTyped'
  <2>1. \A left \in toReset' : left \in Int
    BY <1>4, ResetTyped
  <2>2. taint' \subseteq Taints
    BY <1>3, <1>5 DEF OthersTyped, TaintAfter
  <2>3. usage' \in [session : 0..Full, status : Statuses]
    BY <1>1, <1>4
  <2> QED BY <1>1, <1>4, <1>5, <2>1, <2>2, <2>3 DEF OthersTyped
<1>9. TypeOK' /\ PromptAge' /\ Baseline'
  BY <1>7, <1>8, TypesAre DEF Fed, TypeOK, PaceTyped, OthersTyped, Baseline
<1>10. Shown'
  <2>1. recvAge' \in 0..MaxAge /\ maintIn' \in 0..MaintEvery
    BY DEF Fed, Feed!TypeOK
  <2>2. ClockTyped'
    BY <1>4, <1>5, <1>8, ClockIs DEF ClockTyped, OthersTyped
  <2>3. Shows
    BY DEF Receives
  <2> QED BY <2>1, <2>2, <2>3, ShowsRight
<1>11. Truth'
  <2> SUFFICES ASSUME told', ~AtLimit(usage)', \A t \in latest' : ~t.old
               PROVE  limitFor' <= recvAge' + 1
    BY DEF Truth
  <2>1. r.told /\ ~AtLimit(r.of) /\ s.age = 0
    BY <1>1, <1>2, <1>4 DEF AtLimit
  <2>2. ~(0 < limitFor)
    BY <2>1 DEF Receives, Truthful
  <2>3. limitFor = 0
    BY <1>5, <2>2, Constants DEF OthersTyped, LongAtLimit
  <2> QED BY <1>2, <1>4, <2>3
<1>12. NeverBridges'
  <2> SUFFICES ASSUME intervals' # <<>>, Stretches(s, elapsed) PROVE FALSE
    BY <1>3, <1>5 DEF NeverBridges, TaintAfter
  <2>1. Pace!Continuous(elapsed)
    BY <1>3, <1>5 DEF Pace!Record, Baseline
  <2>2. PICK t \in latest : ~t.old /\ t.age - s.age > Pace!Lesser(elapsed, MaxGap)
    BY DEF Stretches
  <2>3. t.age = recvAge
    BY <1>5, <2>2 DEF PromptAge
  <2>4. Pace!Lesser(elapsed, MaxGap) = elapsed
    BY <2>1 DEF Pace!Continuous, Pace!Lesser
  <2>5. recvAge <= elapsed
    BY <1>3, <1>5 DEF Elapsed
  <2> QED BY <1>1, <1>5, <1>6, <2>2, <2>3, <2>4, <2>5
<1> QED BY <1>9, <1>10, <1>11, <1>12 DEF IInv

LEMMA ShowsKeeps ==
  ASSUME IInv, Standing, Shows, Fed', OthersTyped', latest' = latest, recvAge' = recvAge
  PROVE  IInv'
<1>1. /\ UNCHANGED <<usage, toReset, previous, intervals, told, taint, limitFor>>
  BY DEF Standing, pace
<1>2. PaceTyped'
  BY <1>1, TypesAre DEF IInv, PaceTyped
<1>3. TypeOK' /\ PromptAge'
  BY <1>2, TypesAre DEF Fed, TypeOK, PaceTyped, OthersTyped
<1>4. Shown'
  <2>1. recvAge' \in 0..MaxAge /\ maintIn' \in 0..MaintEvery
    BY DEF Fed, Feed!TypeOK
  <2>2. ClockTyped'
    BY Constants DEF OthersTyped, ClockTyped, Maybe
  <2> QED BY <2>1, <2>2, ShowsRight
<1>5. Truth'
  BY <1>1 DEF IInv, Truth, AtLimit
<1>6. Baseline' /\ NeverBridges'
  BY <1>1 DEF IInv, Baseline, NeverBridges
<1> QED BY <1>3, <1>4, <1>5, <1>6 DEF IInv

LEMMA RestartsKeeps ==
  ASSUME IInv, Restarts, Fed'
  PROVE  IInv'
<1>1. /\ usage' = NoUsage /\ toReset' = {} /\ clock' = {}
      /\ previous' = {} /\ intervals' = <<>>
      /\ summary' = "OFFLINE" /\ countdown' = {}
      /\ told' = FALSE /\ taint' = {} /\ limitFor' = limitFor
  BY DEF Restarts
<1>2. PaceTyped'
  BY <1>1, Constants DEF PaceTyped, Maybe
<1>3. OthersTyped'
  <2>1. NoUsage \in [session : 0..Full, status : Statuses]
    BY Constants DEF NoUsage, Unknown, Statuses
  <2>2. limitFor \in 0..LongAtLimit
    BY DEF IInv, TypeOK
  <2> QED BY <1>1, <2>1, <2>2 DEF OthersTyped, Maybe
<1>4. TypeOK' /\ PromptAge'
  BY <1>2, <1>3 DEF Fed, TypeOK, PaceTyped, OthersTyped
<1>5. Shown'
  BY <1>1 DEF Shown, Recent, BelowLimit, Ahead, Counted, Over, Vague
<1>6. Truth' /\ Baseline' /\ NeverBridges'
  BY <1>1 DEF Truth, Baseline, NeverBridges
<1> QED BY <1>4, <1>5, <1>6 DEF IInv

(* The account's limit is only seen by Truth, which allows for a unit.      *)
LEMMA UnitAllowed ==
  ASSUME NEW units \in {0, 1}, NEW age \in 0..MaxAge
  PROVE  units <= age + 1
OBVIOUS

LEMMA LimitKeeps ==
  ASSUME IInv, ReachesLimit \/ StartsAnew
  PROVE  IInv'
<1>1. UNCHANGED <<ui, usage, toReset, clock, pace, face, told, taint>>
  BY DEF ReachesLimit, StartsAnew
<1>2. UNCHANGED <<connected, latest, recvAge, label, maintIn, previous, intervals,
                  summary, countdown>>
  BY <1>1 DEF ui, pace, face
<1>3. limitFor' \in {0, 1}
  BY DEF ReachesLimit, StartsAnew
<1>4. limitFor' \in 0..LongAtLimit
  BY <1>3, Constants DEF LongAtLimit
<1>5. TypeOK'
  BY <1>1, <1>2, <1>4 DEF IInv, TypeOK, Feed!TypeOK
<1>6. PromptAge' /\ Shown' /\ Baseline' /\ NeverBridges'
  BY <1>1, <1>2 DEF IInv, PromptAge, Shown, Recent, BelowLimit, Ahead, Counted, Over,
                    Baseline, NeverBridges, AtLimit
<1>7. Truth'
  <2>1. recvAge' \in 0..MaxAge
    BY <1>5 DEF TypeOK, Feed!TypeOK
  <2>2. limitFor' <= recvAge' + 1
    BY <1>3, <2>1, UnitAllowed
  <2> QED BY <2>2 DEF Truth
<1> QED BY <1>5, <1>6, <1>7 DEF IInv

LEMMA TickKeeps ==
  ASSUME IInv, Tick, Fed'
  PROVE  IInv'
<1>1. /\ UNCHANGED <<connected, label, usage, previous, intervals, summary, countdown, told, taint>>
      /\ maintIn' = maintIn - 1 /\ recvAge' = Feed!Older(recvAge)
      /\ latest' = {Feed!Aged(s) : s \in latest}
      /\ clock # {RtcEvery} /\ clock' = {lag + 1 : lag \in clock}
      /\ toReset' = {Later(left - 1) : left \in toReset}
      /\ limitFor' = IF limitFor \in 1..(LongAtLimit - 1) THEN limitFor + 1 ELSE limitFor
  BY DEF Tick, Feed!Tick, pace, face
<1>2. /\ PaceTyped /\ OthersTyped /\ Shown /\ Truth /\ Baseline /\ NeverBridges
      /\ recvAge \in 0..MaxAge /\ maintIn \in 0..MaintEvery
      /\ \A s \in latest : s \in Feed!Snapshot
  BY TypesAre, FeedTypes DEF IInv
<1>3. \A lag \in clock : lag \in 0..(RtcEvery - 1)
  BY <1>1, <1>2, Constants DEF OthersTyped, Maybe
<1>4. \A left \in toReset : left \in Int
  BY <1>2 DEF OthersTyped
<1>5. OthersTyped'
  <2>1. \A left \in toReset' : left \in Int
    BY <1>1, <1>4, LaterIs
  <2>2. clock' \in Maybe(0..RtcEvery)
    <3>1. CASE clock = {}
      <4>1. clock' = {}
        BY <1>1, <3>1
      <4> QED BY <4>1 DEF Maybe
    <3>2. ASSUME NEW lag \in 0..RtcEvery, clock = {lag} PROVE clock' \in Maybe(0..RtcEvery)
      <4>1. lag + 1 \in 0..RtcEvery
        BY <1>3, <3>2, Constants
      <4>2. clock' = {lag + 1}
        BY <1>1, <3>2
      <4> QED BY <4>1, <4>2 DEF Maybe
    <3> QED BY <1>2, <3>1, <3>2 DEF OthersTyped, Maybe
  <2>3. limitFor' \in 0..LongAtLimit
    BY <1>1, <1>2, Constants DEF OthersTyped, LongAtLimit
  <2> QED BY <1>1, <1>2, <2>1, <2>2, <2>3 DEF OthersTyped
<1>6. TypeOK' /\ PromptAge'
  <2>1. PaceTyped'
    BY <1>1, <1>2 DEF PaceTyped
  <2> QED BY <1>5, <2>1 DEF Fed, TypeOK, PaceTyped, OthersTyped
(* The reset by the clock does not move, as long as it is ahead.            *)
<1>7. ASSUME NEW left \in toReset, NEW lag \in clock
      PROVE  /\ Later(left - 1) \in toReset' /\ lag + 1 \in clock'
             /\ Later(left - 1) \in Int /\ left \in Int /\ lag \in Nat
             /\ left + lag >= 1 => Later(left - 1) + (lag + 1) = left + lag
             /\ left + lag <= 0 => Later(left - 1) + (lag + 1) <= 0
  <2>1. Later(left - 1) \in toReset' /\ lag + 1 \in clock'
    BY <1>1
  <2>2. left \in Int /\ lag \in 0..(RtcEvery - 1) /\ RtcEvery \in Nat
    BY <1>3, <1>4, Constants
  <2>3. /\ Later(left - 1) \in Int /\ Last \in Int /\ Last <= -RtcEvery
        /\ left - 1 >= -RtcEvery => Later(left - 1) = left - 1
        /\ Later(left - 1) = left - 1 \/ Later(left - 1) = Last
    BY <2>2, LaterIs
  <2> DEFINE next == Later(left - 1)
  <2> HIDE DEF next
  <2>4. left + lag >= 1 => next + (lag + 1) = left + lag
    BY <2>2, <2>3 DEF next
  <2>5. left + lag <= 0 => next + (lag + 1) <= 0
    BY <2>2, <2>3 DEF next
  <2> QED BY <2>1, <2>2, <2>3, <2>4, <2>5 DEF next
<1>8. Shown'
  <2>1. Recent'
    <3> SUFFICES ASSUME summary' \notin Vague
                 PROVE  /\ connected' /\ latest' # {}
                        /\ recvAge' + maintIn' < FreshFor + MaintEvery
      BY DEF Recent
    <3>1. connected /\ latest # {} /\ recvAge + maintIn < FreshFor + MaintEvery
      BY <1>1, <1>2 DEF Shown, Recent
    <3>2. recvAge' \in 0..MaxAge /\ recvAge' <= recvAge + 1
      BY <1>1, <1>2, OlderIs
    <3>3. maintIn' \in Int
      BY <1>1, <1>2, Constants
    <3> QED BY <1>1, <1>2, <3>1, <3>2, <3>3, DialAssumption
  <2>2. BelowLimit'
    BY <1>1, <1>2 DEF Shown, BelowLimit, AtLimit
  <2>3. Ahead'
    BY <1>1, <1>2, <1>7 DEF Shown, Ahead
  <2>4. Counted'
    <3> SUFFICES ASSUME NEW m \in countdown
                 PROVE  /\ m \in Nat \ {0}
                        /\ \E left \in toReset', lag \in clock' :
                             left + lag <= m * Minute /\ (m - 1) * Minute < left + lag
      BY <1>1 DEF Counted
    <3>1. /\ m \in Nat \ {0}
          /\ \E left \in toReset, lag \in clock :
               left + lag <= m * Minute /\ (m - 1) * Minute < left + lag
      BY <1>2 DEF Shown, Counted
    <3>2. PICK left \in toReset, lag \in clock :
            left + lag <= m * Minute /\ (m - 1) * Minute < left + lag
      BY <3>1
    <3>3. left + lag >= 1
      BY <1>7, <3>1, <3>2, CountsForward
    <3> QED BY <1>7, <3>1, <3>2, <3>3
  <2>5. Over'
    BY <1>1, <1>2, <1>7 DEF Shown, Over
  <2> QED BY <2>1, <2>2, <2>3, <2>4, <2>5 DEF Shown
<1>9. Truth'
  <2> SUFFICES ASSUME told', ~AtLimit(usage)', recvAge' < MaxAge, latest' # {},
                      \A s \in latest' : ~s.old
               PROVE  limitFor' <= recvAge' + 1
    BY DEF Truth
  <2>1. \A s \in latest : ~s.old
    BY <1>1, <1>2, AgedIs
  <2>2. recvAge' = recvAge + 1 /\ recvAge < MaxAge
    BY <1>1, <1>2, OlderIs, Constants
  <2>3. limitFor <= recvAge + 1
    BY <1>1, <1>2, <2>1, <2>2 DEF Truth, AtLimit
  <2>4. limitFor \in Nat
    BY <1>2, Constants DEF OthersTyped, LongAtLimit
  <2> QED BY <1>1, <1>2, <2>2, <2>3, <2>4
<1> QED BY <1>1, <1>2, <1>6, <1>8, <1>9 DEF IInv, Baseline, NeverBridges

-----------------------------------------------------------------------------
LEMMA NextIInv == IInv /\ [Next]_vars => IInv'
<1> SUFFICES ASSUME IInv, [Next]_vars PROVE IInv'
  OBVIOUS
<1>1. Fed'
  <2>1. Feed!TypeOK /\ PromptAge /\ [Feed!Next]_(Feed!ui)
    BY StepIsFed DEF IInv, TypeOK
  <2> QED BY <2>1, FedKeeps DEF Fed
<1>2. OthersTyped
  BY TypesAre DEF IInv
<1>3. CASE UNCHANGED vars
  <2>1. /\ UNCHANGED <<connected, latest, recvAge, label, maintIn, usage, toReset, clock,
                       previous, intervals, summary, countdown, told, taint, limitFor>>
    BY <1>3 DEF vars, ui, pace, face
  <2>2. TypeOK'
    BY <2>1 DEF IInv, TypeOK, Feed!TypeOK
  <2>3. PromptAge' /\ Shown' /\ Truth' /\ Baseline' /\ NeverBridges'
    BY <2>1 DEF IInv, PromptAge, Shown, Recent, BelowLimit, Ahead, Counted, Over, Truth,
                Baseline, NeverBridges, AtLimit
  <2> QED BY <2>2, <2>3 DEF IInv
<1>4. ASSUME NEW s \in Feed!Snapshot, UsageEvent(s) PROVE IInv'
  BY <1>1, <1>4, ReceivesKeeps DEF UsageEvent
<1>5. ASSUME Standing, Shows, latest' = latest, recvAge' = recvAge,
             clock' = clock \/ clock' \in {{}, {0}}
      PROVE  IInv'
  <2>1. clock' \in Maybe(0..RtcEvery)
    BY <1>2, <1>5, Constants DEF OthersTyped, Maybe
  <2>2. OthersTyped'
    BY <1>2, <1>5, <2>1 DEF OthersTyped, Standing
  <2> QED BY <1>1, <1>5, <2>2, ShowsKeeps
<1>6. CASE BleEvent
  BY <1>5, <1>6 DEF BleEvent, Feed!Hears
<1>7. CASE Maintenance
  BY <1>5, <1>7 DEF Maintenance, Feed!Maintains
<1>8. ASSUME NEW time \in {{}, {0}}, RtcEvent(time) PROVE IInv'
  BY <1>5, <1>8 DEF RtcEvent, Feed!Reconsiders
<1>9. CASE Restarts
  BY <1>1, <1>9, RestartsKeeps
<1>10. CASE ReachesLimit \/ StartsAnew
  BY <1>10, LimitKeeps
<1>11. CASE Tick
  BY <1>1, <1>11, TickKeeps
<1> QED BY <1>3, <1>4, <1>6, <1>7, <1>8, <1>9, <1>10, <1>11 DEF Next

LEMMA SpecIInv == Spec => []IInv
BY InitIInv, NextIInv, PTL DEF Spec

(* Every variable of the dial has its type: the pace never holds more than  *)
(* Capacity intervals, and the reset and the clock are never lost track of. *)
THEOREM SpecTypeOK == Spec => []TypeOK
<1>1. IInv => TypeOK
  BY DEF IInv
<1> QED BY <1>1, SpecIInv, PTL

(* update_usage_state and next_ui_event: a red summary is about now,        *)
(* however events, outages and restarts fall between the tickers.           *)
THEOREM SpecAlarmIsCurrent == Spec => []AlarmIsCurrent
<1>1. IInv => AlarmIsCurrent
  <2> SUFFICES ASSUME IInv PROVE AlarmIsCurrent
    OBVIOUS
  <2>1. Recent /\ Ahead /\ Feed!TypeOK /\ OthersTyped
    BY TypesAre DEF IInv, Shown
  <2>2. recvAge \in Nat /\ maintIn \in Nat
    BY <2>1, FeedTypes, Constants
  <2>3. ASSUME summary \in {"LIMIT REACHED", "TOO FAST"}
        PROVE  connected /\ recvAge < FreshFor + MaintEvery
    <3>1. connected /\ recvAge + maintIn < FreshFor + MaintEvery
      BY <2>1, <2>3 DEF Recent, Vague
    <3> QED BY <2>2, <3>1, Constants
  <2>4. ASSUME summary = "TOO FAST"
        PROVE  clock # {} /\ \E left \in toReset : left > Last
    <3>1. PICK left \in toReset, lag \in clock : left + lag >= 1
      BY <2>1, <2>4 DEF Ahead
    <3>2. left \in Int /\ lag \in 0..RtcEvery
      BY <2>1 DEF OthersTyped, Maybe
    <3>3. left > Last
      BY <3>1, <3>2, Constants DEF Last
    <3> QED BY <3>1, <3>3
  <2> QED BY <2>3, <2>4 DEF AlarmIsCurrent
<1> QED BY <1>1, SpecIInv, PTL

(* minutes_until: the countdown rounds up, so it never promises a reset too *)
(* early, it is never wrong by more than the two tickers can be late, and   *)
(* it is not blank before the reset.                                        *)
THEOREM SpecCountdownTrue == Spec => []CountdownTrue
<1>1. IInv => CountdownTrue
  <2> SUFFICES ASSUME IInv PROVE CountdownTrue
    OBVIOUS
  <2>1. Counted /\ Over /\ OthersTyped
    BY TypesAre DEF IInv, Shown
  <2>2. /\ \A left \in toReset : left \in Int
        /\ \A lag \in clock : lag \in 0..RtcEvery
    BY <2>1 DEF OthersTyped, Maybe
  <2>3. ASSUME NEW m \in countdown
        PROVE  \E left \in toReset : left <= m * Minute /\ (m - 1) * Minute < left - Last
    <3>1. m \in Nat \ {0}
      BY <2>1 DEF Counted
    <3>2. PICK left \in toReset, lag \in clock :
            left + lag <= m * Minute /\ (m - 1) * Minute < left + lag
      BY <2>1 DEF Counted
    <3> DEFINE early == (m - 1) * Minute
               late == m * Minute
    <3>3. early \in Int /\ late \in Int
      BY <3>1, Constants
    <3> HIDE DEF early, late
    <3>4. left + lag <= late /\ early < left + lag
      BY <3>2 DEF early, late
    <3>5. left <= late /\ early < left - Last
      BY <2>2, <3>3, <3>4, Constants DEF Last
    <3> QED BY <3>5 DEF early, late
  <2>4. ASSUME countdown = {}, clock # {}, NEW left \in toReset PROVE left <= 0
    <3>1. PICK lag \in clock : left + lag <= 0
      BY <2>1, <2>4 DEF Over
    <3> QED BY <2>2, <3>1, Constants
  <2> QED BY <2>3, <2>4 DEF CountdownTrue
<1> QED BY <1>1, SpecIInv, PTL

LEMMA StillRecent ==
  ASSUME NEW age \in 0..MaxAge, NEW until \in 0..MaintEvery,
         age + until < FreshFor + MaintEvery
  PROVE  age < MaxAge /\ ~(LongAtLimit <= age + 1)
BY Constants DEF LongAtLimit

(* An account that has long been at its limit is never said to have a pace. *)
(* Its refusals are failed polls, which only time tells from a quiet host:  *)
(* the last thing that was told of it was told before the limit, so it is   *)
(* too old for a verdict before the account has been at its limit for       *)
(* LongAtLimit.                                                             *)
THEOREM SpecLimitNotHidden == Spec => []LimitNotHidden
<1>1. IInv => LimitNotHidden
  <2> SUFFICES ASSUME IInv, limitFor = LongAtLimit, told, \A s \in latest : ~s.old,
                      summary \notin Vague \cup {"LIMIT REACHED"}
               PROVE  FALSE
    BY DEF LimitNotHidden, Vague
  <2>1. /\ ~AtLimit(usage) /\ latest # {}
        /\ recvAge + maintIn < FreshFor + MaintEvery
    BY DEF IInv, Shown, Recent, BelowLimit
  <2>2. recvAge \in 0..MaxAge /\ maintIn \in 0..MaintEvery
    BY FeedTypes DEF IInv, TypeOK
  <2>3. recvAge < MaxAge /\ ~(LongAtLimit <= recvAge + 1)
    BY <2>1, <2>2, StillRecent
  <2>4. limitFor <= recvAge + 1
    BY <2>1, <2>3 DEF IInv, Truth
  <2> QED BY <2>3, <2>4
<1> QED BY <1>1, SpecIInv, PTL

(* update_pace: no interval of the pace bridges an outage, nor is shorter   *)
(* than the time between the polls of its readings, unless the earlier of   *)
(* them was left over in the host's queue.                                  *)
THEOREM SpecNeverBridges == Spec => []NeverBridges
<1>1. IInv => NeverBridges
  BY DEF IInv
<1> QED BY <1>1, SpecIInv, PTL

(* The dial asks no more of the feed than UsagePromise lets it do: each of  *)
(* its steps is one of the feed, or none.  So what UsageFeed, which also    *)
(* implements it, can do to a snapshot is all that the dial has to bear.    *)
THEOREM SpecIsFed == Spec => Feed!Spec
<1>1. Init => Feed!Init
  BY DEF Init
<1>2. [Next]_vars => [Feed!Next]_(Feed!ui)
  BY StepIsFed
<1> QED BY <1>1, <1>2, PTL DEF Spec, Feed!Spec
=============================================================================
