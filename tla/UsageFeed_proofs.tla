------------------------- MODULE UsageFeed_proofs -------------------------
(***************************************************************************)
(* The feed implements UsagePromise for every capacity of the queue, of    *)
(* the connection and of the receiver, so that what is shown of the        *)
(* promise below holds of the feed.  The heart of it: the frames on their  *)
(* way are in the order of their polls, wherever they are, and no time     *)
(* passes between the poll of a frame of this session and its arrival.     *)
(***************************************************************************)
EXTENDS UsageFeed, SequenceTheorems, TLAPS

PromptIn(q) == \A i \in 1..Len(q) : q[i].old \/ q[i].age = 0
Ordered(q) == \A i, j \in 1..Len(q) : i <= j => q[j].age <= q[i].age
NotAfter(q, age) == \A i \in 1..Len(q) : q[i].age <= age
NeitherAfter(q, r, age) == NotAfter(q, age) /\ NotAfter(r, age)

PromptFrames ==
  /\ \A u \in usage : u.old \/ u.age = 0
  /\ PromptIn(recv) /\ PromptIn(air)
  /\ pump # "none" /\ carries => PromptIn(queue)

(* From the dial to the host, every snapshot is as young as those before.   *)
InOrder ==
  /\ Ordered(queue) /\ Ordered(air) /\ Ordered(recv)
  /\ \A i \in 1..Len(air) : NotAfter(queue, air[i].age)
  /\ \A i \in 1..Len(recv) : NeitherAfter(air, queue, recv[i].age)
  /\ \A u \in usage : NotAfter(recv, u.age) /\ NeitherAfter(air, queue, u.age)
  /\ \A t \in latest : /\ \A u \in usage : u.age <= t.age
                       /\ NotAfter(recv, t.age) /\ NeitherAfter(air, queue, t.age)

(* A frame that is written and not released is the queue's head.            *)
Lent == pump = "written" => queue # <<>>

(* What is in flight is in flight over a connection that carries it.        *)
Carried == /\ carries => link
           /\ air # <<>> => carries

IInv == TypeOK /\ PromptFrames /\ InOrder /\ Lent /\ Carried

-----------------------------------------------------------------------------
(* Parts of the types, as the provers need them.                            *)
LEMMA Constants ==
  /\ QCap \in Nat \ {0} /\ AirCap \in Nat \ {0} /\ RecvCap \in Nat \ {0}
  /\ FreshFor \in Nat \ {0} /\ MaintEvery \in Nat \ {0}
  /\ MaxAge \in Nat /\ MaxAge > FreshFor + MaintEvery
BY UsageFeedAssumption

LEMMA SnapshotHas == \A s \in Snapshot : s.age \in 0..MaxAge /\ s.age \in Nat
BY Constants DEF Snapshot, Promise!Snapshot

LEMMA OptionHas ==
  /\ {} \in Option(Snapshot)
  /\ \A s \in Snapshot : {s} \in Option(Snapshot)
  /\ \A o \in Option(Snapshot) : o = {} \/ \E s \in Snapshot : o = {s}
BY DEF Option, Promise!Option

LEMMA OlderIs ==
  ASSUME NEW a \in 0..MaxAge, NEW b \in 0..MaxAge
  PROVE  Older(a) \in 0..MaxAge /\ (a <= b => Older(a) <= Older(b))
BY Constants DEF Older, Promise!Older

LEMMA AgedIs ==
  ASSUME NEW s \in Snapshot
  PROVE  Aged(s) \in Snapshot /\ Aged(s).age = Older(s.age) /\ Aged(s).old = s.old
BY Constants DEF Aged, Older, Snapshot, Promise!Aged, Promise!Older, Promise!Snapshot

(* A label that update_data_state computes is a label.                      *)
LEMMA LabelIs ==
  ASSUME NEW c, NEW s, NEW a
  PROVE  Label(c, s, a) \in Promise!Labels
BY DEF Label, Promise!Label, Promise!Labels

LEMMA HeadTail ==
  ASSUME NEW q \in Seq(Snapshot), q # <<>>
  PROVE  /\ Head(q) \in Snapshot /\ Head(q) = q[1] /\ 1 \in 1..Len(q)
         /\ Tail(q) \in Seq(Snapshot) /\ Len(Tail(q)) = Len(q) - 1
         /\ \A i \in 1..Len(Tail(q)) : Tail(q)[i] = q[i + 1] /\ i + 1 \in 1..Len(q)
OBVIOUS

(* What a queue loses at its head leaves it in order.                       *)
LEMMA TailKeeps ==
  ASSUME NEW q \in Seq(Snapshot), q # <<>>
  PROVE  /\ Ordered(q) => Ordered(Tail(q)) /\ NotAfter(Tail(q), Head(q).age)
         /\ PromptIn(q) => PromptIn(Tail(q)) /\ (Head(q).old \/ Head(q).age = 0)
         /\ \A a \in Nat : NotAfter(q, a) => NotAfter(Tail(q), a) /\ Head(q).age <= a
<1>1. Ordered(q) => Ordered(Tail(q)) /\ NotAfter(Tail(q), Head(q).age)
  BY HeadTail DEF Ordered, NotAfter
<1>2. PromptIn(q) => PromptIn(Tail(q)) /\ (Head(q).old \/ Head(q).age = 0)
  BY HeadTail DEF PromptIn
<1>3. \A a \in Nat : NotAfter(q, a) => NotAfter(Tail(q), a) /\ Head(q).age <= a
  BY HeadTail DEF NotAfter
<1> QED BY <1>1, <1>2, <1>3

(* What is appended may be any snapshot as young as the others.             *)
LEMMA AppendKeeps ==
  ASSUME NEW q \in Seq(Snapshot), NEW s \in Snapshot
  PROVE  /\ Append(q, s) \in Seq(Snapshot) /\ Len(Append(q, s)) = Len(q) + 1
         /\ Ordered(q) /\ (\A i \in 1..Len(q) : s.age <= q[i].age) => Ordered(Append(q, s))
         /\ PromptIn(q) /\ (s.old \/ s.age = 0) => PromptIn(Append(q, s))
         /\ \A a \in Nat : NotAfter(q, a) /\ s.age <= a => NotAfter(Append(q, s), a)
<1>1. /\ Append(q, s) \in Seq(Snapshot) /\ Len(Append(q, s)) = Len(q) + 1 /\ Len(q) \in Nat
      /\ \A i \in 1..(Len(q) + 1) :
           Append(q, s)[i] = IF i = Len(q) + 1 THEN s ELSE q[i]
      /\ \A i \in 1..(Len(q) + 1) : i # Len(q) + 1 => i \in 1..Len(q) /\ q[i] \in Snapshot
  OBVIOUS
<1>2. s.age \in Nat /\ s.age <= s.age
  BY SnapshotHas
<1>3. Ordered(q) /\ (\A i \in 1..Len(q) : s.age <= q[i].age) => Ordered(Append(q, s))
  BY <1>1, <1>2 DEF Ordered
<1>4. PromptIn(q) /\ (s.old \/ s.age = 0) => PromptIn(Append(q, s))
  BY <1>1 DEF PromptIn
<1>5. \A a \in Nat : NotAfter(q, a) /\ s.age <= a => NotAfter(Append(q, s), a)
  BY <1>1 DEF NotAfter
<1> QED BY <1>1, <1>3, <1>4, <1>5

-----------------------------------------------------------------------------
LEMMA InitIInv == ASSUME Init PROVE IInv
<1>1. /\ {hostUp, server, link, carries, connected} \subseteq BOOLEAN
      /\ pump \in {"none", "ready", "written"} /\ label \in Promise!Labels
  BY DEF Init, Host!Init, Promise!Labels
<1>2. recvAge \in 0..MaxAge /\ maintIn \in 0..MaintEvery
  BY Constants DEF Init
<1>3. usage \in Option(Snapshot) /\ latest \in Option(Snapshot)
  BY OptionHas, Zenon DEF Init
<1>4. ble \in Option(BleState)
  BY DEF Init, FirstSignal, Option, Promise!Option, BleState
<1>5. /\ queue \in Seq(Snapshot) /\ Len(queue) <= QCap
      /\ air \in Seq(Snapshot) /\ Len(air) <= AirCap
      /\ recv \in Seq(Snapshot) /\ Len(recv) <= RecvCap
  BY Constants DEF Init, Host!Init
<1>6. PromptFrames /\ InOrder /\ Lent /\ Carried
  BY DEF Init, Host!Init, PromptFrames, InOrder, Lent, Carried, PromptIn, Ordered, NotAfter,
         NeitherAfter
<1> QED BY <1>1, <1>2, <1>3, <1>4, <1>5, <1>6 DEF TypeOK, IInv

(* Signals of the peripheral.                                               *)
LEMMA SignalIs ==
  /\ {} \in Option(BleState)
  /\ {"Connected"} \in Option(BleState)
  /\ AdvertisingSignal \in Option(BleState)
  /\ FirstSignal \in Option(BleState) /\ FirstSignal' \in Option(BleState)
BY DEF Option, Promise!Option, BleState, AdvertisingSignal, FirstSignal

(* Every age on the way is a number.                                        *)
LEMMA AgesAre ==
  ASSUME TypeOK
  PROVE  /\ \A i \in 1..Len(queue) : queue[i].age \in Nat /\ queue[i].age \in 0..MaxAge
         /\ \A i \in 1..Len(air) : air[i].age \in Nat
         /\ \A i \in 1..Len(recv) : recv[i].age \in Nat
         /\ \A u \in usage : u \in Snapshot /\ u.age \in Nat
         /\ \A t \in latest : t \in Snapshot /\ t.age \in 0..MaxAge /\ t.age \in Nat
<1>1. \A i \in 1..Len(queue) : queue[i] \in Snapshot
  BY DEF TypeOK
<1>2. /\ \A i \in 1..Len(air) : air[i] \in Snapshot
      /\ \A i \in 1..Len(recv) : recv[i] \in Snapshot
  BY DEF TypeOK
<1>3. (\A u \in usage : u \in Snapshot) /\ (\A t \in latest : t \in Snapshot)
  BY OptionHas DEF TypeOK
<1> QED BY <1>1, <1>2, <1>3, SnapshotHas

(* A step of the host changes what is on its way to the device, and nothing *)
(* of the device.                                                           *)
LEMMA HostChanges ==
  ASSUME IInv, UNCHANGED <<link, recv, usage, server, ble, connected, latest, recvAge,
                           label, maintIn>>,
         pump' \in {"none", "ready", "written"}, hostUp' \in BOOLEAN,
         carries' = carries \/ carries' = FALSE,
         queue' \in Seq(Snapshot), Len(queue') <= QCap, Ordered(queue'),
         air' \in Seq(Snapshot), Len(air') <= AirCap, Ordered(air'), PromptIn(air'),
         \A a \in Nat : NotAfter(queue, a) => NotAfter(queue', a),
         \A a \in Nat : NotAfter(air, a) /\ NotAfter(queue, a) => NotAfter(air', a),
         \A i \in 1..Len(air') : NotAfter(queue', air'[i].age),
         pump' # "none" /\ carries' =>
           \/ PromptIn(queue')
           \/ pump # "none" /\ (PromptIn(queue) => PromptIn(queue')),
         pump' = "written" => queue' # <<>>,
         air' # <<>> => carries'
  PROVE  IInv'
<1>1. TypeOK'
  <2>1. carries' \in BOOLEAN
    BY DEF IInv, TypeOK
  <2> QED BY <2>1 DEF IInv, TypeOK
<1>5. Lent' /\ Carried'
  BY DEF IInv, Lent, Carried
<1>2. PromptFrames'
  BY DEF IInv, PromptFrames, PromptIn
<1>3. \A a \in Nat : NeitherAfter(air, queue, a) => NeitherAfter(air', queue', a)
  BY DEF NeitherAfter
<1>4. InOrder'
  <2>1. /\ \A i \in 1..Len(recv) : NeitherAfter(air', queue', recv[i].age)
        /\ \A u \in usage : NeitherAfter(air', queue', u.age)
        /\ \A t \in latest : NeitherAfter(air', queue', t.age)
    <3>1. /\ \A i \in 1..Len(recv) : NeitherAfter(air, queue, recv[i].age) /\ recv[i].age \in Nat
          /\ \A u \in usage : NeitherAfter(air, queue, u.age) /\ u.age \in Nat
          /\ \A t \in latest : NeitherAfter(air, queue, t.age) /\ t.age \in Nat
      BY AgesAre DEF IInv, InOrder
    <3> QED BY <1>3, <3>1 DEF NeitherAfter
  <2> QED BY <2>1 DEF IInv, InOrder, Ordered, NotAfter, NeitherAfter
<1> QED BY <1>1, <1>2, <1>4, <1>5 DEF IInv

(* Nothing of what is in flight changes.                                    *)
LEMMA QueueChanges ==
  ASSUME IInv, UNCHANGED <<link, carries, air, recv, usage, server, ble, connected, latest,
                           recvAge, label, maintIn>>,
         pump' \in {"none", "ready", "written"}, hostUp' \in BOOLEAN,
         queue' \in Seq(Snapshot), Len(queue') <= QCap, Ordered(queue'),
         \A a \in Nat : NotAfter(queue, a) => NotAfter(queue', a),
         pump' # "none" /\ carries =>
           pump # "none" /\ (PromptIn(queue) => PromptIn(queue')),
         pump' = "written" => queue' # <<>>
  PROVE  IInv'
<1>1. /\ air' \in Seq(Snapshot) /\ Len(air') <= AirCap /\ Ordered(air') /\ PromptIn(air')
      /\ air' # <<>> => carries'
  BY DEF IInv, TypeOK, InOrder, PromptFrames, Carried
<1>2. \A i \in 1..Len(air') : NotAfter(queue', air'[i].age)
  BY AgesAre DEF IInv, InOrder
<1>3. \A a \in Nat : NotAfter(air, a) /\ NotAfter(queue, a) => NotAfter(air', a)
  OBVIOUS
<1> QED BY <1>1, <1>2, <1>3, HostChanges

(* Frames that are marked keep their ages, and are all left over.           *)
LEMMA AllOldKeeps ==
  ASSUME NEW q \in Seq(Snapshot)
  PROVE  /\ Host!AllOld(q) \in Seq(Snapshot) /\ Len(Host!AllOld(q)) = Len(q)
         /\ \A i \in 1..Len(q) : Host!AllOld(q)[i].age = q[i].age /\ Host!AllOld(q)[i].old = TRUE
         /\ PromptIn(Host!AllOld(q))
         /\ Ordered(q) => Ordered(Host!AllOld(q))
         /\ \A a \in Nat : NotAfter(q, a) => NotAfter(Host!AllOld(q), a)
<1> DEFINE r == Host!AllOld(q)
<1>1. \A i \in 1..Len(q) :
        /\ [q[i] EXCEPT !.old = TRUE] \in Snapshot
        /\ [q[i] EXCEPT !.old = TRUE].age = q[i].age
        /\ [q[i] EXCEPT !.old = TRUE].old = TRUE
  <2> SUFFICES ASSUME NEW s \in Snapshot
               PROVE  /\ [s EXCEPT !.old = TRUE] \in Snapshot
                      /\ [s EXCEPT !.old = TRUE].age = s.age
                      /\ [s EXCEPT !.old = TRUE].old = TRUE
    OBVIOUS
  <2> QED BY DEF Snapshot, Promise!Snapshot
<1>2. Len(q) \in Nat
  OBVIOUS
<1>3. r = [i \in 1..Len(q) |-> [q[i] EXCEPT !.old = TRUE]]
  BY DEF Host!AllOld
<1> HIDE DEF r
<1>4. r \in Seq(Snapshot) /\ Len(r) = Len(q)
  BY <1>1, <1>2, <1>3, IsASeq
<1>5. \A i \in 1..Len(q) : r[i].age = q[i].age /\ r[i].old = TRUE
  BY <1>1, <1>3
<1>6. /\ PromptIn(r) /\ (Ordered(q) => Ordered(r))
      /\ \A a \in Nat : NotAfter(q, a) => NotAfter(r, a)
  BY <1>4, <1>5 DEF PromptIn, Ordered, NotAfter
<1> QED BY <1>4, <1>5, <1>6 DEF r

LEMMA HostIInv == ASSUME IInv, HostStep PROVE IInv'
<1> USE DEF HostStep, device, ui, connection
<1>0. /\ queue \in Seq(Snapshot) /\ Len(queue) <= QCap /\ Ordered(queue)
      /\ air \in Seq(Snapshot) /\ Len(air) <= AirCap /\ Ordered(air) /\ PromptIn(air)
      /\ \A i \in 1..Len(air) : NotAfter(queue, air[i].age) /\ air[i].age \in Nat
      /\ pump \in {"none", "ready", "written"} /\ hostUp \in BOOLEAN
  BY AgesAre DEF IInv, TypeOK, InOrder, PromptFrames
<1>1. link' = link /\ UNCHANGED <<recv, usage, server, ble, connected, latest, recvAge,
                                 label, maintIn>>
  BY DEF Host!Writes, Host!Releases, Host!WriteFails, Host!GoesDown, Host!PumpAborted,
         Host!Attaches, Host!Breaks, Host!Restarts, Host!connection
<1>2. ASSUME queue' = queue, hostUp' \in BOOLEAN, pump' = pump \/ pump' = "none",
             UNCHANGED <<carries, air>>
      PROVE  IInv'
  <2>1. pump' = "written" => queue' # <<>>
    BY <1>0, <1>2 DEF IInv, Lent
  <2>2. \A a \in Nat : NotAfter(queue, a) => NotAfter(queue', a)
    BY <1>2
  <2>3. Ordered(queue') /\ pump' \in {"none", "ready", "written"}
    BY <1>0, <1>2
  <2> QED BY <1>0, <1>2, <1>1, <2>1, <2>2, <2>3, QueueChanges
<1>3. ASSUME queue # <<>>, queue' = Tail(queue), hostUp' \in BOOLEAN,
             pump # "none", pump' \in {"none", "ready"}, UNCHANGED <<carries, air>>
      PROVE  IInv'
  <2>1. queue' \in Seq(Snapshot) /\ Len(queue') <= QCap
    BY <1>0, <1>3, HeadTail, Constants
  <2>2. Ordered(queue') /\ (PromptIn(queue) => PromptIn(queue'))
        /\ \A a \in Nat : NotAfter(queue, a) => NotAfter(queue', a)
    BY <1>0, <1>3, TailKeeps
  <2> QED BY <1>3, <1>1, <2>1, <2>2, QueueChanges
<1>4. CASE Host!Releases \/ Host!WriteFails
  BY <1>0, <1>3, <1>4
     DEF Host!Releases, Host!WriteFails, Host!AfterFailedWrite, Host!connection, IInv, Lent
<1>5. CASE Host!GoesDown
  BY <1>2, <1>5 DEF Host!GoesDown, Host!connection
<1>6. CASE Host!PumpAborted
  BY <1>0, <1>2, <1>3, <1>6 DEF Host!PumpAborted, Host!connection, IInv, Lent
<1>7. CASE Host!Attaches
  <2>1. /\ queue' = Host!AllOld(queue) /\ air' = Host!AllOld(air)
        /\ hostUp' \in BOOLEAN /\ pump' = "ready" /\ UNCHANGED <<link, carries>>
    BY <1>7 DEF Host!Attaches
  <2>2. /\ queue' \in Seq(Snapshot) /\ Len(queue') = Len(queue)
        /\ Ordered(queue') /\ PromptIn(queue')
        /\ \A a \in Nat : NotAfter(queue, a) => NotAfter(queue', a)
    BY <1>0, <2>1, AllOldKeeps
  <2>3. /\ air' \in Seq(Snapshot) /\ Len(air') = Len(air)
        /\ Ordered(air') /\ PromptIn(air')
        /\ \A i \in 1..Len(air) : air'[i].age = air[i].age
        /\ \A a \in Nat : NotAfter(air, a) => NotAfter(air', a)
    BY <1>0, <2>1, AllOldKeeps
  <2>4. \A i \in 1..Len(air') : NotAfter(queue', air'[i].age)
    BY <1>0, <2>2, <2>3
  <2>5. air' # <<>> => carries'
    <3>1. Len(air) # 0 => air # <<>>
      OBVIOUS
    <3>2. air' # <<>> => Len(air') # 0
      BY <2>3
    <3> QED BY <2>1, <2>3, <3>1, <3>2 DEF IInv, Carried
  <2>6. Len(queue') <= QCap /\ Len(air') <= AirCap
    BY <1>0, <2>2, <2>3
  <2> HIDE DEF HostStep
  <2> QED BY <1>1, <2>1, <2>2, <2>3, <2>4, <2>5, <2>6, HostChanges
<1>8. CASE Host!Restarts
  <2>1. queue' = <<>> /\ hostUp' \in BOOLEAN /\ pump' = "none" /\ UNCHANGED <<carries, air>>
    BY <1>8 DEF Host!Restarts, Host!connection
  <2>2. queue' \in Seq(Snapshot) /\ Len(queue') <= QCap
    BY <2>1, Constants
  <2>3. Ordered(queue') /\ \A a \in Nat : NotAfter(queue', a)
    BY <2>1 DEF Ordered, NotAfter
  <2> QED BY <1>1, <2>1, <2>2, <2>3, QueueChanges
<1>9. CASE Host!Writes
  <2>1. /\ queue # <<>> /\ pump = "ready" /\ pump' = "written"
        /\ UNCHANGED <<queue, hostUp, link, carries>>
    BY <1>9 DEF Host!Writes
  <2>2. CASE carries
    <3>1. Len(air) < AirCap /\ air' = Append(air, Head(queue))
      BY <1>9, <2>2 DEF Host!Writes
    <3>2. /\ Head(queue) \in Snapshot /\ (Head(queue).old \/ Head(queue).age = 0)
          /\ \A i \in 1..Len(air) : Head(queue).age <= air[i].age
          /\ \A a \in Nat : NotAfter(queue, a) => Head(queue).age <= a
      BY <1>0, <2>1, <2>2, HeadTail, TailKeeps DEF IInv, PromptFrames
    <3>3. /\ air' \in Seq(Snapshot) /\ Len(air') = Len(air) + 1 /\ Len(air) \in Nat
          /\ Ordered(air') /\ PromptIn(air')
          /\ \A a \in Nat : NotAfter(air, a) /\ NotAfter(queue, a) => NotAfter(air', a)
      BY <1>0, <3>1, <3>2, AppendKeeps
    <3>4. NotAfter(queue, Head(queue).age)
      BY <1>0, <2>1, HeadTail DEF Ordered, NotAfter
    <3>5. \A i \in 1..Len(air') : NotAfter(queue', air'[i].age)
      <4>1. \A i \in 1..Len(air') : \/ air'[i] = Head(queue)
                                    \/ i \in 1..Len(air) /\ air'[i] = air[i]
        BY <1>0, <3>1, <3>2, <3>3
      <4> QED BY <1>0, <2>1, <3>4, <4>1
    <3>6. Len(air') <= AirCap
      BY <3>1, <3>3, Constants
    <3> HIDE DEF HostStep
    <3> QED BY <1>0, <1>1, <2>1, <2>2, <3>3, <3>5, <3>6, HostChanges
  <2>3. CASE ~carries
    <3>1. UNCHANGED <<carries, air>>
      BY <1>9, <2>1, <2>3 DEF Host!Writes
    <3>2. \A a \in Nat : NotAfter(queue, a) => NotAfter(queue', a)
      BY <2>1
    <3> QED BY <1>0, <1>1, <2>1, <2>3, <3>1, <3>2, QueueChanges
  <2> QED BY <2>2, <2>3
<1>10. CASE Host!Breaks
  <2>1. /\ carries' = FALSE /\ air' = <<>> /\ Len(air') = 0
        /\ UNCHANGED <<queue, hostUp, pump, link>>
    BY <1>10 DEF Host!Breaks
  <2>2. /\ air' \in Seq(Snapshot) /\ Len(air') <= AirCap
        /\ Ordered(air') /\ PromptIn(air') /\ \A a \in Nat : NotAfter(air', a)
        /\ \A i \in 1..Len(air') : NotAfter(queue', air'[i].age)
    BY <2>1, Constants DEF Ordered, PromptIn, NotAfter
  <2>3. \A a \in Nat : NotAfter(queue, a) => NotAfter(queue', a)
    BY <2>1
  <2>4. pump' = "written" => queue' # <<>>
    BY <2>1 DEF IInv, Lent
  <2> QED BY <1>0, <1>1, <2>1, <2>2, <2>3, <2>4, HostChanges
<1> QED BY <1>4, <1>5, <1>6, <1>7, <1>8, <1>9, <1>10

LEMMA NextIInv == ASSUME IInv, [Next]_vars PROVE IInv'
<1> USE DEF IInv, connection
<1>0. /\ queue \in Seq(Snapshot) /\ air \in Seq(Snapshot) /\ recv \in Seq(Snapshot)
      /\ usage \in Option(Snapshot) /\ latest \in Option(Snapshot)
  BY DEF TypeOK
<1>1. CASE UNCHANGED vars
  BY <1>1 DEF vars, TypeOK, PromptFrames, InOrder, Lent, Carried, PromptIn, Ordered, NotAfter,
              NeitherAfter
<1>2. CASE Publishes
  <2>1. /\ JustPolled \in Snapshot /\ queue' = Append(queue, JustPolled)
        /\ UNCHANGED <<hostUp, pump, connection, device, ble, ui>>
    BY <1>2, Constants
    DEF Publishes, Host!Publishes, Host!connection, JustPolled, Snapshot, Promise!Snapshot
  <2>2. (JustPolled.old \/ JustPolled.age = 0) /\ \A a \in Nat : JustPolled.age <= a
    BY DEF JustPolled
  <2>3. Len(queue') <= QCap /\ queue' \in Seq(Snapshot) /\ queue' # <<>>
    BY <1>0, <1>2, <2>1, AppendKeeps, Constants DEF Publishes, Host!Publishes
  <2>4. Ordered(queue') /\ (PromptIn(queue) => PromptIn(queue'))
        /\ \A a \in Nat : NotAfter(queue, a) => NotAfter(queue', a)
    BY <1>0, <2>1, <2>2, AgesAre, AppendKeeps DEF InOrder
  <2>5. UNCHANGED <<link, carries, air, recv, usage, server, ble, connected, latest,
                    recvAge, label, maintIn>>
    BY <2>1 DEF device, ui
  <2>6. pump' \in {"none", "ready", "written"} /\ hostUp' \in BOOLEAN /\ pump' = pump
    BY <2>1 DEF TypeOK
  <2> HIDE DEF IInv
  <2> QED BY <2>3, <2>4, <2>5, <2>6, QueueChanges
<1>3. CASE Delivers
  <2>1. /\ Head(air) \in Snapshot
        /\ PromptIn(air) /\ (Head(air).old \/ Head(air).age = 0)
        /\ air' \in Seq(Snapshot) /\ Len(air') <= AirCap
        /\ Ordered(air') /\ PromptIn(air') /\ NotAfter(air', Head(air).age)
        /\ \A a \in Nat : NotAfter(air, a) => NotAfter(air', a) /\ Head(air).age <= a
        /\ NotAfter(queue, Head(air).age)
        /\ \A i \in 1..Len(air') : NotAfter(queue, air'[i].age)
    <3>1. air # <<>> /\ air' = Tail(air)
      BY <1>3 DEF Delivers, Host!Delivers
    <3>2. Len(air') <= AirCap
      BY <1>0, <3>1, HeadTail, Constants DEF TypeOK
    <3> QED BY <1>0, <3>1, <3>2, HeadTail, TailKeeps DEF PromptFrames, InOrder
  <2>2. /\ recv' \in Seq(Snapshot) /\ Len(recv') <= RecvCap
        /\ Ordered(recv') /\ PromptIn(recv')
        /\ \A a \in Nat : NotAfter(recv, a) /\ Head(air).age <= a => NotAfter(recv', a)
        /\ \A i \in 1..Len(recv') : \/ recv'[i] = Head(air)
                                    \/ i \in 1..Len(recv) /\ recv'[i] = recv[i]
    <3>1. CASE Len(recv) < RecvCap
      <4>1. recv' = Append(recv, Head(air))
        BY <1>3, <3>1 DEF Delivers, Received
      <4>2. \A i \in 1..Len(recv) : Head(air).age <= recv[i].age
        BY <2>1, AgesAre DEF InOrder, NeitherAfter
      <4>3. Len(recv') <= RecvCap
        BY <1>0, <2>1, <3>1, <4>1, AppendKeeps, Constants
      <4>4. \A i \in 1..Len(recv') : \/ recv'[i] = Head(air)
                                     \/ i \in 1..Len(recv) /\ recv'[i] = recv[i]
        BY <1>0, <2>1, <4>1
      <4> QED BY <1>0, <2>1, <4>1, <4>2, <4>3, <4>4, AppendKeeps DEF PromptFrames, InOrder
    <3>2. CASE ~(Len(recv) < RecvCap)
      <4>1. recv' = recv
        BY <1>3, <3>2 DEF Delivers, Received
      <4> QED BY <4>1 DEF TypeOK, PromptFrames, InOrder
    <3> QED BY <3>1, <3>2
  <2>3. UNCHANGED <<queue, hostUp, pump, link, carries, usage, server, ble, ui>> /\ carries
    BY <1>3 DEF Delivers, Host!Delivers
  <2>4. TypeOK' /\ Lent' /\ Carried'
    BY <2>1, <2>2, <2>3 DEF TypeOK, Lent, Carried, ui
  <2>5. PromptFrames'
    BY <2>1, <2>2, <2>3 DEF PromptFrames, PromptIn
  <2>6. \A a \in Nat : NeitherAfter(air, queue, a) => NeitherAfter(air', queue', a) /\ Head(air).age <= a
    BY <2>1, <2>3 DEF NeitherAfter, NotAfter
  <2>7. \A i \in 1..Len(recv') : NeitherAfter(air', queue', recv'[i].age)
    <3>1. NeitherAfter(air', queue', Head(air).age)
      BY <2>1, <2>3 DEF NeitherAfter, NotAfter
    <3>2. \A i \in 1..Len(recv) : NeitherAfter(air', queue', recv[i].age)
      BY <2>6, AgesAre DEF InOrder, NeitherAfter
    <3> QED BY <2>2, <3>1, <3>2 DEF NeitherAfter
  <2>8. \A u \in usage : NotAfter(recv', u.age) /\ NeitherAfter(air', queue', u.age)
    BY <2>2, <2>6, AgesAre DEF InOrder, NeitherAfter
  <2>9. \A t \in latest : NotAfter(recv', t.age) /\ NeitherAfter(air', queue', t.age)
    BY <2>2, <2>6, AgesAre DEF InOrder, NeitherAfter
  <2>10. InOrder'
    BY <2>1, <2>2, <2>3, <2>7, <2>8, <2>9 DEF InOrder, Ordered, NotAfter, ui
  <2> QED BY <2>4, <2>5, <2>10
<1>4. CASE HostStep
  <2> HIDE DEF IInv
  <2> QED BY <1>4, HostIInv
<1>5. CASE Connects
  <2>1. /\ pump = "none" /\ UNCHANGED <<queue, hostUp, pump, air, device, ui>>
        /\ link' = TRUE /\ carries' = TRUE
    BY <1>5 DEF Connects, Host!Links
  <2>2. ble' \in Option(BleState)
    BY <1>5, SignalIs DEF Connects
  <2>3. TypeOK'
    BY <2>1, <2>2 DEF TypeOK, device, ui
  <2>4. PromptFrames' /\ InOrder' /\ Lent' /\ Carried'
    BY <2>1 DEF PromptFrames, InOrder, Lent, Carried, PromptIn, Ordered, NotAfter,
           NeitherAfter, device, ui
  <2> QED BY <2>3, <2>4
<1>6. CASE Disconnects \/ AdvertisingFails
  <2>1. ble' \in Option(BleState)
    BY <1>6, SignalIs DEF Disconnects, AdvertisingFails
  <2>2. /\ UNCHANGED <<host, device, ui>>
        /\ \/ UNCHANGED <<link, carries, air>>
           \/ link' = FALSE /\ carries' = FALSE /\ air' = <<>> /\ Len(air') = 0
    BY <1>6 DEF Disconnects, Host!Disconnects, AdvertisingFails, host
  <2>5. air' \in Seq(Snapshot) /\ Len(air') <= AirCap
    <3>1. <<>> \in Seq(Snapshot)
      OBVIOUS
    <3>2. CASE air' = <<>> /\ Len(air') = 0
      BY <3>1, <3>2, Constants
    <3>3. CASE air' = air
      BY <3>3 DEF TypeOK
    <3> QED BY <2>2, <3>2, <3>3
  <2>3. TypeOK'
    BY <2>1, <2>2, <2>5 DEF TypeOK, host, device, ui
  <2>4. PromptFrames' /\ InOrder' /\ Lent' /\ Carried'
    BY <2>2 DEF PromptFrames, InOrder, Lent, Carried, PromptIn, Ordered, NotAfter,
           NeitherAfter, host, device, ui
  <2> QED BY <2>2, <2>3, <2>4
<1>7. CASE Restarts
  <2>1. /\ queue' = queue /\ hostUp' = hostUp /\ pump' = pump /\ link' = FALSE
        /\ carries' = FALSE /\ air' = <<>> /\ recv' = <<>> /\ Len(air') = 0
        /\ usage' = {} /\ latest' = {} /\ server' \in BOOLEAN /\ ble' = FirstSignal'
        /\ connected' = FALSE /\ recvAge' = MaxAge /\ label' = "OFFLINE"
        /\ maintIn' = MaintEvery
    BY <1>7 DEF Restarts, Promise!Restarts, host
  <2>2. /\ recv' \in Seq(Snapshot) /\ Len(recv') <= RecvCap
        /\ air' \in Seq(Snapshot) /\ Len(air') <= AirCap
    BY <2>1, Constants
  <2>3. usage' \in Option(Snapshot) /\ latest' \in Option(Snapshot) /\ ble' \in Option(BleState)
    BY <2>1, OptionHas, SignalIs
  <2>4. recvAge' \in 0..MaxAge /\ maintIn' \in 0..MaintEvery /\ label' \in Promise!Labels
    BY <2>1, Constants DEF Promise!Labels
  <2>5. TypeOK'
    BY <2>1, <2>2, <2>3, <2>4 DEF TypeOK
  <2>6. PromptFrames' /\ InOrder' /\ Lent' /\ Carried'
    BY <2>1 DEF PromptFrames, InOrder, Lent, Carried, PromptIn, Ordered, NotAfter,
           NeitherAfter
  <2> QED BY <2>5, <2>6
<1>8. CASE Forwards
  <2>1. recv # <<>> /\ usage' = {Head(recv)} /\ recv' = Tail(recv)
        /\ UNCHANGED <<queue, hostUp, pump, connection, server, ble, connected, latest,
                       recvAge, label, maintIn>>
    BY <1>8 DEF Forwards, host, ui
  <2>2. Head(recv) \in Snapshot /\ Head(recv) = recv[1] /\ 1 \in 1..Len(recv)
        /\ recv' \in Seq(Snapshot) /\ Len(recv') <= RecvCap
        /\ \A i \in 1..Len(recv') : recv'[i] = recv[i + 1] /\ i + 1 \in 1..Len(recv)
    BY <1>0, <2>1, HeadTail, Constants DEF TypeOK
  <2>3. usage' \in Option(Snapshot)
    BY <2>1, <2>2, OptionHas
  <2>4. TypeOK'
    BY <2>1, <2>2, <2>3 DEF TypeOK
  <2>5. /\ Ordered(recv') /\ NotAfter(recv', Head(recv).age)
        /\ PromptIn(recv') /\ (Head(recv).old \/ Head(recv).age = 0)
        /\ \A a \in Nat : NotAfter(recv, a) => NotAfter(recv', a) /\ Head(recv).age <= a
    BY <1>0, <2>1, TailKeeps DEF PromptFrames, InOrder
  <2>6. PromptFrames' /\ Lent' /\ Carried'
    BY <2>1, <2>5 DEF PromptFrames, PromptIn, Lent, Carried
  <2>7. /\ NeitherAfter(air, queue, Head(recv).age)
        /\ \A i \in 1..Len(recv') : NeitherAfter(air, queue, recv'[i].age)
    BY <2>2 DEF InOrder
  <2>8. \A t \in latest : /\ Head(recv).age <= t.age
                         /\ NotAfter(recv', t.age) /\ NeitherAfter(air, queue, t.age)
    BY <2>5, AgesAre DEF InOrder
  <2>9. InOrder'
    BY <2>1, <2>5, <2>7, <2>8 DEF InOrder, Ordered, NotAfter, NeitherAfter
  <2> QED BY <2>4, <2>6, <2>9
<1>9. CASE Maintenance
  <2>1. label' \in Promise!Labels /\ maintIn' \in 0..MaintEvery
    BY <1>9, LabelIs, Constants DEF Maintenance, LabelAtMaintenance
  <2>2. TypeOK'
    BY <1>9, <2>1 DEF Maintenance, TypeOK, host, device
  <2>3. PromptFrames' /\ InOrder' /\ Lent' /\ Carried'
    BY <1>9 DEF Maintenance, PromptFrames, InOrder, Lent, Carried, PromptIn, Ordered, NotAfter,
           NeitherAfter, host, device
  <2> QED BY <2>2, <2>3
<1>10. CASE BleEvent
  <2>1. label' \in Promise!Labels
    BY <1>10, LabelIs DEF BleEvent
  <2>2. ble' \in Option(BleState) /\ recvAge' \in 0..MaxAge
    BY <1>10, SignalIs DEF BleEvent, AgeAfterBle, TypeOK
  <2>3. connected' \in BOOLEAN
    BY <1>10 DEF BleEvent
  <2>4. TypeOK'
    BY <1>10, <2>1, <2>2, <2>3 DEF BleEvent, TypeOK, host, device
  <2>5. PromptFrames' /\ InOrder' /\ Lent' /\ Carried'
    BY <1>10 DEF BleEvent, PromptFrames, InOrder, Lent, Carried, PromptIn, Ordered, NotAfter,
           NeitherAfter, host, device
  <2> QED BY <2>4, <2>5
<1>11. CASE UsageEvent
  <2>1. label' \in Promise!Labels
    BY <1>11, LabelIs DEF UsageEvent
  <2>2. usage' \in Option(Snapshot) /\ latest' \in Option(Snapshot) /\ recvAge' \in 0..MaxAge
    BY <1>0, <1>11, OptionHas, Constants DEF UsageEvent
  <2>3. TypeOK'
    BY <1>11, <2>1, <2>2 DEF UsageEvent, TypeOK, host
  <2>4. PromptFrames' /\ InOrder' /\ Lent' /\ Carried'
    BY <1>11 DEF UsageEvent, PromptFrames, InOrder, Lent, Carried, PromptIn, Ordered, NotAfter,
           NeitherAfter, host
  <2> QED BY <2>3, <2>4
<1>12. CASE RtcEvent
  <2>1. label' \in Promise!Labels
    BY <1>12, LabelIs DEF RtcEvent
  <2>2. TypeOK'
    BY <1>12, <2>1 DEF RtcEvent, TypeOK, host, device
  <2>3. PromptFrames' /\ InOrder' /\ Lent' /\ Carried'
    BY <1>12 DEF RtcEvent, PromptFrames, InOrder, Lent, Carried, PromptIn, Ordered, NotAfter,
           NeitherAfter, host, device
  <2> QED BY <2>2, <2>3
<1>13. CASE Tick
  <2>1. /\ maintIn > 0 /\ usage = {} /\ recv = <<>> /\ air = <<>>
        /\ pump # "written" /\ (pump = "ready" /\ carries => queue = <<>>)
        /\ maintIn' = maintIn - 1 /\ recvAge' = Older(recvAge)
        /\ latest' = {Aged(s) : s \in latest}
        /\ queue' = [i \in 1..Len(queue) |-> Aged(queue[i])]
        /\ UNCHANGED <<hostUp, pump, link, carries, air, recv, usage, server, ble, connected, label>>
    BY <1>13 DEF Tick, Prompt, device
  <2>2. \A i \in 1..Len(queue) : Aged(queue[i]) \in Snapshot /\ Aged(queue[i]).age = Older(queue[i].age)
    BY <1>0, AgedIs
  <2>3. Len(queue) \in Nat
    BY <1>0
  <2>4. queue' \in Seq(Snapshot) /\ Len(queue') = Len(queue)
    BY <2>1, <2>2, <2>3, IsASeq
  <2>5. \A i \in 1..Len(queue') : i \in 1..Len(queue) /\ queue'[i].age = Older(queue[i].age)
    BY <2>1, <2>2, <2>4
  <2>6. latest' \in Option(Snapshot)
    <3>1. CASE latest = {}
      <4>1. latest' = {}
        BY <2>1, <3>1
      <4> QED BY <4>1, OptionHas, Zenon
    <3>2. ASSUME NEW s \in Snapshot, latest = {s} PROVE latest' \in Option(Snapshot)
      <4>1. latest' = {Aged(s)}
        BY <2>1, <3>2
      <4> QED BY <4>1, AgedIs, OptionHas
    <3> QED BY <1>0, <3>1, <3>2, OptionHas
  <2>7. recvAge' \in 0..MaxAge /\ maintIn' \in 0..MaintEvery
    BY <2>1, OlderIs, Constants DEF TypeOK
  <2>8. TypeOK'
    BY <2>1, <2>4, <2>6, <2>7 DEF TypeOK
  <2>9. PromptFrames' /\ Lent' /\ Carried'
    <3>1. pump # "none" => pump = "ready"
      BY <2>1 DEF TypeOK
    <3> QED BY <2>1, <2>4, <3>1 DEF PromptFrames, PromptIn, Lent, Carried
  <2>10. Ordered(queue')
    BY <2>5, AgesAre, OlderIs DEF InOrder, Ordered
  <2>11. \A t \in latest' : NotAfter(queue', t.age)
    <3> SUFFICES ASSUME NEW t \in latest, NEW i \in 1..Len(queue')
                 PROVE  queue'[i].age <= Aged(t).age
      BY <2>1 DEF NotAfter
    <3>1. i \in 1..Len(queue) /\ queue[i].age <= t.age
      BY <2>5 DEF InOrder, NotAfter, NeitherAfter
    <3> QED BY <2>5, <3>1, AgesAre, AgedIs, OlderIs
  <2>12. InOrder'
    <3>1. usage' = {} /\ recv' = <<>> /\ Len(recv') = 0 /\ air' = <<>> /\ Len(air') = 0
      BY <2>1
    <3>2. Ordered(recv') /\ Ordered(air')
      BY <3>1 DEF Ordered
    <3>3. \A t \in latest' : NotAfter(recv', t.age) /\ NotAfter(air', t.age)
      BY <3>1 DEF NotAfter
    <3> QED BY <2>10, <2>11, <3>1, <3>2, <3>3 DEF InOrder, NeitherAfter
  <2> QED BY <2>8, <2>9, <2>12
<1> QED BY <1>1, <1>2, <1>3, <1>4, <1>5, <1>6, <1>7, <1>8, <1>9, <1>10,
           <1>11, <1>12, <1>13 DEF Next

THEOREM SpecIInv == Spec => []IInv
BY InitIInv, NextIInv, PTL DEF Spec

(* Every queue and signal of the feed keeps its type and its bound.         *)
THEOREM SpecTypeOK == Spec => []TypeOK
<1>1. IInv => TypeOK
  BY DEF IInv
<1> QED BY <1>1, SpecIInv, PTL

-----------------------------------------------------------------------------
(* What reaches the dial is acceptable to the promise, for it is as young   *)
(* as what the dial shows, and prompt or left over.                         *)
LEMMA ArrivesAcceptable ==
  ASSUME IInv, NEW s \in usage
  PROVE  s \in Promise!Snapshot /\ Promise!Acceptable(s)
<1>1. s \in Snapshot
  BY AgesAre DEF IInv
<1>2. s.old \/ s.age = 0
  BY DEF IInv, PromptFrames
<1>3. \A t \in latest : s.age <= t.age
  BY DEF IInv, InOrder
<1> QED BY <1>1, <1>2, <1>3 DEF Snapshot, Promise!Acceptable

LEMMA StepKept == ASSUME IInv, [Next]_vars PROVE [Promise!Next]_(Promise!ui)
<1>1. CASE \/ Publishes \/ Delivers \/ HostStep \/ Connects \/ Disconnects
           \/ AdvertisingFails \/ Forwards \/ UNCHANGED vars
  BY <1>1 DEF Publishes, Delivers, HostStep, Connects, Disconnects, AdvertisingFails,
     Forwards, vars, ui, Promise!ui
<1>2. CASE Restarts
  BY <1>2 DEF Restarts, Promise!Next
<1>3. CASE Maintenance
  <2>1. Promise!Maintains
    BY <1>3 DEF Maintenance, LabelAtMaintenance, Label, Promise!Maintains, Promise!Considers
  <2> QED BY <2>1 DEF Promise!Next
<1>4. CASE BleEvent
  <2>1. connected' \in BOOLEAN /\ Promise!Hears(connected')
    BY <1>4 DEF BleEvent, AgeAfterBle, Label, Promise!Hears, Promise!Considers
  <2> QED BY <2>1 DEF Promise!Next
<1>5. CASE UsageEvent
  <2>1. PICK s \in usage : usage = {s}
    BY <1>5, OptionHas DEF UsageEvent, IInv, TypeOK
  <2>2. Promise!Learns(s)
    BY <1>5, <2>1, ArrivesAcceptable DEF UsageEvent, Label, Promise!Learns, Promise!Considers
  <2> QED BY <2>1, <2>2, ArrivesAcceptable DEF Promise!Next
<1>6. CASE RtcEvent
  <2>1. Promise!Reconsiders
    BY <1>6 DEF RtcEvent, Label, Promise!Reconsiders, Promise!Considers
  <2> QED BY <2>1 DEF Promise!Next
<1>7. CASE Tick
  <2>1. Promise!Tick
    BY <1>7 DEF Tick, Prompt, Older, Aged, Promise!Tick
  <2> QED BY <2>1 DEF Promise!Next
<1> QED BY <1>1, <1>2, <1>3, <1>4, <1>5, <1>6, <1>7 DEF Next

(* Implements: the queue, the receiver, the signals and the faults of the   *)
(* link keep the promise that the dial is built on.                         *)
THEOREM SpecImplements == Spec => Implements
<1>1. Init => Promise!Init
  BY DEF Init, Promise!Init
<1>2. IInv /\ [Next]_vars => [Promise!Next]_(Promise!ui)
  BY StepKept
<1> QED BY <1>1, <1>2, SpecIInv, PTL DEF Spec, Implements, Promise!Spec

-----------------------------------------------------------------------------
(* What is kept of the promise, for every timeout and every period of the   *)
(* maintenance ticker.  The label alone does not tell how long it has       *)
(* stood: the invariant bounds it by the time left until the ticker fires.  *)

(* LIVE was right when the ticker last fired, or later.                     *)
LiveStands == label = "LIVE" =>
  /\ recvAge + maintIn < FreshFor + MaintEvery
  /\ latest # {}

(* A prompt snapshot is as old as its arrival.                              *)
PromptAge == \A s \in latest : s.old \/ s.age = recvAge

PromiseInv == Promise!TypeOK /\ LiveStands /\ PromptAge

LEMMA OlderPromised ==
  ASSUME NEW age \in 0..MaxAge
  PROVE  /\ Promise!Older(age) \in 0..MaxAge
         /\ Promise!Older(age) <= age + 1 /\ age <= Promise!Older(age)
BY Constants DEF Promise!Older

LEMMA AgedPromised ==
  ASSUME NEW s \in Promise!Snapshot
  PROVE  /\ Promise!Aged(s) \in Promise!Snapshot
         /\ Promise!Aged(s).age = Promise!Older(s.age) /\ Promise!Aged(s).old = s.old
BY OlderPromised DEF Promise!Snapshot, Promise!Aged

LEMMA PromisedOption ==
  /\ {} \in Promise!Option(Promise!Snapshot)
  /\ \A s \in Promise!Snapshot : {s} \in Promise!Option(Promise!Snapshot)
BY DEF Promise!Option

(* A label that is considered is right at that time.                        *)
LEMMA ConsideredStands ==
  ASSUME Promise!Considers, recvAge' \in 0..MaxAge, maintIn' \in 0..MaintEvery
  PROVE  LiveStands' /\ label' \in Promise!Labels
<1>1. label' = "LIVE" => recvAge' < FreshFor /\ latest' # {}
  BY DEF Promise!Considers, Promise!Label
<1>2. label' \in Promise!Labels
  BY DEF Promise!Considers, Promise!Label, Promise!Labels
<1> QED BY <1>1, <1>2, UsageFeedAssumption DEF LiveStands

LEMMA InitPromiseInv == ASSUME Promise!Init PROVE PromiseInv
<1>1. Promise!TypeOK
  <2>1. latest \in Promise!Option(Promise!Snapshot) /\ label \in Promise!Labels /\ connected \in BOOLEAN
    BY PromisedOption, Zenon DEF Promise!Init, Promise!Labels
  <2>2. recvAge \in 0..MaxAge /\ maintIn \in 0..MaintEvery
    BY Constants DEF Promise!Init
  <2> QED BY <2>1, <2>2 DEF Promise!TypeOK
<1>2. LiveStands /\ PromptAge
  BY DEF Promise!Init, LiveStands, PromptAge
<1> QED BY <1>1, <1>2 DEF PromiseInv

LEMMA NextPromiseInv == ASSUME PromiseInv, [Promise!Next]_(Promise!ui) PROVE PromiseInv'
<1> USE DEF PromiseInv, Promise!TypeOK
<1>1. CASE UNCHANGED Promise!ui
  BY <1>1 DEF Promise!ui, LiveStands, PromptAge
<1>2. ASSUME NEW s \in Promise!Snapshot, Promise!Learns(s) PROVE PromiseInv'
  <2>1. recvAge' \in 0..MaxAge /\ maintIn' \in 0..MaintEvery
    BY Constants, <1>2 DEF Promise!Learns
  <2>2. LiveStands' /\ label' \in Promise!Labels
    BY <1>2, <2>1, ConsideredStands DEF Promise!Learns
  <2>3. PromptAge'
    BY <1>2 DEF Promise!Learns, Promise!Acceptable, PromptAge
  <2> QED BY <1>2, <2>1, <2>2, <2>3 DEF Promise!Learns, Promise!Option
<1>3. ASSUME NEW state \in BOOLEAN, Promise!Hears(state) PROVE PromiseInv'
  <2>1. LiveStands' /\ label' \in Promise!Labels
    BY <1>3, ConsideredStands DEF Promise!Hears
  <2> QED BY <1>3, <2>1 DEF Promise!Hears, PromptAge
<1>4. CASE Promise!Reconsiders
  <2>1. LiveStands' /\ label' \in Promise!Labels
    BY <1>4, ConsideredStands DEF Promise!Reconsiders
  <2> QED BY <1>4, <2>1 DEF Promise!Reconsiders, PromptAge
<1>5. CASE Promise!Maintains
  <2>1. recvAge' \in 0..MaxAge /\ maintIn' \in 0..MaintEvery
    BY Constants, <1>5 DEF Promise!Maintains
  <2>2. LiveStands' /\ label' \in Promise!Labels
    BY <1>5, <2>1, ConsideredStands DEF Promise!Maintains
  <2> QED BY <1>5, <2>1, <2>2 DEF Promise!Maintains, PromptAge
<1>6. CASE Promise!Restarts
  <2>1. Promise!TypeOK'
    <3>1. (latest \in Promise!Option(Promise!Snapshot) /\ label \in Promise!Labels /\ connected \in BOOLEAN)'
      BY <1>6, PromisedOption, Zenon DEF Promise!Restarts, Promise!Labels
    <3>2. (recvAge \in 0..MaxAge /\ maintIn \in 0..MaintEvery)'
      BY Constants, <1>6 DEF Promise!Restarts
    <3> QED BY <3>1, <3>2
  <2>2. LiveStands' /\ PromptAge'
    BY <1>6 DEF Promise!Restarts, LiveStands, PromptAge
  <2> QED BY <2>1, <2>2
<1>7. CASE Promise!Tick
  <2>1. recvAge' \in 0..MaxAge /\ recvAge' <= recvAge + 1
    BY <1>7, OlderPromised DEF Promise!Tick
  <2>2. maintIn' \in 0..MaintEvery /\ maintIn' = maintIn - 1
    BY Constants, <1>7, <2>1 DEF Promise!Tick
  <2>3. LiveStands'
    BY Constants, <1>7, <2>1, <2>2 DEF Promise!Tick, LiveStands
  <2>4. latest' \in Promise!Option(Promise!Snapshot) /\ PromptAge'
    <3>1. CASE latest = {}
      BY <1>7, <3>1 DEF Promise!Tick, Promise!Option, PromptAge
    <3>2. ASSUME NEW s \in Promise!Snapshot, latest = {s}
          PROVE  latest' \in Promise!Option(Promise!Snapshot) /\ PromptAge'
      <4>1. latest' = {Promise!Aged(s)}
        BY <1>7, <3>2 DEF Promise!Tick
      <4>2. s.old \/ Promise!Older(s.age) = Promise!Older(recvAge)
        BY <3>2 DEF PromptAge
      <4> QED BY <1>7, <3>2, <4>1, <4>2, AgedPromised DEF Promise!Tick, Promise!Option, PromptAge
    <3> QED BY <3>1, <3>2 DEF Promise!Option
  <2> QED BY <1>7, <2>1, <2>2, <2>3, <2>4 DEF Promise!Tick
<1> QED BY <1>1, <1>2, <1>3, <1>4, <1>5, <1>6, <1>7 DEF Promise!Next

LEMMA PromisedInv == Promise!Spec => []PromiseInv
<1>1. Promise!Init => PromiseInv
  BY InitPromiseInv
<1>2. PromiseInv /\ [Promise!Next]_(Promise!ui) => PromiseInv'
  BY NextPromiseInv
<1> QED BY <1>1, <1>2, PTL DEF Promise!Spec

(* LIVE never stands longer than the freshness timeout and one period of    *)
(* the maintenance ticker after the last arrival.                           *)
LEMMA PromisedRecent == Promise!Spec => []Promise!LiveMeansRecent
<1>1. PromiseInv => Promise!LiveMeansRecent
  BY Constants DEF PromiseInv, Promise!TypeOK, LiveStands, Promise!LiveMeansRecent
<1> QED BY <1>1, PromisedInv, PTL

(* What is shown as LIVE was polled within two missed polls and a period of *)
(* the maintenance ticker, or an earlier session had left it in the queue.  *)
LEMMA PromisedCurrent ==
  Promise!Spec => []Promise!LiveMeansCurrentOrLeftOver
<1>1. PromiseInv => Promise!LiveMeansCurrentOrLeftOver
  BY Constants DEF PromiseInv, Promise!TypeOK, LiveStands, PromptAge, Promise!LiveMeansCurrentOrLeftOver,
         Promise!PolledRecently, Promise!Option, Promise!Snapshot
<1> QED BY <1>1, PromisedInv, PTL

(* No snapshot replaces one that was polled after it.                       *)
LEMMA PromisedNewest == Promise!Spec => Promise!NewestWins
<1> DEFINE Newer == \A s \in latest, t \in latest' : t.age <= Promise!Older(s.age)
<1>1. PromiseInv /\ [Promise!Next]_(Promise!ui) => [Newer]_(Promise!ui)
  <2> SUFFICES ASSUME PromiseInv, Promise!Next PROVE Newer
    OBVIOUS
  <2> SUFFICES ASSUME NEW s \in latest, NEW t \in latest' PROVE t.age <= Promise!Older(s.age)
    OBVIOUS
  <2>0. s \in Promise!Snapshot /\ latest = {s} /\ s.age \in 0..MaxAge
    BY DEF PromiseInv, Promise!TypeOK, Promise!Option, Promise!Snapshot
  <2>1. s.age <= Promise!Older(s.age)
    BY <2>0, OlderPromised
  <2>2. ASSUME NEW n \in Promise!Snapshot, Promise!Learns(n) PROVE t.age <= Promise!Older(s.age)
    <3>1. t = n /\ n.age <= s.age /\ n.age \in 0..MaxAge
      BY <2>2 DEF Promise!Learns, Promise!Acceptable, Promise!Snapshot
    <3> QED BY <2>0, <2>1, <3>1, OlderPromised
  <2>3. CASE latest' = latest
    BY <2>0, <2>1, <2>3
  <2>4. CASE Promise!Restarts
    BY <2>4 DEF Promise!Restarts
  <2>5. CASE Promise!Tick
    <3>1. latest' = {Promise!Aged(s)}
      BY <2>0, <2>5 DEF Promise!Tick
    <3> QED BY <2>0, <3>1, AgedPromised, OlderPromised DEF Promise!Snapshot
  <2> QED BY <2>2, <2>3, <2>4, <2>5 DEF Promise!Next, Promise!Hears, Promise!Reconsiders, Promise!Maintains
<1> QED BY <1>1, PromisedInv, PTL DEF Promise!Spec, Promise!NewestWins

(* The promise's theorems, of the feed.  LiveMeansRecent: LIVE never stands *)
(* longer than the freshness timeout and one period of the maintenance      *)
(* ticker after the last arrival.                                           *)
THEOREM SpecLiveMeansRecent == Spec => []Promise!LiveMeansRecent
BY SpecImplements, PromisedRecent, PTL DEF Implements

(* LiveMeansCurrentOrLeftOver: what is shown as LIVE was polled within two  *)
(* missed polls, or an earlier session had left it in the queue.            *)
THEOREM SpecLiveMeansCurrentOrLeftOver == Spec => []LiveMeansCurrentOrLeftOver
BY SpecImplements, PromisedCurrent, PTL DEF Implements, LiveMeansCurrentOrLeftOver

(* NewestWins: no snapshot replaces one that was polled after it.           *)
THEOREM SpecNewestWins == Spec => NewestWins
BY SpecImplements, PromisedNewest, PTL DEF Implements, NewestWins

-----------------------------------------------------------------------------
(* The safety half of GoesOffline: once the loop has taken the last state   *)
(* of the signal, the label says OFFLINE when there is no link, and only    *)
(* then, however fast connections came and went behind the signal's one     *)
(* value.                                                                   *)
LinkTold == ble = {} => (label = "OFFLINE" <=> ~link)

(* The last state, taken or not, tells the link, and the label what was     *)
(* taken.                                                                   *)
LastState == IF ble = {} THEN connected ELSE ble = {"Connected"}
LinkInv ==
  /\ LastState <=> link
  /\ label = "OFFLINE" <=> ~connected

LEMMA OfflineIs ==
  ASSUME NEW conn \in BOOLEAN, NEW snap, NEW age
  PROVE  Label(conn, snap, age) = "OFFLINE" <=> ~conn
BY DEF Label, Promise!Label

LEMMA LinkNext ==
  ASSUME TypeOK, TypeOK', LinkInv, [Next]_vars
  PROVE  LinkInv'
<1> USE DEF LinkInv, LastState
<1>1. connected \in BOOLEAN /\ connected' \in BOOLEAN /\ link \in BOOLEAN
  BY DEF TypeOK
<1>2. CASE UNCHANGED <<ble, link, connected, label>>
  BY <1>2
<1>3. CASE Connects
  BY <1>3 DEF Connects, Host!Links, ui, device
<1>4. CASE Disconnects \/ AdvertisingFails
  BY <1>4 DEF Disconnects, Host!Disconnects, AdvertisingFails, AdvertisingSignal, connection, ui
<1>5. CASE Restarts
  BY <1>5 DEF Restarts, FirstSignal, Promise!Restarts
<1>6. CASE Maintenance \/ RtcEvent \/ UsageEvent
  <2>1. UNCHANGED <<ble, link, connected>>
    BY <1>6 DEF Maintenance, RtcEvent, UsageEvent, connection
  <2>2. \E snap, age : label' = Label(connected, snap, age)
    BY <1>6 DEF Maintenance, LabelAtMaintenance, RtcEvent, UsageEvent
  <2> QED BY <1>1, <2>1, <2>2, OfflineIs
<1>7. CASE BleEvent
  <2>1. PICK state \in ble : connected' = (state = "Connected")
    BY <1>7 DEF BleEvent
  <2>2. ble = {state}
    BY <2>1 DEF TypeOK, Option, Promise!Option
  <2>3. ble' = {} /\ link' = link /\ label' = Label(connected', latest, recvAge')
    BY <1>7 DEF BleEvent, connection
  <2>4. ble = {"Connected"} <=> state = "Connected"
    BY <2>2
  <2>5. connected' <=> link
    BY <2>1, <2>2, <2>4
  <2>6. label' = "OFFLINE" <=> ~connected'
    BY <1>1, <2>3, OfflineIs
  <2> QED BY <2>3, <2>5, <2>6
<1> QED
  <2>1. CASE Publishes \/ Delivers \/ HostStep
    BY <1>2, <2>1
    DEF Publishes, Delivers, HostStep, Host!Publishes, Host!Delivers, Host!Writes,
        Host!Releases, Host!WriteFails, Host!GoesDown, Host!PumpAborted, Host!Attaches,
        Host!Breaks, Host!Restarts, Host!connection, ui
  <2>2. CASE Forwards \/ Tick \/ UNCHANGED vars
    BY <1>2, <2>2 DEF Forwards, Tick, connection, vars, ui
  <2> QED BY <1>3, <1>4, <1>5, <1>6, <1>7, <2>1, <2>2 DEF Next

THEOREM SpecLinkTold == Spec => []LinkTold
<1>1. Init => LinkInv
  BY DEF Init, Host!Init, FirstSignal, LinkInv, LastState
<1>2. LinkInv => LinkTold
  BY DEF LinkInv, LastState, LinkTold
<1> QED BY <1>1, <1>2, LinkNext, SpecTypeOK, PTL DEF Spec

-----------------------------------------------------------------------------
(* But for the ages of its snapshots, which no code keeps, the feed's host  *)
(* half is HostPromise: the device, its restarts and the passing of time do *)
(* nothing to the queue, its pump and the connection that HostLink was not  *)
(* shown to do.                                                             *)
(* (That the feed hinders no step of the promise is how it is written: it   *)
(* takes the promise's actions, and guards none but Links.)                 *)
AgelessOf(s) == [old |-> s.old]
Ageless(q) == [i \in 1..Len(q) |-> AgelessOf(q[i])]

Delivery == INSTANCE HostPromise WITH
              queue <- Ageless(queue),
              air <- Ageless(air),
              Fresh <- {AgelessOf(JustPolled)}

LEMMA AgelessIs ==
  ASSUME NEW q \in Seq(Snapshot)
  PROVE  /\ Ageless(q) \in Seq([old : BOOLEAN]) /\ Len(Ageless(q)) = Len(q)
         /\ Len(q) \in Nat
         /\ \A i \in 1..Len(q) : Ageless(q)[i] = AgelessOf(q[i])
<1>1. Len(q) \in Nat
  OBVIOUS
<1>2. ASSUME NEW s \in Snapshot
      PROVE  AgelessOf(s) \in [old : BOOLEAN]
  BY DEF AgelessOf, Snapshot, Promise!Snapshot
<1>3. \A i \in 1..Len(q) : AgelessOf(q[i]) \in [old : BOOLEAN]
  BY <1>2
<1>4. \A i \in 1..Len(q) : Ageless(q)[i] = AgelessOf(q[i])
  BY DEF Ageless
<1>5. Ageless(q) \in Seq([old : BOOLEAN]) /\ Len(Ageless(q)) = Len(q)
  BY <1>1, <1>3, IsASeq DEF Ageless
<1> QED BY <1>1, <1>4, <1>5

(* Two sequences of the same length with the same elements.                 *)
LEMMA SameSequence ==
  ASSUME NEW S, NEW q \in Seq(S), NEW r \in Seq(S), Len(q) = Len(r),
         \A i \in 1..Len(q) : q[i] = r[i]
  PROVE  q = r
OBVIOUS

LEMMA AgelessEmpty ==
  ASSUME NEW q \in Seq(Snapshot)
  PROVE  Ageless(q) = <<>> <=> q = <<>>
BY AgelessIs

LEMMA AgelessTail ==
  ASSUME NEW q \in Seq(Snapshot), q # <<>>
  PROVE  Ageless(Tail(q)) = Tail(Ageless(q))
<1> DEFINE a == Ageless(q)
           b == Ageless(Tail(q))
<1>1. /\ a \in Seq([old : BOOLEAN]) /\ Len(a) = Len(q) /\ a # <<>>
      /\ \A i \in 1..Len(q) : a[i] = AgelessOf(q[i])
  BY AgelessIs, AgelessEmpty
<1>2. /\ b \in Seq([old : BOOLEAN]) /\ Len(b) = Len(Tail(q))
      /\ \A i \in 1..Len(Tail(q)) : b[i] = AgelessOf(Tail(q)[i])
  BY AgelessIs, HeadTail
<1> HIDE DEF a, b
<1>3. /\ Tail(a) \in Seq([old : BOOLEAN]) /\ Len(Tail(a)) = Len(a) - 1
      /\ \A i \in 1..Len(Tail(a)) : Tail(a)[i] = a[i + 1]
  BY <1>1
<1>4. Len(b) = Len(Tail(a))
  BY <1>1, <1>2, <1>3, HeadTail
<1>5. \A i \in 1..Len(b) : b[i] = Tail(a)[i]
  BY <1>1, <1>2, <1>3, <1>4, HeadTail
<1>6. b = Tail(a)
  BY <1>2, <1>3, <1>4, <1>5, SameSequence
<1> QED BY <1>6 DEF a, b

LEMMA AgelessAppend ==
  ASSUME NEW q \in Seq(Snapshot), NEW s \in Snapshot
  PROVE  Ageless(Append(q, s)) = Append(Ageless(q), AgelessOf(s))
<1> DEFINE a == Ageless(q)
           b == Ageless(Append(q, s))
           c == Append(a, AgelessOf(s))
<1>1. /\ a \in Seq([old : BOOLEAN]) /\ Len(a) = Len(q) /\ Len(q) \in Nat
      /\ \A i \in 1..Len(q) : a[i] = AgelessOf(q[i])
  BY AgelessIs
<1>2. /\ Append(q, s) \in Seq(Snapshot) /\ Len(Append(q, s)) = Len(q) + 1
      /\ \A i \in 1..Len(q) + 1 : Append(q, s)[i] = IF i = Len(q) + 1 THEN s ELSE q[i]
  OBVIOUS
<1>3. /\ b \in Seq([old : BOOLEAN]) /\ Len(b) = Len(q) + 1
      /\ \A i \in 1..Len(q) + 1 : b[i] = AgelessOf(Append(q, s)[i])
  BY <1>2, AgelessIs
<1>4. AgelessOf(s) \in [old : BOOLEAN]
  BY DEF AgelessOf, Snapshot, Promise!Snapshot
<1> HIDE DEF a, b
<1>5. /\ c \in Seq([old : BOOLEAN]) /\ Len(c) = Len(q) + 1
      /\ \A i \in 1..Len(q) + 1 : c[i] = IF i = Len(q) + 1 THEN AgelessOf(s) ELSE a[i]
  BY <1>1, <1>4
<1> HIDE DEF c
<1>6. \A i \in 1..Len(b) : b[i] = c[i]
  BY <1>1, <1>2, <1>3, <1>5
<1>7. b = c
  BY <1>3, <1>5, <1>6, SameSequence
<1> QED BY <1>7 DEF a, b, c

(* Frames that only age, and frames that are marked as left over.           *)
LEMMA AgelessAged ==
  ASSUME NEW q \in Seq(Snapshot), NEW r \in Seq(Snapshot), Len(r) = Len(q),
         \A i \in 1..Len(q) : r[i].old = q[i].old
  PROVE  Ageless(r) = Ageless(q)
BY DEF Ageless, AgelessOf

LEMMA AgelessAllOld ==
  ASSUME NEW q \in Seq(Snapshot)
  PROVE  Ageless(Host!AllOld(q)) = Delivery!AllOld(Ageless(q))
<1> DEFINE r == Host!AllOld(q)
<1>1. Len(r) = Len(q) /\ \A i \in 1..Len(q) : r[i].old = TRUE
  BY AllOldKeeps
<1>2. Ageless(r) = [i \in 1..Len(q) |-> [old |-> TRUE]]
  BY <1>1 DEF Ageless, AgelessOf
<1>3. \A i \in 1..Len(q) : [Ageless(q)[i] EXCEPT !.old = TRUE] = [old |-> TRUE]
  <2>1. ASSUME NEW S, NEW b \in Seq(S)
        PROVE  \A i \in 1..Len(b) : b[i] \in S
    OBVIOUS
  <2>2. ASSUME NEW x \in [old : BOOLEAN]
        PROVE  [x EXCEPT !.old = TRUE] \in [old : {TRUE}]
    OBVIOUS
  <2>3. ASSUME NEW x \in [old : {TRUE}]
        PROVE  x = [old |-> TRUE]
    OBVIOUS
  <2>4. Ageless(q) \in Seq([old : BOOLEAN]) /\ Len(Ageless(q)) = Len(q)
    BY AgelessIs
  <2>5. \A i \in 1..Len(q) : Ageless(q)[i] \in [old : BOOLEAN]
    BY <2>1, <2>4
  <2> HIDE DEF Ageless
  <2> QED BY <2>2, <2>3, <2>5
<1>4. Delivery!AllOld(Ageless(q)) = [i \in 1..Len(q) |-> [old |-> TRUE]]
  <2>1. Len(Ageless(q)) = Len(q)
    BY AgelessIs
  <2> QED BY <1>3, <2>1 DEF Delivery!AllOld
<1> QED BY <1>2, <1>4

LEMMA DeliveryNext ==
  ASSUME IInv, IInv', [Next]_vars
  PROVE  [Delivery!Next]_(Delivery!vars)
<1> USE DEF connection, Host!connection, Delivery!connection
<1>0. /\ queue \in Seq(Snapshot) /\ queue' \in Seq(Snapshot)
      /\ Ageless(queue)' = Ageless(queue')
      /\ Len(Ageless(queue)) = Len(queue) /\ (Ageless(queue) = <<>> <=> queue = <<>>)
  BY AgelessIs, AgelessEmpty DEF IInv, TypeOK, Ageless
<1>a. /\ air \in Seq(Snapshot) /\ air' \in Seq(Snapshot)
      /\ Ageless(air)' = Ageless(air')
      /\ Len(Ageless(air)) = Len(air) /\ (Ageless(air) = <<>> <=> air = <<>>)
  BY AgelessIs, AgelessEmpty DEF IInv, TypeOK, Ageless
<1>b. air' = <<>> => Ageless(air') = <<>>
  BY <1>a, AgelessEmpty
<1>1. CASE UNCHANGED <<queue, hostUp, pump, connection>>
  BY <1>0, <1>a, <1>1 DEF Delivery!vars
<1>2. CASE Publishes
  <2>1. JustPolled \in Snapshot
    BY Constants DEF JustPolled, Snapshot, Promise!Snapshot
  <2>2. Ageless(queue') = Append(Ageless(queue), AgelessOf(JustPolled))
    BY <1>0, <1>2, <2>1, AgelessAppend DEF Publishes, Host!Publishes
  <2>3. Delivery!Publishes(AgelessOf(JustPolled))
    BY <1>0, <1>a, <1>2, <2>2 DEF Publishes, Host!Publishes, Delivery!Publishes
  <2> QED BY <2>3 DEF Delivery!Next
<1>3. CASE Host!Writes
  <2>1. queue # <<>> /\ Head(queue) \in Snapshot /\ Head(queue) = queue[1] /\ 1 \in 1..Len(queue)
    BY <1>0, <1>3, HeadTail DEF Host!Writes
  <2>2. Head(Ageless(queue)) = AgelessOf(Head(queue))
    <3>1. Ageless(queue) # <<>> /\ Ageless(queue)[1] = AgelessOf(queue[1])
      BY <1>0, <2>1, AgelessIs
    <3>2. ASSUME NEW S, NEW b \in Seq(S) PROVE Head(b) = b[1]
      OBVIOUS
    <3> HIDE DEF Ageless
    <3> QED BY <1>0, <2>1, <3>1, <3>2, AgelessIs
  <2>3. Ageless(Append(air, Head(queue))) = Append(Ageless(air), Head(Ageless(queue)))
    BY <1>a, <2>1, <2>2, AgelessAppend
  <2>4. Delivery!Writes
    BY <1>0, <1>a, <1>3, <2>3 DEF Host!Writes, Delivery!Writes
  <2> QED BY <2>4 DEF Delivery!Next
<1>4. ASSUME queue # <<>>, queue' = Tail(queue)
      PROVE  Ageless(queue') = Tail(Ageless(queue))
  BY <1>0, <1>4, AgelessTail
<1>5. CASE Host!Releases
  <2>1. queue # <<>> /\ queue' = Tail(queue)
    BY <1>5 DEF Host!Releases, IInv, Lent
  <2>2. Delivery!Releases
    BY <1>0, <1>a, <1>4, <1>5, <2>1 DEF Host!Releases, Delivery!Releases
  <2> QED BY <2>2 DEF Delivery!Next
<1>6. CASE Host!WriteFails
  <2>1. queue # <<>> /\ queue' = Tail(queue)
    BY <1>6 DEF Host!WriteFails, Host!AfterFailedWrite
  <2>2. Delivery!WriteFails
    BY <1>0, <1>a, <1>4, <1>6, <2>1
    DEF Host!WriteFails, Delivery!WriteFails, Delivery!AfterFailedWrite
  <2> QED BY <2>2 DEF Delivery!Next
<1>7. CASE Host!GoesDown
  <2>1. Delivery!GoesDown
    BY <1>0, <1>a, <1>7 DEF Host!GoesDown, Delivery!GoesDown
  <2> QED BY <2>1 DEF Delivery!Next
<1>8. CASE Host!PumpAborted
  <2>1. \/ queue' = queue
        \/ pump = "written" /\ queue # <<>> /\ queue' = Tail(queue)
    BY <1>8 DEF Host!PumpAborted, IInv, Lent
  <2>2. \/ Ageless(queue') = Ageless(queue)
        \/ pump = "written" /\ Ageless(queue') = Tail(Ageless(queue))
    BY <1>4, <2>1
  <2>3. Delivery!PumpAborted
    BY <1>0, <1>a, <1>8, <2>2 DEF Host!PumpAborted, Delivery!PumpAborted
  <2> QED BY <2>3 DEF Delivery!Next
<1>9. CASE Host!Attaches
  <2>1. queue' = Host!AllOld(queue) /\ air' = Host!AllOld(air)
    BY <1>9 DEF Host!Attaches
  <2>2. /\ Ageless(queue') = Delivery!AllOld(Ageless(queue))
        /\ Ageless(air') = Delivery!AllOld(Ageless(air))
    BY <1>0, <1>a, <2>1, AgelessAllOld
  <2>3. Delivery!Attaches
    BY <1>0, <1>a, <1>9, <2>2 DEF Host!Attaches, Delivery!Attaches
  <2> QED BY <2>3 DEF Delivery!Next
<1>10. CASE Host!Restarts
  <2>1. Delivery!Restarts
    BY <1>0, <1>a, <1>10, AgelessEmpty DEF Host!Restarts, Delivery!Restarts
  <2> QED BY <2>1 DEF Delivery!Next
<1>11. CASE Connects
  <2>1. Delivery!Links
    BY <1>0, <1>a, <1>11 DEF Connects, Host!Links, Delivery!Links
  <2> QED BY <2>1 DEF Delivery!Next
<1>12. CASE Disconnects
  <2>1. Delivery!Disconnects
    BY <1>0, <1>a, <1>b, <1>12 DEF Disconnects, Host!Disconnects, Delivery!Disconnects
  <2> QED BY <2>1 DEF Delivery!Next
<1>13. CASE Restarts
  <2>1. /\ UNCHANGED <<queue, hostUp, pump>>
        /\ link' = FALSE /\ carries' = FALSE /\ air' = <<>>
        /\ link \in BOOLEAN /\ carries \in BOOLEAN
    BY <1>13 DEF Restarts, host, IInv, TypeOK
  <2>2. CASE link
    <3>1. Delivery!Disconnects
      BY <1>0, <1>a, <1>b, <2>1, <2>2 DEF Delivery!Disconnects
    <3> QED BY <3>1 DEF Delivery!Next
  <2>3. CASE ~link
    <3>1. carries = FALSE /\ air = <<>>
      BY <2>1, <2>3 DEF IInv, Carried
    <3> QED BY <1>1, <2>1, <2>3, <3>1
  <2> QED BY <2>1, <2>2, <2>3
<1>14. CASE Tick
  <2>1. /\ queue' = [i \in 1..Len(queue) |-> Aged(queue[i])]
        /\ UNCHANGED <<hostUp, pump, link, carries, air>>
    BY <1>14 DEF Tick
  <2>2. Len(queue') = Len(queue)
    BY <1>0, <2>1
  <2>3. \A i \in 1..Len(queue) : queue'[i].old = queue[i].old
    BY <1>0, <2>1, AgedIs
  <2>4. Ageless(queue') = Ageless(queue)
    BY <1>0, <2>2, <2>3, AgelessAged
  <2> QED BY <1>0, <1>a, <2>1, <2>4 DEF Delivery!vars
<1>15. CASE \/ AdvertisingFails \/ Forwards \/ Maintenance \/ BleEvent \/ UsageEvent
            \/ RtcEvent \/ UNCHANGED vars
  BY <1>1, <1>15 DEF AdvertisingFails, Forwards, Maintenance, BleEvent, UsageEvent, RtcEvent,
                     vars, host
<1>16. CASE Delivers
  <2>1. air # <<>> /\ air' = Tail(air)
    BY <1>16 DEF Delivers, Host!Delivers
  <2>2. Ageless(air') = Tail(Ageless(air))
    BY <1>a, <2>1, AgelessTail
  <2>3. Delivery!Delivers
    BY <1>0, <1>a, <1>16, <2>2 DEF Delivers, Host!Delivers, Delivery!Delivers
  <2> QED BY <2>3 DEF Delivery!Next
<1>17. CASE Host!Breaks
  <2>1. Delivery!Breaks
    BY <1>0, <1>a, <1>b, <1>17 DEF Host!Breaks, Delivery!Breaks
  <2> QED BY <2>1 DEF Delivery!Next
<1> QED BY <1>2, <1>3, <1>5, <1>6, <1>7, <1>8, <1>9, <1>10, <1>11, <1>12, <1>13, <1>14, <1>15,
           <1>16, <1>17
        DEF Next, HostStep

THEOREM SpecKeepsDelivery == Spec => Delivery!Spec
<1>1. Init => Delivery!Init
  BY DEF Init, Host!Init, Delivery!Init, Ageless
<1>2. IInv /\ IInv' /\ [Next]_vars => [Delivery!Next]_(Delivery!vars)
  BY DeliveryNext
<1> QED BY <1>1, <1>2, SpecIInv, PTL DEF Spec, Delivery!Spec
=============================================================================
