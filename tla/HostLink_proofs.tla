-------------------------- MODULE HostLink_proofs --------------------------
(***************************************************************************)
(* The safety of the host's link for every number of worker slots, every   *)
(* queue capacity and every number of faults.                              *)
(***************************************************************************)
EXTENDS HostLink, SequenceTheorems, TLAPS

(* Every worker that can still be aborted has its handle in the vector.     *)
AtAwait(w) == w.watcher \notin Over \/ w.rx \notin Over \/ w.tx \notin Over
HandlesKept == \A g \in Gens : AtAwait(task[g]) => g \in workers

(* The vector holds the handles of the last session only, and none while    *)
(* connect has not spawned its own.                                         *)
HandlesCurrent == /\ \A g, h \in workers : g = h
                  /\ pc \in {"link", "discover", "attach"} => workers = {}

(* Only the session's loop runs under an Active interface.                  *)
DownOutsideLoop == pc \notin LoopPc => iface = "Down"

(* A frame on loan is the head of the queue.                                *)
LoanFromQueue == \A g \in Gens : HoldsFrame(g) => queue # <<>>

(* Only a connection that carries frames has any in flight.                 *)
AirCarried == air # <<>> => Carries

IInv == TypeOK /\ HandlesKept /\ HandlesCurrent /\ DownOutsideLoop
        /\ LoanFromQueue /\ ActiveIsServed /\ AirCarried

-----------------------------------------------------------------------------
(* What Append and Tail do to a queue within its capacity.                  *)
LEMMA QueueFacts ==
  ASSUME NEW q \in Seq(Frame), NEW cap \in Nat, Len(q) <= cap
  PROVE  /\ q # <<>> => Tail(q) \in Seq(Frame) /\ Len(Tail(q)) <= cap
         /\ \A f \in Frame : Len(q) < cap =>
              Append(q, f) \in Seq(Frame) /\ Len(Append(q, f)) <= cap
         /\ \A f : Append(q, f) # <<>>
<1>1. q # <<>> => Tail(q) \in Seq(Frame) /\ Len(Tail(q)) <= cap
  <2> SUFFICES ASSUME q # <<>> PROVE Tail(q) \in Seq(Frame) /\ Len(Tail(q)) <= cap
    OBVIOUS
  <2>1. Tail(q) \in Seq(Frame) /\ Len(Tail(q)) = Len(q) - 1
    BY HeadTailProperties
  <2> QED BY <2>1, LenProperties
<1>2. ASSUME NEW f \in Frame, Len(q) < cap
      PROVE  Append(q, f) \in Seq(Frame) /\ Len(Append(q, f)) <= cap
  BY <1>2, AppendProperties, LenProperties
<1>3. ASSUME NEW f PROVE Append(q, f) # <<>>
  OBVIOUS
<1> QED BY <1>1, <1>2, <1>3

(* Marking every frame of a queue as old keeps it a queue of its length.    *)
LEMMA AgedQueue ==
  ASSUME NEW q \in Seq(Frame)
  PROVE  /\ AllOld(q) \in Seq(Frame) /\ Len(AllOld(q)) = Len(q)
         /\ \A i \in 1..Len(q) : AllOld(q)[i].old
         /\ q = <<>> => AllOld(q) = <<>>
<1> DEFINE aged == [i \in 1..Len(q) |-> [q[i] EXCEPT !.old = TRUE]]
<1>1. ASSUME NEW i \in 1..Len(q) PROVE [q[i] EXCEPT !.old = TRUE] \in Frame
  <2>1. q[i] \in Frame BY ElementOfSeq
  <2> QED BY <2>1 DEF Frame
<1>2. Len(q) \in Nat BY LenProperties
<1>3. aged \in [1..Len(q) -> Frame] BY <1>1
<1>4. aged \in Seq(Frame) BY <1>2, <1>3, SeqDef
<1>5. Len(aged) = Len(q) BY <1>2, <1>3, <1>4, LenProperties
<1>6. aged = AllOld(q)
  BY DEF AllOld
<1>7. ASSUME NEW i \in 1..Len(q) PROVE aged[i].old
  <2>1. q[i] \in Frame BY ElementOfSeq
  <2> QED BY <2>1 DEF Frame
<1>8. q = <<>> => aged = <<>>
  BY <1>4, <1>5, EmptySeq
<1> HIDE DEF aged
<1> QED BY <1>4, <1>5, <1>6, <1>7, <1>8

(* BlueZ's report moves watchers from one await to another.                 *)
LEMMA ToldFacts ==
  ASSUME NEW t \in [Gens -> Workers]
  PROVE  /\ Told(t) \in [Gens -> Workers]
         /\ \A g \in Gens : /\ Told(t)[g].tx = t[g].tx
                            /\ Told(t)[g].rx = t[g].rx
                            /\ AtAwait(Told(t)[g]) <=> AtAwait(t[g])
                            /\ Told(t)[g].watcher \in Over <=> t[g].watcher \in Over
                            /\ t[g].watcher \in Over => Told(t)[g] = t[g]
<1>1. ASSUME NEW g \in Gens
      PROVE  /\ Told(t)[g] \in Workers
             /\ Told(t)[g].tx = t[g].tx /\ Told(t)[g].rx = t[g].rx
             /\ AtAwait(Told(t)[g]) <=> AtAwait(t[g])
             /\ Told(t)[g].watcher \in Over <=> t[g].watcher \in Over
             /\ t[g].watcher \in Over => Told(t)[g] = t[g]
  <2>1. t[g] \in Workers
    OBVIOUS
  <2>2. Told(t)[g] = IF t[g].watcher = "watching"
                     THEN [t[g] EXCEPT !.watcher = "told"] ELSE t[g]
    BY DEF Told
  <2> QED
    BY <2>1, <2>2 DEF Workers, WatcherAwaits, Over, AtAwait
<1> QED
  BY <1>1 DEF Told

THEOREM InitIInv == Init => IInv
<1> SUFFICES ASSUME Init PROVE IInv
  OBVIOUS
<1> USE HostLinkAssumption DEF Init, Over, LoopPc, NoWorkers
<1>1. queue \in Seq(Frame) /\ Len(queue) = 0
  BY EmptySeq
<1>2. task \in [Gens -> Workers]
  BY DEF Workers
<1>3. /\ pc \in Pc /\ iface \in {"Down", "Active"} /\ workers \subseteq Gens
      /\ clockSent \in BOOLEAN
      /\ devClock \in {"unset", "wrong", "right"}
  BY DEF Pc
<1>4. /\ bluez \in {"none", "up", "stale"}
      /\ dev \in {"off", "advertising", "connected"}
      /\ faults \in 0..MaxFaults
  OBVIOUS
<1>5. Len(queue) <= QCap
  BY <1>1
<1>6. air \in Seq(Frame) /\ Len(air) <= AirCap
  BY EmptySeq
<1>7. TypeOK
  BY <1>1, <1>2, <1>3, <1>4, <1>5, <1>6 DEF TypeOK
<1> QED
  BY <1>7 DEF IInv, HandlesKept, HandlesCurrent, DownOutsideLoop,
              LoanFromQueue, ActiveIsServed, AtAwait, HoldsFrame, AirCarried

-----------------------------------------------------------------------------
(* What is in flight: every step that ends the connection loses it.         *)
AirOK == air \in Seq(Frame) /\ Len(air) <= AirCap /\ AirCarried

LEMMA NextAirOK ==
  ASSUME IInv, [Next]_vars
  PROVE  AirOK'
<1> USE DEF radio, session
<1>0. AirOK /\ AirCap \in Nat /\ queue \in Seq(Frame)
  BY HostLinkAssumption DEF IInv, TypeOK, AirOK
<1>1. CASE UNCHANGED <<air, bluez, dev>>
  BY <1>0, <1>1 DEF AirOK, AirCarried, Carries
<1>2. CASE air' = <<>>
  BY <1>0, <1>2, EmptySeq DEF AirOK, AirCarried
<1>3. CASE air' = air /\ ~Carries
  BY <1>0, <1>2, <1>3 DEF AirOK, AirCarried
<1>4. CASE SessionStep
  <2>1. CASE Attach
    <3>1. air' = AllOld(air) /\ UNCHANGED <<bluez, dev>>
      BY <2>1 DEF Attach
    <3> QED BY <1>0, <3>1, AgedQueue DEF AirOK, AirCarried, Carries
  <2>2. CASE LinkSucceeds \/ Teardown
    BY <1>1, <1>2, <1>3, <2>2 DEF LinkSucceeds, Teardown, Carries
  <2>3. CASE ~Attach /\ ~LinkSucceeds /\ ~Teardown
    BY <1>1, <1>4, <2>3 DEF SessionStep, FindAdopts, FindScans, FindFails, ScanFinds,
       ScanFails, ConnectStarts, LinkFails, DiscoverSucceeds, DiscoverFails, Retry,
       CheckLink, PublishClock, ClockNotDue, Poll, PublishUsage, Sleep
  <2> QED BY <2>1, <2>2, <2>3
<1>5. ASSUME NEW g \in Gens, WorkerStep(g) PROVE AirOK'
  <2>1. CASE TxWrites(g)
    <3>1. UNCHANGED <<bluez, dev>> /\ queue # <<>>
      BY <2>1 DEF TxWrites, IInv, LoanFromQueue, HoldsFrame
    <3>2. Head(queue) \in Frame
      BY <1>0, <3>1, HeadTailProperties
    <3> QED
      BY <1>0, <1>1, <2>1, <3>1, <3>2, QueueFacts DEF TxWrites, AirOK, AirCarried, Carries
  <2>2. CASE ~TxWrites(g)
    BY <1>1, <1>5, <2>2 DEF WorkerStep, WatcherStep, WatcherSubscribes, WatcherWakes,
       WatcherStreamEnds, RxStep, RxSubscribes, RxStreamEnds, TxStep, TxTakes,
       TxReleases, TxFails, MarkDown
  <2> QED BY <2>1, <2>2
<1>6. CASE Delivers
  BY <1>0, <1>6, QueueFacts DEF Delivers, AirOK, AirCarried, Carries
<1>7. CASE LinkDrops \/ DeviceLeaves \/ LinkTimesOut \/ BlueZNotices \/ DeviceAdvertises
           \/ DaemonRestarts \/ ClockDue \/ UNCHANGED vars
  BY <1>1, <1>2, <1>3, <1>7 DEF LinkDrops, DeviceLeaves, LinkTimesOut, BlueZNotices,
     DeviceAdvertises, DaemonRestarts, ClockDue, vars, Carries
<1> QED
  BY <1>4, <1>5, <1>6, <1>7 DEF Next, Environment

-----------------------------------------------------------------------------
(* The session's own steps.                                                 *)
LEMMA SessionIInv ==
  ASSUME IInv, SessionStep, AirOK'
  PROVE  IInv'
<1> USE HostLinkAssumption DEF AirOK, IInv, TypeOK, radio, Fault, FaultUnless, Pc, LoopPc, ConnectPc
<1> DEFINE Rest == /\ UNCHANGED <<iface, task, workers, queue, devClock>>
                   /\ TypeOK'
<1>1. CASE /\ Rest
           /\ pc' \in LoopPc => pc \in LoopPc
           /\ pc' \in {"link", "discover", "attach"} =>
                pc \in {"link", "discover", "attach"}
           /\ pc' \notin LoopPc => iface = "Down"
  BY <1>1 DEF HandlesKept, HandlesCurrent, DownOutsideLoop, LoanFromQueue,
              ActiveIsServed, HoldsFrame, TxAlive, MarkDownPending
<1>2. CASE FindAdopts \/ FindScans \/ FindFails
  BY <1>1, <1>2 DEF FindAdopts, FindScans, FindFails, DownOutsideLoop
<1>3. CASE ScanFinds \/ ScanFails \/ Retry
  BY <1>1, <1>3 DEF ScanFinds, ScanFails, Retry, DownOutsideLoop
<1>4. CASE ConnectStarts
  <2> USE <1>4 DEF ConnectStarts
  <2>1. iface = "Down"
    BY DEF DownOutsideLoop
  <2>2. \A g \in Gens : task'[g] \in Workers /\ ~AtAwait(task'[g])
    <3> TAKE g \in Gens
    <3>1. task[g] \in Workers
      OBVIOUS
    <3>2. task'[g] = IF g \in workers THEN AbortWorker(task[g]) ELSE task[g]
      BY DEF AbortAll
    <3> QED
      BY <3>1, <3>2 DEF HandlesKept, AbortWorker, AtAwait, Workers, Over, Roles
  <2>3. task' \in [Gens -> Workers]
    BY <2>2 DEF AbortAll
  <2>4. queue' \in Seq(Frame) /\ Len(queue') <= QCap
    BY QueueFacts DEF LoanFromQueue, HoldsFrame
  <2>5. TypeOK'
    BY <2>1, <2>3, <2>4
  <2>6. LoanFromQueue'
    BY <2>2 DEF LoanFromQueue, HoldsFrame, AtAwait, Over
  <2> QED
    BY <2>1, <2>2, <2>5, <2>6
    DEF HandlesKept, HandlesCurrent, DownOutsideLoop, ActiveIsServed
<1>5. CASE LinkSucceeds \/ LinkFails
  BY <1>1, <1>5 DEF LinkSucceeds, LinkFails, DownOutsideLoop
<1>6. CASE DiscoverSucceeds \/ DiscoverFails
  BY <1>1, <1>6 DEF DiscoverSucceeds, DiscoverFails, DownOutsideLoop
<1>7. CASE Attach
  <2> USE <1>7 DEF Attach
  <2>1. workers = {}
    BY DEF HandlesCurrent
  <2>2. PICK g \in Gens : /\ task' = [task EXCEPT ![g] = Spawned]
                         /\ workers' = workers \cup {g}
    OBVIOUS
  <2>3. Spawned \in Workers /\ Spawned.tx \in TxAwaits /\ ~(Spawned.tx \in {"writing", "written"})
    BY DEF Spawned, Workers, WatcherAwaits, RxAwaits, TxAwaits
  <2>4. queue' \in Seq(Frame) /\ Len(queue') <= QCap
    BY AgedQueue
  <2>5. TypeOK'
    BY <2>2, <2>3, <2>4
  <2>6. HandlesKept' /\ HandlesCurrent' /\ DownOutsideLoop'
    BY <2>1, <2>2 DEF HandlesKept, HandlesCurrent, DownOutsideLoop
  <2>7. ActiveIsServed'
    BY <2>2, <2>3 DEF ActiveIsServed, TxAlive
  <2>8. LoanFromQueue'
    BY <2>1, <2>2, <2>3 DEF LoanFromQueue, HoldsFrame, HandlesKept, AtAwait, Over
  <2> QED
    BY <2>5, <2>6, <2>7, <2>8
<1>8. CASE Teardown
  <2> USE <1>8 DEF Teardown
  <2>1. iface = "Down"
    BY DEF DownOutsideLoop
  <2>2. task' = task \/ task' = Told(task)
    OBVIOUS
  <2>3. TypeOK'
    BY <2>2, ToldFacts
  <2> QED
    BY <2>1, <2>2, <2>3, ToldFacts
    DEF HandlesKept, HandlesCurrent, DownOutsideLoop, ActiveIsServed,
        LoanFromQueue, HoldsFrame
<1>9. CASE CheckLink
  BY <1>1, <1>9 DEF CheckLink
<1>10. CASE ClockNotDue \/ Poll \/ Sleep
  BY <1>1, <1>10 DEF ClockNotDue, Poll, Sleep, AfterFailedPoll
<1>11. CASE PublishClock \/ PublishUsage
  <2>1. PICK t \in {"clock", "usage"} : Broadcast(t)
    BY <1>11 DEF PublishClock, PublishUsage
  <2>2. [topic |-> t, old |-> FALSE] \in Frame
    BY DEF Frame
  <2>3. /\ queue' \in Seq(Frame) /\ Len(queue') <= QCap
        /\ queue # <<>> => queue' # <<>>
    BY <2>1, <2>2, QueueFacts DEF Broadcast, Accepted, Room
  <2>4. /\ UNCHANGED <<iface, task, workers, bluez, dev, devClock, faults>>
        /\ pc \in LoopPc /\ pc' \in LoopPc
        /\ clockSent' \in BOOLEAN
    BY <1>11 DEF PublishClock, PublishUsage, ClockRecorded, Accepted, Room
  <2> QED
    BY <2>3, <2>4
    DEF HandlesKept, HandlesCurrent, DownOutsideLoop, ActiveIsServed,
        LoanFromQueue, HoldsFrame, TxAlive, MarkDownPending
<1> QED
  BY <1>2, <1>3, <1>4, <1>5, <1>6, <1>7, <1>8, <1>9, <1>10, <1>11
  DEF SessionStep

-----------------------------------------------------------------------------
(* No two pumps: both would have their handles in a vector that only has    *)
(* those of the last session.                                               *)
LEMMA IInvOnePump == IInv => OnePump
BY DEF IInv, HandlesKept, HandlesCurrent, OnePump, TxAlive, TxAwaits, AtAwait,
       Over

(* A step that changes one worker, and leaves it in a state from which it   *)
(* serves the interface if it did before.                                   *)
LEMMA OneWorker ==
  ASSUME IInv,
         NEW g \in Gens, NEW w \in Workers,
         task' = [task EXCEPT ![g] = w],
         AtAwait(w) => AtAwait(task[g]),
         UNCHANGED <<pc, workers>>,
         iface' = "Down" \/ iface' = iface,
         iface' = iface =>
           \/ task[g].tx \in TxAwaits => w.tx \in TxAwaits
           \/ \E r \in Roles : w[r] = "exiting",
         iface' = iface =>
           \A r \in Roles : task[g][r] = "exiting" => w[r] = "exiting"
  PROVE  HandlesKept' /\ HandlesCurrent' /\ DownOutsideLoop' /\ ActiveIsServed'
<1> USE DEF IInv, TypeOK
<1>1. /\ task'[g] = w
      /\ \A h \in Gens : h # g => task'[h] = task[h]
  OBVIOUS
<1>2. HandlesKept' /\ HandlesCurrent' /\ DownOutsideLoop'
  BY <1>1 DEF HandlesKept, HandlesCurrent, DownOutsideLoop
<1>3. ASSUME iface' = "Active"
      PROVE  (\E h \in Gens : TxAlive(h)') \/ MarkDownPending'
  <2>1. iface = "Active" /\ iface' = iface
    BY <1>3
  <2>2. CASE \E h \in Gens : TxAlive(h)
    BY <1>1, <2>1, <2>2 DEF TxAlive, MarkDownPending
  <2>3. CASE MarkDownPending
    BY <1>1, <2>1, <2>3 DEF MarkDownPending
  <2> QED
    BY <2>1, <2>2, <2>3 DEF ActiveIsServed
<1> QED
  BY <1>2, <1>3 DEF ActiveIsServed

LEMMA WorkerIInv ==
  ASSUME IInv, NEW g \in Gens, WorkerStep(g), AirOK'
  PROVE  IInv'
<1> USE HostLinkAssumption
    DEF AirOK, IInv, TypeOK, session, radio, Fault, FaultUnless, Roles, Over
<1> DEFINE w == task[g]
<1>0. w \in Workers
  OBVIOUS
<1>1. CASE WatcherStep(g)
  <2>1. /\ \E s \in WatcherAwaits \cup Over :
             /\ task' = [task EXCEPT ![g] = [w EXCEPT !.watcher = s]]
             /\ w.watcher \in WatcherAwaits
        /\ UNCHANGED <<pc, iface, workers, queue, clockSent, bluez, dev,
                       devClock>>
        /\ faults' \in 0..MaxFaults
    BY <1>1 DEF WatcherStep, WatcherSubscribes, WatcherWakes,
                WatcherStreamEnds, WatcherAwaits
  <2>2. PICK s \in WatcherAwaits \cup Over :
             /\ task' = [task EXCEPT ![g] = [w EXCEPT !.watcher = s]]
             /\ w.watcher \in WatcherAwaits
    BY <2>1
  <2> DEFINE v == [w EXCEPT !.watcher = s]
  <2>3. /\ v \in Workers /\ v.tx = w.tx /\ v.rx = w.rx /\ v.watcher = s
        /\ AtAwait(w) /\ w.watcher # "exiting"
    BY <1>0, <2>2 DEF Workers, AtAwait, WatcherAwaits
  <2>4. TypeOK' /\ LoanFromQueue'
    BY <2>1, <2>2, <2>3 DEF LoanFromQueue, HoldsFrame
  <2>5. \A r \in Roles : w[r] = "exiting" => v[r] = "exiting"
    BY <2>3
  <2> QED
    BY <2>1, <2>2, <2>3, <2>4, <2>5, OneWorker
<1>2. CASE RxStep(g)
  <2>1. /\ \E s \in RxAwaits \cup Over :
             /\ task' = [task EXCEPT ![g] = [w EXCEPT !.rx = s]]
             /\ w.rx \in RxAwaits
        /\ UNCHANGED <<pc, iface, workers, queue, clockSent, bluez, dev,
                       devClock>>
        /\ faults' \in 0..MaxFaults
    BY <1>2 DEF RxStep, RxSubscribes, RxStreamEnds, RxAwaits
  <2>2. PICK s \in RxAwaits \cup Over :
             /\ task' = [task EXCEPT ![g] = [w EXCEPT !.rx = s]]
             /\ w.rx \in RxAwaits
    BY <2>1
  <2> DEFINE v == [w EXCEPT !.rx = s]
  <2>3. /\ v \in Workers /\ v.tx = w.tx /\ v.watcher = w.watcher /\ v.rx = s
        /\ AtAwait(w) /\ w.rx # "exiting"
    BY <1>0, <2>2 DEF Workers, AtAwait, RxAwaits
  <2>4. TypeOK' /\ LoanFromQueue'
    BY <2>1, <2>2, <2>3 DEF LoanFromQueue, HoldsFrame
  <2>5. \A r \in Roles : w[r] = "exiting" => v[r] = "exiting"
    BY <2>3
  <2> QED
    BY <2>1, <2>2, <2>3, <2>4, <2>5, OneWorker
<1>3. CASE TxStep(g)
  <2>1. PICK s \in TxAwaits \cup {"exiting"} :
             /\ task' = [task EXCEPT ![g] = [w EXCEPT !.tx = s]]
             /\ w.tx \in TxAwaits
    BY <1>3 DEF TxStep, TxTakes, TxWrites, TxReleases, TxFails, TxAwaits,
                AfterFailedWrite
  <2>2. /\ UNCHANGED <<pc, iface, workers, clockSent, bluez, dev>>
        /\ faults' \in 0..MaxFaults
        /\ devClock' \in {"unset", "wrong", "right"}
    BY <1>3 DEF TxStep, TxTakes, TxWrites, TxReleases, TxFails
  <2>3. \/ queue' = queue /\ queue # <<>>
        \/ /\ queue' = Tail(queue) /\ queue # <<>>
           /\ HoldsFrame(g) /\ s \notin {"writing", "written"}
    BY <1>3, <2>1 DEF TxStep, TxTakes, TxWrites, TxReleases, TxFails,
       LoanFromQueue, HoldsFrame, AfterFailedWrite, Workers
  <2> DEFINE v == [w EXCEPT !.tx = s]
  <2>4. /\ v \in Workers /\ v.rx = w.rx /\ v.watcher = w.watcher /\ v.tx = s
        /\ AtAwait(w) /\ w.tx # "exiting"
    BY <1>0, <2>1 DEF Workers, AtAwait, TxAwaits
  <2>5. queue' \in Seq(Frame) /\ Len(queue') <= QCap
    BY <2>3, QueueFacts
  <2>6. TypeOK'
    BY <2>1, <2>2, <2>4, <2>5
  <2>7. LoanFromQueue'
    <3>1. \A h \in Gens : h # g => ~(HoldsFrame(g) /\ HoldsFrame(h))
      BY IInvOnePump DEF OnePump, HoldsFrame, TxAlive, TxAwaits
    <3>2. \A h \in Gens : task'[h] = IF h = g THEN v ELSE task[h]
      BY <2>1
    <3> QED
      BY <2>3, <2>4, <3>1, <3>2 DEF LoanFromQueue, HoldsFrame
  <2>8. \A r \in Roles : w[r] = "exiting" => v[r] = "exiting"
    BY <2>4
  <2>9. v.tx \in TxAwaits \/ v["tx"] = "exiting"
    BY <2>4
  <2> QED
    BY <2>1, <2>2, <2>4, <2>6, <2>7, <2>8, <2>9, OneWorker
<1>4. CASE \E r \in Roles : MarkDown(g, r)
  <2>1. PICK r \in Roles : MarkDown(g, r)
    BY <1>4
  <2> DEFINE v == [w EXCEPT ![r] = "done"]
  <2>2. /\ task' = [task EXCEPT ![g] = v] /\ w[r] = "exiting" /\ iface' = "Down"
        /\ UNCHANGED <<pc, workers, queue, clockSent, bluez, dev,
                       devClock, faults>>
    BY <2>1 DEF MarkDown
  <2>3. /\ v \in Workers /\ (AtAwait(v) => AtAwait(w))
        /\ v.tx \in {"writing", "written"} => v.tx = w.tx
    BY <1>0, <2>2 DEF Workers, AtAwait
  <2>4. TypeOK'
    BY <2>2, <2>3
  <2>5. LoanFromQueue'
    BY <2>2, <2>3 DEF LoanFromQueue, HoldsFrame
  <2>6. HandlesKept' /\ HandlesCurrent'
    BY <2>2, <2>3 DEF HandlesKept, HandlesCurrent
  <2> QED
    BY <2>2, <2>4, <2>5, <2>6 DEF DownOutsideLoop, ActiveIsServed
<1> QED
  BY <1>1, <1>2, <1>3, <1>4 DEF WorkerStep

LEMMA EnvironmentIInv ==
  ASSUME IInv, Environment \/ ClockDue \/ UNCHANGED vars, AirOK'
  PROVE  IInv'
<1> USE HostLinkAssumption DEF AirOK
<1> DEFINE Small == /\ clockSent \in BOOLEAN /\ faults \in 0..MaxFaults
                    /\ bluez \in {"none", "up", "stale"}
                    /\ dev \in {"off", "advertising", "connected"}
                    /\ devClock \in {"unset", "wrong", "right"}
           Links == /\ pc' = pc /\ iface' = iface
                    /\ workers' = workers /\ queue' = queue
                    /\ task' = task \/ task' = Told(task)
<1>1. Small
  BY DEF IInv, TypeOK
<1>2. CASE Links /\ Small'
  <2>1. task' \in [Gens -> Workers]
    BY <1>2, ToldFacts DEF IInv, TypeOK
  <2>2. TypeOK'
    BY <1>2, <2>1 DEF IInv, TypeOK
  <2> QED
    BY <1>2, <2>2, ToldFacts
    DEF IInv, TypeOK, HandlesKept, HandlesCurrent, DownOutsideLoop,
        ActiveIsServed, LoanFromQueue, HoldsFrame, TxAlive, MarkDownPending,
        Roles, Over, Workers
<1>3. CASE Delivers \/ LinkDrops \/ DeviceLeaves
  BY <1>1, <1>2, <1>3 DEF Delivers, LinkDrops, DeviceLeaves, Fault, session
<1>4. CASE LinkTimesOut \/ BlueZNotices \/ DeviceAdvertises
  BY <1>1, <1>2, <1>4 DEF LinkTimesOut, BlueZNotices, DeviceAdvertises, session
<1>5. CASE ClockDue \/ UNCHANGED vars
  BY <1>1, <1>2, <1>5 DEF ClockDue, vars, radio
<1>6. CASE DaemonRestarts
  <2>1. /\ Fault /\ clockSent' = FALSE
        /\ bluez' = bluez /\ dev' = dev /\ devClock' = devClock
    BY <1>6 DEF DaemonRestarts
  <2>2. Small'
    <3>1. faults' \in 0..MaxFaults
      BY <1>1, <2>1 DEF Fault
    <3> QED
      BY <1>1, <2>1, <3>1
  <2>3. /\ task' \in [Gens -> Workers]
        /\ queue' \in Seq(Frame) /\ Len(queue') = 0
    BY <1>6, EmptySeq DEF DaemonRestarts, NoWorkers, Workers, Over
  <2>4. /\ pc' \in Pc /\ iface' \in {"Down", "Active"}
        /\ workers' \subseteq Gens
    BY <1>6 DEF DaemonRestarts, Pc, IInv, TypeOK
  <2>5. Len(queue') <= QCap
    BY <2>3
  <2>6. TypeOK'
    BY <2>2, <2>3, <2>4, <2>5 DEF TypeOK
  <2> QED
    BY <1>6, <2>6
    DEF DaemonRestarts, IInv, HandlesKept, HandlesCurrent, DownOutsideLoop,
        LoopPc, ActiveIsServed, LoanFromQueue, HoldsFrame, AtAwait, NoWorkers,
        Over
<1> QED
  BY <1>3, <1>4, <1>5, <1>6 DEF Environment

THEOREM NextIInv == IInv /\ [Next]_vars => IInv'
BY NextAirOK, SessionIInv, WorkerIInv, EnvironmentIInv DEF Next

THEOREM SpecIInv == Spec => []IInv
BY InitIInv, NextIInv, PTL DEF Spec

-----------------------------------------------------------------------------
(* The variables keep their types: the queue its capacity in particular.    *)
THEOREM SpecTypeOK == Spec => []TypeOK
<1>1. IInv => TypeOK
  BY DEF IInv
<1> QED
  BY <1>1, SpecIInv, PTL

(* However many sessions there were and however late their workers die, one *)
(* worker at most drains the queue.                                         *)
THEOREM SpecOnePump == Spec => []OnePump
BY IInvOnePump, SpecIInv, PTL

(* No Active interface without a pump, or a mark_down that is coming.       *)
THEOREM SpecActiveIsServed == Spec => []ActiveIsServed
<1>1. IInv => ActiveIsServed
  BY DEF IInv
<1> QED
  BY <1>1, SpecIInv, PTL

(* connect's "BLE interface is not Down" is unreachable.                    *)
THEOREM SpecConnectFindsDown == Spec => []ConnectFindsDown
<1>1. IInv => ConnectFindsDown
  BY DEF IInv, DownOutsideLoop, ConnectFindsDown, LoopPc
<1> QED
  BY <1>1, SpecIInv, PTL

(* The safety half of DeadLinkNoticed.  Under an Active interface the loop  *)
(* goes on to publish, and unless a mark_down is coming the pump of its own *)
(* session is alive, waits for no frame that another worker holds, and      *)
(* holds none that is gone: a frame is written, and the write fails once    *)
(* BlueZ knows that the link is dead.                                       *)
Unhindered(g) == /\ TxAlive(g) /\ g \in workers
                 /\ HoldsFrame(g) => queue # <<>>
                 /\ \A h \in Gens \ {g} : ~HoldsFrame(h)
WriteAhead == iface = "Active" =>
                pc \in LoopPc /\ (MarkDownPending \/ \E g \in Gens : Unhindered(g))

THEOREM SpecWriteAhead == Spec => []WriteAhead
<1>1. IInv => WriteAhead
  <2> SUFFICES ASSUME IInv, iface = "Active", ~MarkDownPending
               PROVE  pc \in LoopPc /\ \E g \in Gens : Unhindered(g)
    BY DEF WriteAhead, IInv, DownOutsideLoop
  <2>1. pc \in LoopPc
    BY DEF IInv, DownOutsideLoop
  <2>2. PICK g \in Gens : TxAlive(g)
    BY DEF IInv, ActiveIsServed
  <2>3. g \in workers
    BY <2>2 DEF IInv, HandlesKept, HandlesCurrent, AtAwait, TxAlive, TxAwaits, Over
  <2>4. ASSUME NEW h \in Gens \ {g}
        PROVE  ~HoldsFrame(h)
    BY <2>2, IInvOnePump DEF OnePump, TxAlive, TxAwaits, HoldsFrame
  <2> QED
    BY <2>1, <2>2, <2>3, <2>4 DEF Unhindered, IInv, LoanFromQueue
<1> QED
  BY <1>1, SpecIInv, PTL

-----------------------------------------------------------------------------
(* The clock.  Frames of earlier sessions are ahead of those of this one,   *)
(* in flight and in the queue, and a fresh clock that was written over a    *)
(* connection that carries is in flight or has set the device's clock.      *)
OldClockIn(frames) == \E i \in 1..Len(frames) : frames[i].topic = "clock" /\ frames[i].old
OldFirst(frames) == \A i, j \in 1..Len(frames) :
                      i < j /\ frames[j].old => frames[i].old
AirFirst(a, q) == \A i \in 1..Len(a), j \in 1..Len(q) : q[j].old => a[i].old

DeviceSet == devClock = "right" /\ ~OldClockIn(air)
WrittenSent == \A g \in Gens :
                 task[g].tx = "written" /\ Head(queue) = FreshClock /\ Carries =>
                   ClockIn(air) \/ DeviceSet
ClockOnItsWay == \/ ClockIn(queue) \/ ClockIn(air)
                 \/ DeviceSet /\ ~OldClockIn(queue)
                 \/ MarkDownPending
Ordered == OldFirst(queue) /\ OldFirst(air) /\ AirFirst(air, queue)
ClockInv == /\ Ordered
            /\ WrittenSent
            /\ clockSent /\ pc \in LoopPc /\ iface = "Active" /\ Carries => ClockOnItsWay

(* What is left of frames without the first.                                *)
LEMMA TailFacts ==
  ASSUME NEW q \in Seq(Frame), q # <<>>, OldFirst(q)
  PROVE  /\ OldFirst(Tail(q))
         /\ ClockIn(q) => ClockIn(Tail(q)) \/ Head(q) = FreshClock
         /\ ~OldClockIn(q) => ~OldClockIn(Tail(q))
         /\ Head(q) = FreshClock => ~OldClockIn(Tail(q))
         /\ \A i \in 1..Len(Tail(q)) : i + 1 \in 1..Len(q) /\ Tail(q)[i] = q[i + 1]
         /\ 1 \in 1..Len(q) /\ Head(q) = q[1]
         /\ \A i \in 1..Len(q) : q[i].old => q[1].old
<1> DEFINE t == Tail(q)
<1>1. /\ Len(t) = Len(q) - 1 /\ Len(q) \in Nat \ {0}
      /\ \A i \in 1..Len(t) : i + 1 \in 1..Len(q) /\ t[i] = q[i + 1]
      /\ Head(q) = q[1]
  BY HeadTailProperties, EmptySeq
<1> HIDE DEF t
<1>2. OldFirst(t)
  <2> SUFFICES ASSUME NEW i \in 1..Len(t), NEW j \in 1..Len(t), i < j, t[j].old
               PROVE  t[i].old
    BY DEF OldFirst
  <2>1. /\ i + 1 \in 1..Len(q) /\ j + 1 \in 1..Len(q) /\ i + 1 < j + 1
        /\ t[i] = q[i + 1] /\ t[j] = q[j + 1]
    BY <1>1
  <2> QED BY <2>1 DEF OldFirst
<1>3. ClockIn(q) => ClockIn(t) \/ Head(q) = FreshClock
  <2> SUFFICES ASSUME NEW i \in 1..Len(q), q[i] = FreshClock, i # 1
               PROVE  ClockIn(t)
    BY <1>1 DEF ClockIn
  <2>1. i - 1 \in 1..Len(t) /\ t[i - 1] = q[i]
    BY <1>1
  <2> QED BY <2>1 DEF ClockIn
<1>4. ~OldClockIn(q) => ~OldClockIn(t)
  BY <1>1 DEF OldClockIn
<1>5. Head(q) = FreshClock => ~OldClockIn(t)
  BY <1>1 DEF OldClockIn, OldFirst, FreshClock
<1>6. \A i \in 1..Len(q) : q[i].old => q[1].old
  BY <1>1 DEF OldFirst
<1> QED
  BY <1>1, <1>2, <1>3, <1>4, <1>5, <1>6 DEF t

(* Frames and one more, which is old only if all of them are.               *)
LEMMA AppendFacts ==
  ASSUME NEW q \in Seq(Frame), NEW f \in Frame, OldFirst(q),
         f.old => \A i \in 1..Len(q) : q[i].old
  PROVE  /\ OldFirst(Append(q, f))
         /\ ClockIn(Append(q, f)) <=> ClockIn(q) \/ f = FreshClock
         /\ OldClockIn(Append(q, f)) <=> OldClockIn(q) \/ (f.topic = "clock" /\ f.old)
         /\ \A i \in 1..Len(Append(q, f)) :
              (i \in 1..Len(q) /\ Append(q, f)[i] = q[i]) \/ Append(q, f)[i] = f
         /\ q # <<>> => Head(Append(q, f)) = Head(q)
<1> DEFINE a == Append(q, f)
<1>1. /\ Len(q) \in Nat /\ Len(a) = Len(q) + 1
      /\ \A i \in 1..Len(q) : a[i] = q[i]
      /\ a[Len(q) + 1] = f
  BY AppendProperties, LenProperties
<1>2. q # <<>> => Head(a) = Head(q)
  <2> SUFFICES ASSUME q # <<>> PROVE Head(a) = Head(q)
    OBVIOUS
  <2>1. Len(q) # 0 /\ a \in Seq(Frame) /\ a # <<>>
    BY EmptySeq, AppendProperties
  <2>2. Head(a) = a[1] /\ Head(q) = q[1]
    BY <2>1, HeadTailProperties
  <2> QED BY <1>1, <2>1, <2>2
<1> HIDE DEF a
<1>3. \A i \in 1..Len(a) : (i \in 1..Len(q) /\ a[i] = q[i]) \/ (i = Len(q) + 1 /\ a[i] = f)
  BY <1>1
<1>4. OldFirst(a)
  <2> SUFFICES ASSUME NEW i \in 1..Len(a), NEW j \in 1..Len(a), i < j, a[j].old
               PROVE  a[i].old
    BY DEF OldFirst
  <2>1. i \in 1..Len(q) /\ a[i] = q[i]
    BY <1>1, <1>3
  <2> QED BY <1>1, <1>3, <2>1 DEF OldFirst
<1>5. ClockIn(a) <=> ClockIn(q) \/ f = FreshClock
  BY <1>1, <1>3 DEF ClockIn
<1>6. OldClockIn(a) <=> OldClockIn(q) \/ (f.topic = "clock" /\ f.old)
  BY <1>1, <1>3 DEF OldClockIn
<1> QED
  BY <1>2, <1>3, <1>4, <1>5, <1>6 DEF a

LEMMA EmptyFacts ==
  OldFirst(<<>>) /\ ~OldClockIn(<<>>) /\ ~ClockIn(<<>>)
BY DEF OldFirst, OldClockIn, ClockIn

LEMMA InitClockInv == Init => ClockInv
BY EmptyFacts DEF Init, ClockInv, Ordered, AirFirst, WrittenSent, NoWorkers

(* Steps that leave the frames and the device's clock alone.                *)
Keeps == /\ queue' = queue /\ air' = air /\ devClock' = devClock
         /\ \A g \in Gens : task'[g].tx = "written" /\ Carries' =>
              task[g].tx = "written" /\ Carries
         /\ clockSent' /\ pc' \in LoopPc /\ iface' = "Active" /\ Carries' =>
              /\ clockSent /\ pc \in LoopPc /\ iface = "Active" /\ Carries
              /\ MarkDownPending => MarkDownPending'

LEMMA KeepsClockInv == ClockInv /\ Keeps => ClockInv'
<1> SUFFICES ASSUME ClockInv, Keeps PROVE ClockInv'
  OBVIOUS
<1>1. /\ Ordered' = Ordered /\ DeviceSet' = DeviceSet
      /\ ClockIn(queue)' = ClockIn(queue) /\ ClockIn(air)' = ClockIn(air)
      /\ OldClockIn(queue)' = OldClockIn(queue)
  BY DEF Keeps, Ordered, OldFirst, AirFirst, DeviceSet, ClockIn, OldClockIn
<1>2. WrittenSent'
  BY <1>1 DEF ClockInv, WrittenSent, Keeps
<1> QED
  BY <1>1, <1>2 DEF ClockInv, ClockOnItsWay, Keeps

(* Steps that end the connection.                                           *)
Loses == /\ queue' = queue /\ air' = <<>> /\ ~Carries'

LEMMA LosesClockInv == ClockInv /\ Loses => ClockInv'
<1> SUFFICES ASSUME ClockInv, Loses PROVE ClockInv'
  OBVIOUS
<1>1. Ordered'
  BY EmptyFacts DEF ClockInv, Loses, Ordered, OldFirst, AirFirst
<1> QED
  BY <1>1 DEF ClockInv, WrittenSent, Loses

LEMMA SessionKeeps ==
  ASSUME IInv, SessionStep,
         ~ConnectStarts, ~Attach, ~PublishClock, ~PublishUsage
  PROVE  Keeps \/ Loses
<1> USE DEF Keeps, LoopPc, radio, Carries
<1>1. CASE FindAdopts \/ FindScans \/ FindFails \/ ScanFinds \/ ScanFails \/ Retry
  BY <1>1 DEF FindAdopts, FindScans, FindFails, ScanFinds, ScanFails, Retry
<1>2. CASE LinkFails \/ DiscoverSucceeds \/ DiscoverFails
  BY <1>2 DEF LinkFails, DiscoverSucceeds, DiscoverFails
<1>3. CASE CheckLink \/ ClockNotDue \/ Poll \/ Sleep
  BY <1>3 DEF CheckLink, ClockNotDue, Poll, Sleep, MarkDownPending
<1>4. CASE LinkSucceeds
  <2>1. \A g \in Gens : task[g].tx # "written"
    BY <1>4 DEF LinkSucceeds, IInv, HandlesKept, HandlesCurrent, AtAwait, Over
  <2> QED BY <1>4, <2>1 DEF LinkSucceeds
<1>5. CASE Teardown
  BY <1>5, ToldFacts DEF Teardown, Loses, IInv, TypeOK
<1> QED
  BY <1>1, <1>2, <1>3, <1>4, <1>5 DEF SessionStep

LEMMA WorkerKeeps ==
  ASSUME IInv, NEW g \in Gens,
         \/ WatcherStep(g) \/ RxStep(g) \/ TxTakes(g)
         \/ \E r \in Roles : MarkDown(g, r)
  PROVE  Keeps
<1> USE DEF Keeps, session, radio, Carries
<1>0. task \in [Gens -> Workers]
  BY DEF IInv, TypeOK
<1>1. CASE WatcherStep(g)
  BY <1>0, <1>1 DEF WatcherStep, WatcherSubscribes, WatcherWakes,
     WatcherStreamEnds, MarkDownPending, Workers, Roles
<1>2. CASE RxStep(g)
  BY <1>0, <1>2 DEF RxStep, RxSubscribes, RxStreamEnds, MarkDownPending,
     Workers, Roles
<1>3. CASE TxTakes(g)
  BY <1>0, <1>3 DEF TxTakes, MarkDownPending, Workers, Roles
<1>4. CASE \E r \in Roles : MarkDown(g, r)
  BY <1>0, <1>4 DEF MarkDown, Workers, Roles
<1> QED
  BY <1>1, <1>2, <1>3, <1>4

LEMMA EnvironmentKeeps ==
  ASSUME IInv, Environment \/ ClockDue \/ UNCHANGED vars, ~DaemonRestarts, ~Delivers
  PROVE  Keeps \/ Loses
<1> USE DEF session, radio, Carries
<1>0. task \in [Gens -> Workers]
  BY DEF IInv, TypeOK
<1>1. CASE LinkDrops \/ DeviceLeaves
  BY <1>1 DEF LinkDrops, DeviceLeaves, Loses
<1>2. CASE LinkTimesOut \/ BlueZNotices
  BY <1>0, <1>2, ToldFacts DEF LinkTimesOut, BlueZNotices, Keeps
<1>3. CASE DeviceAdvertises \/ UNCHANGED vars
  BY <1>3 DEF DeviceAdvertises, vars, MarkDownPending, Keeps
<1>4. CASE ClockDue
  BY <1>4 DEF ClockDue, Keeps
<1> QED
  BY <1>1, <1>2, <1>3, <1>4 DEF Environment

(* The steps that move frames or the clock.                                 *)
LEMMA AppendClock ==
  ASSUME IInv, ClockInv, NEW topic \in {"clock", "usage"}, Broadcast(topic), air' = air
  PROVE  /\ Ordered'
         /\ queue # <<>> => Head(queue)' = Head(queue)
         /\ ClockIn(queue) => ClockIn(queue)'
         /\ ~OldClockIn(queue) => ~OldClockIn(queue)'
         /\ Accepted /\ topic = "clock" => ClockIn(queue)'
<1> DEFINE f == [topic |-> topic, old |-> FALSE]
<1>0. f \in Frame /\ queue \in Seq(Frame) /\ OldFirst(queue) /\ f.old = FALSE
  BY DEF IInv, TypeOK, Frame, ClockInv, Ordered
<1>1. CASE ~Accepted
  BY <1>1 DEF Broadcast, ClockInv, Ordered, OldFirst, AirFirst, ClockIn, OldClockIn
<1>2. CASE Accepted
  <2>1. queue' = Append(queue, f)
    BY <1>2 DEF Broadcast
  <2>2. /\ OldFirst(Append(queue, f))
        /\ ClockIn(Append(queue, f)) <=> ClockIn(queue) \/ f = FreshClock
        /\ OldClockIn(Append(queue, f)) <=> OldClockIn(queue) \/ (f.topic = "clock" /\ f.old)
        /\ \A i \in 1..Len(Append(queue, f)) :
              (i \in 1..Len(queue) /\ Append(queue, f)[i] = queue[i]) \/ Append(queue, f)[i] = f
        /\ queue # <<>> => Head(Append(queue, f)) = Head(queue)
    BY <1>0, AppendFacts
  <2>3. /\ OldFirst(queue') /\ (ClockIn(queue') <=> ClockIn(queue) \/ f = FreshClock)
        /\ OldClockIn(queue') <=> OldClockIn(queue) \/ (f.topic = "clock" /\ f.old)
        /\ \A i \in 1..Len(queue') : (i \in 1..Len(queue) /\ queue'[i] = queue[i]) \/ queue'[i] = f
        /\ queue # <<>> => Head(queue') = Head(queue)
    BY <2>1, <2>2
  <2>4. AirFirst(air, queue')
    BY <1>0, <2>3 DEF ClockInv, Ordered, AirFirst
  <2>5. OldFirst(air)
    BY DEF ClockInv, Ordered
  <2>6. topic = "clock" => f = FreshClock
    BY DEF FreshClock
  <2> HIDE DEF f
  <2>7. Ordered'
    BY <2>3, <2>4, <2>5 DEF Ordered, OldFirst, AirFirst
  <2> QED
    BY <1>0, <2>3, <2>6, <2>7 DEF ClockIn, OldClockIn
<1> QED
  BY <1>1, <1>2

LEMMA TailClock ==
  ASSUME IInv, ClockInv, queue # <<>>, queue' = Tail(queue), air' = air
  PROVE  /\ Ordered'
         /\ ClockIn(queue) => ClockIn(queue)' \/ Head(queue) = FreshClock
         /\ ~OldClockIn(queue) => ~OldClockIn(queue)'
         /\ Head(queue) = FreshClock => ~OldClockIn(queue)'
<1>1. queue \in Seq(Frame) /\ OldFirst(queue) /\ OldFirst(air) /\ AirFirst(air, queue)
  BY DEF IInv, TypeOK, ClockInv, Ordered
<1>2. /\ OldFirst(queue')
      /\ ClockIn(queue) => ClockIn(queue') \/ Head(queue) = FreshClock
      /\ ~OldClockIn(queue) => ~OldClockIn(queue')
      /\ Head(queue) = FreshClock => ~OldClockIn(queue')
      /\ \A i \in 1..Len(queue') : i + 1 \in 1..Len(queue) /\ queue'[i] = queue[i + 1]
  BY <1>1, TailFacts
<1>3. AirFirst(air, queue')
  BY <1>1, <1>2 DEF AirFirst
<1> QED
  BY <1>1, <1>2, <1>3 DEF Ordered, OldFirst, AirFirst, ClockIn, OldClockIn

LEMMA SessionClockInv ==
  ASSUME IInv, ClockInv, SessionStep
  PROVE  ClockInv'
<1>1. CASE ~ConnectStarts /\ ~Attach /\ ~PublishClock /\ ~PublishUsage
  BY <1>1, SessionKeeps, KeepsClockInv, LosesClockInv
<1>2. CASE ConnectStarts
  <2>1. pc' \notin LoopPc /\ air' = air
    BY <1>2 DEF ConnectStarts, LoopPc, radio
  <2>2. \A g \in Gens : task'[g].tx # "written"
    BY <1>2 DEF ConnectStarts, AbortAll, AbortWorker, IInv, TypeOK,
       HandlesKept, AtAwait, Workers, Over, Roles
  <2>3. Ordered'
    <3>1. queue' = queue \/ (queue # <<>> /\ queue' = Tail(queue))
      BY <1>2 DEF ConnectStarts, IInv, TypeOK, LoanFromQueue, HoldsFrame
    <3>2. CASE queue' = queue
      BY <2>1, <3>2 DEF ClockInv, Ordered, OldFirst, AirFirst
    <3> QED
      BY <2>1, <3>1, <3>2, TailClock
  <2> QED
    BY <2>1, <2>2, <2>3 DEF ClockInv, WrittenSent
<1>3. CASE Attach
  <2>1. clockSent' = FALSE /\ queue' = AllOld(queue) /\ air' = AllOld(air)
    BY <1>3 DEF Attach
  <2>2. /\ \A i \in 1..Len(queue') : queue'[i].old
        /\ \A i \in 1..Len(air') : air'[i].old
    BY <2>1, AgedQueue DEF IInv, TypeOK
  <2>3. Ordered'
    BY <2>2 DEF Ordered, OldFirst, AirFirst
  <2>4. WrittenSent'
    <3>1. \A g \in Gens : task'[g].tx # "written"
      BY <1>3 DEF Attach, IInv, TypeOK, HandlesKept, HandlesCurrent, AtAwait,
         Over, Spawned
    <3> QED
      BY <3>1 DEF WrittenSent
  <2> QED
    BY <2>1, <2>3, <2>4 DEF ClockInv
<1>4. ASSUME NEW topic \in {"clock", "usage"}, Broadcast(topic), pc \in LoopPc,
             UNCHANGED <<task, iface, devClock, bluez, dev, air>>,
             clockSent' => clockSent \/ (Accepted /\ topic = "clock")
      PROVE  ClockInv'
  <2>1. /\ DeviceSet' = DeviceSet /\ ClockIn(air)' = ClockIn(air) /\ Carries' = Carries
        /\ MarkDownPending' = MarkDownPending
    BY <1>4 DEF DeviceSet, OldClockIn, ClockIn, Carries, MarkDownPending
  <2>2. WrittenSent'
    BY <1>4, <2>1, AppendClock DEF ClockInv, WrittenSent, IInv, LoanFromQueue, HoldsFrame
  <2> QED
    BY <1>4, <2>1, <2>2, AppendClock DEF ClockInv, ClockOnItsWay
<1>5. CASE PublishClock
  BY <1>4, <1>5 DEF PublishClock, ClockRecorded, radio, LoopPc
<1>6. CASE PublishUsage
  BY <1>4, <1>6 DEF PublishUsage, radio, LoopPc
<1> QED
  BY <1>1, <1>2, <1>3, <1>5, <1>6

LEMMA TxClockInv ==
  ASSUME IInv, ClockInv, NEW g \in Gens,
         TxWrites(g) \/ TxReleases(g) \/ TxFails(g)
  PROVE  ClockInv'
<1> USE DEF session, radio
<1>0. /\ task \in [Gens -> Workers] /\ HoldsFrame(g)
      /\ queue \in Seq(Frame) /\ air \in Seq(Frame) /\ queue # <<>>
  BY DEF IInv, TypeOK, LoanFromQueue, HoldsFrame, TxWrites, TxReleases, TxFails
<1>1. \A h \in Gens : h # g => task'[h] = task[h] /\ task[h].tx # "written"
  BY <1>0, IInvOnePump
  DEF OnePump, HoldsFrame, TxAlive, TxAwaits, TxWrites, TxReleases, TxFails
<1>2. CASE TxWrites(g)
  <2>1. UNCHANGED <<pc, iface, queue, clockSent, devClock>> /\ Carries' = Carries
    BY <1>2 DEF TxWrites, Carries
  <2>2. MarkDownPending => MarkDownPending'
    BY <1>0, <1>2 DEF TxWrites, MarkDownPending, Workers, Roles
  <2>3. CASE ~Carries
    <3>1. air' = air
      BY <1>2, <2>3 DEF TxWrites
    <3> QED
      BY <2>1, <2>3, <3>1 DEF ClockInv, Ordered, OldFirst, AirFirst, WrittenSent
  <2>4. CASE Carries
    <3>1. air' = Append(air, Head(queue))
      BY <1>2, <2>4 DEF TxWrites
    <3> DEFINE f == Head(queue)
    <3>2. /\ OldFirst(queue) /\ OldFirst(air) /\ AirFirst(air, queue)
          /\ f \in Frame /\ 1 \in 1..Len(queue) /\ f = queue[1]
          /\ \A i \in 1..Len(queue) : queue[i].old => f.old
      BY <1>0, TailFacts, HeadTailProperties DEF ClockInv, Ordered
    <3>3. f.old => \A i \in 1..Len(air) : air[i].old
      BY <3>2 DEF AirFirst
    <3> HIDE DEF f
    <3>4. /\ OldFirst(Append(air, f))
          /\ ClockIn(Append(air, f)) <=> ClockIn(air) \/ f = FreshClock
          /\ OldClockIn(Append(air, f)) <=> OldClockIn(air) \/ (f.topic = "clock" /\ f.old)
          /\ \A i \in 1..Len(Append(air, f)) :
               (i \in 1..Len(air) /\ Append(air, f)[i] = air[i]) \/ Append(air, f)[i] = f
      BY <1>0, <3>2, <3>3, AppendFacts
    <3>5. /\ OldFirst(air') /\ (ClockIn(air') <=> ClockIn(air) \/ f = FreshClock)
          /\ OldClockIn(air') <=> OldClockIn(air) \/ (f.topic = "clock" /\ f.old)
          /\ \A i \in 1..Len(air') : (i \in 1..Len(air) /\ air'[i] = air[i]) \/ air'[i] = f
      BY <3>1, <3>4 DEF f
    <3>6. AirFirst(air', queue)
      BY <3>2, <3>5 DEF AirFirst
    <3>7. Ordered'
      BY <2>1, <3>2, <3>5, <3>6 DEF Ordered, OldFirst, AirFirst
    <3>8. WrittenSent'
      BY <2>1, <3>5 DEF WrittenSent, ClockIn, f
    <3>9. ~OldClockIn(queue) => ~(f.topic = "clock" /\ f.old)
      BY <3>2 DEF OldClockIn
    <3>10. ClockOnItsWay => ClockOnItsWay'
      BY <2>1, <2>2, <3>5, <3>9 DEF ClockOnItsWay, DeviceSet, ClockIn, OldClockIn
    <3> QED
      BY <2>1, <3>7, <3>8, <3>10 DEF ClockInv
  <2> QED BY <2>3, <2>4
<1>3. CASE TxReleases(g)
  <2>1. /\ UNCHANGED <<pc, iface, clockSent, devClock, air>> /\ Carries' = Carries
        /\ queue' = Tail(queue) /\ task[g].tx = "written"
    BY <1>3 DEF TxReleases, Carries
  <2>2. \A h \in Gens : task'[h].tx # "written"
    BY <1>0, <1>1, <1>3 DEF TxReleases, Workers
  <2>3. Head(queue) = FreshClock /\ Carries => ClockIn(air) \/ DeviceSet
    BY <2>1 DEF ClockInv, WrittenSent
  <2>4. MarkDownPending => MarkDownPending'
    BY <1>0, <1>3 DEF TxReleases, MarkDownPending, Workers, Roles
  <2>5. ClockIn(air)' = ClockIn(air) /\ DeviceSet' = DeviceSet
    BY <2>1 DEF ClockIn, DeviceSet, OldClockIn
  <2>6. ClockOnItsWay /\ Carries => ClockOnItsWay'
    BY <1>0, <2>1, <2>3, <2>4, <2>5, TailClock DEF ClockOnItsWay
  <2> QED
    BY <1>0, <2>1, <2>2, <2>6, TailClock DEF ClockInv, WrittenSent
<1>4. CASE TxFails(g)
  <2>1. task' = [task EXCEPT ![g].tx = "exiting"] /\ queue' = Tail(queue) /\ air' = air
    BY <1>4 DEF TxFails, AfterFailedWrite
  <2>2. MarkDownPending'
    BY <1>0, <2>1 DEF MarkDownPending, Workers, Roles
  <2>3. \A h \in Gens : task'[h].tx # "written"
    BY <1>0, <1>1, <2>1 DEF Workers
  <2> QED
    BY <1>0, <2>1, <2>2, <2>3, TailClock DEF ClockInv, ClockOnItsWay, WrittenSent
<1> QED
  BY <1>2, <1>3, <1>4

(* A delivery takes the first frame from the air and sets the clock by it.  *)
LEMMA DeliversClockInv ==
  ASSUME IInv, ClockInv, Delivers
  PROVE  ClockInv'
<1> USE DEF session
<1>1. /\ UNCHANGED <<pc, iface, clockSent, queue, task, bluez, dev>> /\ air' = Tail(air)
      /\ air # <<>> /\ air \in Seq(Frame) /\ OldFirst(air)
      /\ devClock' = IF Head(air).topic = "usage" THEN devClock
                     ELSE IF Head(air).old THEN "wrong" ELSE "right"
  BY DEF Delivers, IInv, TypeOK, ClockInv, Ordered
<1> DEFINE f == Head(air)
<1>2. /\ OldFirst(air')
      /\ ClockIn(air) => ClockIn(air') \/ f = FreshClock
      /\ ~OldClockIn(air) => ~OldClockIn(air')
      /\ f = FreshClock => ~OldClockIn(air')
      /\ \A i \in 1..Len(air') : i + 1 \in 1..Len(air) /\ air'[i] = air[i + 1]
      /\ 1 \in 1..Len(air) /\ f = air[1]
      /\ \A i \in 1..Len(air) : air[i].old => f.old
  BY <1>1, TailFacts
<1>3. f \in Frame
  BY <1>1, HeadTailProperties
<1> HIDE DEF f
<1>4. Ordered'
  BY <1>1, <1>2 DEF ClockInv, Ordered, OldFirst, AirFirst
<1>5. f = FreshClock => devClock' = "right"
  BY <1>1 DEF f, FreshClock
<1>6. DeviceSet => DeviceSet'
  <2>1. ~OldClockIn(air) => ~(f.topic = "clock" /\ f.old)
    BY <1>2 DEF OldClockIn
  <2>2. ~OldClockIn(air) => ~OldClockIn(air)'
    BY <1>2 DEF OldClockIn
  <2> QED BY <1>1, <1>3, <2>1, <2>2 DEF DeviceSet, Frame, f
<1>7. ClockIn(air) => ClockIn(air)' \/ DeviceSet'
  BY <1>2, <1>5 DEF ClockIn, DeviceSet, OldClockIn
<1>8. f = FreshClock => ~OldClockIn(queue)
  BY <1>2 DEF ClockInv, Ordered, AirFirst, OldClockIn, FreshClock
<1>9. MarkDownPending' = MarkDownPending /\ Carries' = Carries
      /\ ClockIn(queue)' = ClockIn(queue) /\ OldClockIn(queue)' = OldClockIn(queue)
  BY <1>1 DEF MarkDownPending, Carries, ClockIn, OldClockIn
<1>10. WrittenSent'
  BY <1>1, <1>6, <1>7, <1>9 DEF ClockInv, WrittenSent
<1>11. ClockIn(air) /\ ~ClockIn(air)' => DeviceSet' /\ ~OldClockIn(queue)
  BY <1>2, <1>5, <1>8 DEF ClockIn, DeviceSet, OldClockIn
<1>12. ClockOnItsWay => ClockOnItsWay'
  BY <1>6, <1>9, <1>11 DEF ClockOnItsWay
<1> QED
  BY <1>1, <1>4, <1>9, <1>10, <1>12 DEF ClockInv

THEOREM NextClockInv == IInv /\ ClockInv /\ [Next]_vars => ClockInv'
<1> SUFFICES ASSUME IInv, ClockInv, [Next]_vars PROVE ClockInv'
  OBVIOUS
<1>1. CASE SessionStep
  BY <1>1, SessionClockInv
<1>2. ASSUME NEW g \in Gens, WorkerStep(g) PROVE ClockInv'
  BY <1>2, TxClockInv, WorkerKeeps, KeepsClockInv DEF WorkerStep, TxStep
<1>3. CASE DaemonRestarts
  <2>1. /\ queue' = <<>> /\ clockSent' = FALSE /\ air' = air
        /\ \A g \in Gens : task'[g].tx = "done"
    BY <1>3 DEF DaemonRestarts, NoWorkers
  <2>2. Ordered'
    BY <2>1, EmptyFacts DEF ClockInv, Ordered, OldFirst, AirFirst
  <2> QED
    BY <2>1, <2>2 DEF ClockInv, WrittenSent
<1>4. CASE Delivers
  BY <1>4, DeliversClockInv
<1>5. CASE (Environment \/ ClockDue \/ UNCHANGED vars) /\ ~DaemonRestarts /\ ~Delivers
  BY <1>5, EnvironmentKeeps, KeepsClockInv, LosesClockInv
<1> QED
  BY <1>1, <1>2, <1>3, <1>4, <1>5 DEF Next, Environment

(* As long as the connection carries frames, a clock recorded as sent is at *)
(* the device, in the queue or in flight, or the session is about to end: a *)
(* stale clock frame is always superseded, and a clock that a connection    *)
(* accepted is lost only when that connection ends.                         *)
THEOREM SpecClockSentMeansSent == Spec => []ClockSentMeansSent
<1>1. IInv /\ ClockInv => ClockSentMeansSent
  BY DEF ClockInv, ClockOnItsWay, DeviceSet, ClockSentMeansSent
<1>2. Init /\ [][Next]_vars => [](IInv /\ ClockInv)
  BY InitIInv, NextIInv, InitClockInv, NextClockInv, PTL
<1> QED
  BY <1>1, <1>2, PTL DEF Spec

-----------------------------------------------------------------------------
(* The refinement.  What the feed sees of the workers is the tx worker of   *)
(* one slot.                                                                *)
LEMMA PumpOfOne ==
  ASSUME NEW t, NEW g \in Gens,
         \A h \in Gens : h # g => t[h].tx \notin TxAwaits
  PROVE  PumpOf(t) = IF t[g].tx = "written" THEN "written"
                     ELSE IF t[g].tx \in TxAwaits THEN "ready" ELSE "none"
BY DEF PumpOf, TxAwaits

LEMMA PumpOfNone ==
  ASSUME NEW t, \A g \in Gens : ~AtAwait(t[g])
  PROVE  PumpOf(t) = "none"
BY DEF PumpOf, TxAwaits, AtAwait, Over

LEMMA PumpOfSame ==
  ASSUME NEW t, NEW u, \A g \in Gens : u[g].tx = t[g].tx
  PROVE  PumpOf(u) = PumpOf(t)
BY DEF PumpOf

(* Without handles nobody drains the queue.                                 *)
LEMMA NoHandlesNoPump ==
  ASSUME IInv, workers = {}
  PROVE  PumpOf(task) = "none"
BY PumpOfNone DEF IInv, HandlesKept

(* Steps of the session that the promise does not know of, or only as a new *)
(* connection.                                                              *)
LEMMA SessionRefines ==
  ASSUME IInv, SessionStep
  PROVE  [Promise!Next]_(Promise!vars)
<1> USE DEF radio
<1>1. CASE UNCHANGED <<iface, task, queue, dev, bluez, air>>
  BY <1>1 DEF Promise!vars, Promise!connection, Carries, PumpOf
<1>2. CASE FindAdopts \/ FindScans \/ FindFails \/ ScanFinds \/ ScanFails \/ Retry
  BY <1>1, <1>2 DEF FindAdopts, FindScans, FindFails, ScanFinds, ScanFails, Retry
<1>3. CASE LinkFails \/ DiscoverSucceeds \/ DiscoverFails \/ CheckLink \/ ClockNotDue
           \/ Poll \/ Sleep
  BY <1>1, <1>3 DEF LinkFails, DiscoverSucceeds, DiscoverFails, CheckLink, ClockNotDue,
     Poll, Sleep
<1>4. CASE ConnectStarts
  <2>1. iface = "Down" /\ iface' = "Down" /\ UNCHANGED <<dev, bluez, air>> /\ task' = AbortAll
        /\ \/ queue' = queue
           \/ (\E g \in workers : task[g].tx = "written") /\ queue' = Tail(queue)
    BY <1>4 DEF ConnectStarts, IInv, DownOutsideLoop, LoopPc
  <2>2. PumpOf(AbortAll) = "none"
    <3>1. ASSUME NEW g \in Gens PROVE ~AtAwait(AbortAll[g])
      <4>1. AbortAll[g] = IF g \in workers THEN AbortWorker(task[g]) ELSE task[g]
        BY DEF AbortAll
      <4> QED BY <4>1 DEF IInv, HandlesKept, AbortWorker, AtAwait, Over, Roles
    <3> QED BY <3>1, PumpOfNone
  <2>3. PumpOf(task)' = "none"
    <3>1. PumpOf(task)' = PumpOf(task')
      BY DEF PumpOf
    <3> QED BY <2>1, <2>2, <3>1
  <2>4. (\E g \in workers : task[g].tx = "written") => PumpOf(task) = "written"
    BY DEF PumpOf, IInv, TypeOK
  <2>5. CASE PumpOf(task) = "none"
    BY <2>1, <2>3, <2>4, <2>5 DEF Promise!vars, Promise!connection, Carries
  <2>6. CASE PumpOf(task) # "none"
    <3>1. Promise!PumpAborted
      BY <2>1, <2>3, <2>4, <2>6 DEF Promise!PumpAborted, Promise!connection, Carries
    <3> QED BY <3>1 DEF Promise!Next
  <2> QED BY <2>5, <2>6
<1>5. CASE LinkSucceeds
  <2>1. UNCHANGED <<iface, task, queue>> /\ iface = "Down" /\ PumpOf(task) = "none"
    BY <1>5, NoHandlesNoPump DEF LinkSucceeds, IInv, HandlesCurrent, DownOutsideLoop, LoopPc
  <2>2. CASE UNCHANGED <<dev, bluez, air>>
    BY <1>1, <2>1, <2>2
  <2>3. CASE ~UNCHANGED <<dev, bluez, air>>
    <3>1. dev = "advertising" /\ dev' = "connected" /\ bluez' = "up" /\ air' = air
      BY <1>5, <2>3 DEF LinkSucceeds
    <3>2. Promise!Links
      BY <2>1, <3>1 DEF Promise!Links, Carries, PumpOf
    <3> QED BY <3>2 DEF Promise!Next
  <2> QED BY <2>2, <2>3
<1>6. CASE Attach
  <2>1. workers = {} /\ iface = "Down" /\ PumpOf(task) = "none"
    BY <1>6, NoHandlesNoPump DEF Attach, IInv, HandlesCurrent, DownOutsideLoop, LoopPc
  <2>2. PICK g \in Gens : task' = [task EXCEPT ![g] = Spawned]
    BY <1>6 DEF Attach
  <2>3. PumpOf(task)' = "ready"
    <3>1. task'[g] = Spawned /\ \A h \in Gens : h # g => task'[h].tx \notin TxAwaits
      BY <2>1, <2>2 DEF IInv, TypeOK, HandlesKept, AtAwait, TxAwaits, Over
    <3>2. PumpOf(task') = "ready"
      BY <3>1, PumpOfOne DEF Spawned, TxAwaits
    <3> QED BY <3>2 DEF PumpOf
  <2>4. Promise!Attaches
    BY <1>6, <2>1, <2>3 DEF Attach, Promise!Attaches, AllOld, Promise!AllOld, Carries
  <2> QED BY <2>4 DEF Promise!Next
<1>7. CASE Teardown
  <2>1. UNCHANGED <<iface, queue, dev>> /\ (task' = task \/ task' = Told(task))
    BY <1>7 DEF Teardown
  <2>2. PumpOf(task)' = PumpOf(task)
    <3>1. PumpOf(task') = PumpOf(task)
      BY <2>1, ToldFacts, PumpOfSame DEF IInv, TypeOK
    <3> QED BY <3>1 DEF PumpOf
  <2>3. CASE Carries' = Carries
    <3>1. air' = air
      BY <1>7, <2>3 DEF Teardown, Carries, IInv, AirCarried
    <3> QED BY <2>1, <2>2, <2>3, <3>1 DEF Promise!vars, Promise!connection
  <2>4. CASE Carries' # Carries
    <3>1. Carries /\ ~Carries' /\ air' = <<>>
      BY <1>7, <2>4 DEF Teardown, Carries
    <3>2. Promise!Breaks
      BY <2>1, <2>2, <3>1 DEF Promise!Breaks
    <3> QED BY <3>2 DEF Promise!Next
  <2> QED BY <2>3, <2>4
<1>8. CASE PublishClock \/ PublishUsage
  <2>1. PICK topic \in {"clock", "usage"} : Broadcast(topic)
    BY <1>8 DEF PublishClock, PublishUsage
  <2>2. UNCHANGED <<iface, task, dev, bluez, air>>
    BY <1>8 DEF PublishClock, PublishUsage
  <2>3. CASE ~Accepted
    BY <1>1, <2>1, <2>2, <2>3 DEF Broadcast
  <2>4. CASE Accepted
    <3> DEFINE frame == [topic |-> topic, old |-> FALSE]
    <3>1. frame \in [topic : {"clock", "usage"}, old : {FALSE}]
      OBVIOUS
    <3>2. Promise!Publishes(frame)
      BY <2>1, <2>2, <2>4 
         DEF Broadcast, Accepted, Room, Promise!Publishes, Promise!connection, Carries, PumpOf
    <3> QED BY <3>1, <3>2 DEF Promise!Next
  <2> QED BY <2>3, <2>4
<1> QED
  BY <1>2, <1>3, <1>4, <1>5, <1>6, <1>7, <1>8 DEF SessionStep

(* The tx worker's steps are the pump's, and mark_down takes the interface  *)
(* down.                                                                    *)
LEMMA WorkerRefines ==
  ASSUME IInv, NEW g \in Gens, WorkerStep(g)
  PROVE  [Promise!Next]_(Promise!vars)
<1> USE DEF radio, session
<1>0. task \in [Gens -> Workers]
  BY DEF IInv, TypeOK
<1>1. CASE WatcherStep(g) \/ RxStep(g)
  <2>1. /\ UNCHANGED <<iface, queue, dev, bluez, air>>
        /\ \A h \in Gens : task'[h].tx = task[h].tx
    BY <1>0, <1>1 DEF WatcherStep, WatcherSubscribes, WatcherWakes, WatcherStreamEnds,
       RxStep, RxSubscribes, RxStreamEnds, Workers
  <2>2. PumpOf(task') = PumpOf(task)
    BY <2>1, PumpOfSame
  <2> QED BY <2>1, <2>2 DEF Promise!vars, Promise!connection, Carries, PumpOf
<1>2. CASE TxStep(g)
  <2>1. /\ UNCHANGED <<iface, dev, bluez>> /\ task[g].tx \in TxAwaits
        /\ PumpOf(task) = IF task[g].tx = "written" THEN "written" ELSE "ready"
    <3>1. UNCHANGED <<iface, dev, bluez>> /\ task[g].tx \in TxAwaits
      BY <1>2 DEF TxStep, TxTakes, TxWrites, TxReleases, TxFails, TxAwaits
    <3>2. \A h \in Gens : h # g => task[h].tx \notin TxAwaits
      BY <3>1, IInvOnePump DEF OnePump, TxAlive
    <3> QED BY <3>1, <3>2, PumpOfOne
  <2>2. ASSUME NEW s, task' = [task EXCEPT ![g].tx = s]
        PROVE  PumpOf(task)' = IF s = "written" THEN "written"
                               ELSE IF s \in TxAwaits THEN "ready" ELSE "none"
    <3>1. task'[g].tx = s /\ \A h \in Gens : h # g => task'[h].tx \notin TxAwaits
      BY <1>0, <2>1, <2>2, IInvOnePump DEF OnePump, TxAlive, Workers
    <3>2. PumpOf(task') = IF s = "written" THEN "written"
                          ELSE IF s \in TxAwaits THEN "ready" ELSE "none"
      BY <3>1, PumpOfOne
    <3> QED BY <3>2 DEF PumpOf
  <2> DEFINE Seen(s) == IF s = "written" THEN "written"
                         ELSE IF s \in TxAwaits THEN "ready" ELSE "none"
  <2>3. Seen("waiting") = "ready" /\ Seen("writing") = "ready" /\ Seen("exiting") = "none"
    BY DEF TxAwaits
  <2>4. HoldsFrame(g) => queue # <<>>
    BY DEF IInv, LoanFromQueue
  <2>5. CASE TxTakes(g)
    <3>1. UNCHANGED <<queue, air>> /\ task[g].tx = "waiting" /\ task' = [task EXCEPT ![g].tx = "writing"]
      BY <2>5 DEF TxTakes
    <3>2. PumpOf(task)' = "ready"
      BY <2>2, <2>3, <3>1, Zenon
    <3> QED BY <2>1, <3>1, <3>2 DEF Promise!vars, Promise!connection, Carries
  <2>6. CASE TxWrites(g)
    <3>1. task[g].tx = "writing" /\ task' = [task EXCEPT ![g].tx = "written"]
      BY <2>6 DEF TxWrites
    <3>2. PumpOf(task)' = "written"
      BY <2>2, <3>1
    <3>3. Promise!Writes
      BY <2>1, <2>4, <2>6, <3>1, <3>2 DEF TxWrites, HoldsFrame, Carries, Promise!Writes
    <3> QED BY <3>3 DEF Promise!Next
  <2>7. CASE TxReleases(g)
    <3>1. task[g].tx = "written" /\ task' = [task EXCEPT ![g].tx = "waiting"]
      BY <2>7 DEF TxReleases
    <3>2. PumpOf(task)' = "ready"
      BY <2>2, <2>3, <3>1, Zenon
    <3>3. Promise!Releases
      BY <2>1, <2>7, <3>1, <3>2 
         DEF TxReleases, Promise!Releases, Promise!connection, Carries
    <3> QED BY <3>3 DEF Promise!Next
  <2>8. CASE TxFails(g)
    <3>1. task[g].tx = "writing" /\ task' = [task EXCEPT ![g].tx = "exiting"]
      BY <2>8 DEF TxFails, AfterFailedWrite
    <3>2. PumpOf(task)' = "none"
      BY <2>2, <2>3, <3>1, Zenon
    <3>3. Promise!WriteFails
      BY <2>1, <2>4, <2>8, <3>1, <3>2
      DEF TxFails, HoldsFrame, Promise!WriteFails, Promise!AfterFailedWrite,
          Promise!connection, Carries
    <3> QED BY <3>3 DEF Promise!Next
  <2> QED BY <1>2, <2>5, <2>6, <2>7, <2>8 DEF TxStep
<1>3. ASSUME NEW r \in Roles, MarkDown(g, r) PROVE [Promise!Next]_(Promise!vars)
  <2>1. UNCHANGED <<queue, dev, bluez, air>> /\ iface' = "Down"
    BY <1>3 DEF MarkDown
  <2>2. PumpOf(task)' = PumpOf(task)
    <3>1. \A h \in Gens : \/ task'[h].tx = task[h].tx
                          \/ task'[h].tx = "done" /\ task[h].tx = "exiting"
      BY <1>0, <1>3 DEF MarkDown, Workers, Roles
    <3> QED BY <3>1 DEF PumpOf, TxAwaits
  <2>3. CASE iface = "Down"
    BY <2>1, <2>2, <2>3 DEF Promise!vars, Promise!connection, Carries
  <2>4. CASE iface # "Down"
    <3>1. iface = "Active"
      BY <2>4 DEF IInv, TypeOK
    <3>2. Promise!GoesDown
      BY <2>1, <2>2, <3>1 DEF Promise!GoesDown, Promise!connection, Carries
    <3> QED BY <3>2 DEF Promise!Next
  <2> QED BY <2>3, <2>4
<1> QED
  BY <1>1, <1>2, <1>3 DEF WorkerStep

LEMMA EnvironmentRefines ==
  ASSUME IInv, Environment \/ ClockDue \/ UNCHANGED vars
  PROVE  [Promise!Next]_(Promise!vars)
<1> USE DEF radio, session
<1>1. ASSUME task' = task \/ task' = Told(task) PROVE PumpOf(task)' = PumpOf(task)
  <2>1. PumpOf(task') = PumpOf(task)
    BY <1>1, ToldFacts, PumpOfSame DEF IInv, TypeOK
  <2> QED BY <2>1 DEF PumpOf
<1>2. CASE Delivers
  <2>1. Promise!Delivers
    BY <1>1, <1>2 DEF Delivers, Promise!Delivers, Carries
  <2> QED BY <2>1 DEF Promise!Next
<1>3. CASE LinkDrops \/ DeviceLeaves \/ LinkTimesOut \/ DeviceAdvertises \/ BlueZNotices
           \/ ClockDue \/ UNCHANGED vars
  <2>1. /\ UNCHANGED <<iface, queue>> /\ PumpOf(task)' = PumpOf(task)
        /\ dev' = "connected" => dev = "connected"
        /\ \/ air' = air /\ (Carries <=> Carries')
           \/ air' = <<>> /\ Carries /\ ~Carries'
    BY <1>1, <1>3 DEF LinkDrops, DeviceLeaves, LinkTimesOut, DeviceAdvertises, BlueZNotices,
       ClockDue, vars, Carries
  <2>2. CASE (dev' = "connected") = (dev = "connected") /\ (Carries <=> Carries')
    BY <2>1, <2>2 DEF Promise!vars, Promise!connection
  <2>3. CASE (dev' = "connected") = (dev = "connected") /\ Carries /\ ~Carries'
    <3>1. Promise!Breaks
      BY <2>1, <2>3 DEF Promise!Breaks
    <3> QED BY <3>1 DEF Promise!Next
  <2>4. CASE dev = "connected" /\ dev' # "connected"
    <3>1. ~Carries' /\ air' = <<>>
      BY <2>1, <2>4 DEF Carries, IInv, AirCarried
    <3>2. Promise!Disconnects
      BY <2>1, <2>4, <3>1 DEF Promise!Disconnects
    <3> QED BY <3>2 DEF Promise!Next
  <2> QED BY <2>1, <2>2, <2>3, <2>4 DEF Carries
<1>4. CASE DaemonRestarts
  <2>1. PumpOf(task') = "none"
    BY <1>4, PumpOfNone DEF DaemonRestarts, NoWorkers, AtAwait, Over
  <2>2. Promise!Restarts
    BY <1>4, <2>1 DEF DaemonRestarts, Promise!Restarts, Promise!connection, Carries, PumpOf
  <2> QED BY <2>2 DEF Promise!Next
<1> QED
  BY <1>2, <1>3, <1>4 DEF Environment

(* Implements: the session loop, its workers and their failures keep the    *)
(* promise that the feed is built on.                                       *)
THEOREM SpecImplements == Spec => Implements
<1>1. Init => Promise!Init
  <2> SUFFICES ASSUME Init PROVE Promise!Init
    OBVIOUS
  <2>1. PumpOf(task) = "none"
    BY PumpOfNone DEF Init, NoWorkers, AtAwait, Over
  <2> QED BY <2>1 DEF Init, Promise!Init, Carries
<1>2. IInv /\ [Next]_vars => [Promise!Next]_(Promise!vars)
  BY SessionRefines, WorkerRefines, EnvironmentRefines DEF Next
<1> QED
  BY <1>1, <1>2, SpecIInv, PTL DEF Spec, Implements, Promise!Spec
=============================================================================
