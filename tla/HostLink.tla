------------------------------ MODULE HostLink ------------------------------
(***************************************************************************)
(* The host daemon's link to the device: the session loop of               *)
(* claudial-host/src/main.rs, the BLE transport of                         *)
(* claudial-host/src/transport.rs with the three worker tasks it spawns    *)
(* per session, the outbound frame queue that outlives every session, and  *)
(* the two things they talk to: BlueZ's view of the connection and the     *)
(* device's radio.  It implements HostPromise.                               *)
(*                                                                         *)
(* A worker is aborted by tokio at an await.  A worker that has left its   *)
(* last await ("exiting") can no longer be stopped: it will call mark_down *)
(* however late, and every spawn is given a slot of Gens so that the       *)
(* workers of an old session can linger beside those of the current one.   *)
(***************************************************************************)
EXTENDS Naturals, Sequences

CONSTANTS Gens,        \* slots for sets of workers alive at the same time
          QCap,        \* frames the outbound queue holds
          AirCap,      \* frames BlueZ takes before it has delivered any
          MaxFaults    \* bound on the faults of the environment

ASSUME HostLinkAssumption == /\ Gens # {}
                             /\ {QCap, AirCap} \subseteq Nat \ {0}
                             /\ MaxFaults \in Nat

VARIABLES
  pc,         \* where the session loop is
  iface,      \* the ergot interface state, the only thing sessions poll
  task,       \* the state of each worker
  workers,    \* slots whose JoinHandles are in the workers vector
  queue,      \* outbound frames, shared by every session
  clockSent,  \* previous_clock_sync is set and not due again
  bluez,      \* BlueZ's view of the connection
  dev,        \* the device's own view
  air,        \* frames that BlueZ has accepted and not delivered yet
  devClock,   \* what the last clock frame delivered did to the device's clock
  faults      \* faults so far

session == <<pc, workers, clockSent>>
radio == <<bluez, dev, air, faults>>
vars == <<pc, iface, task, workers, queue, clockSent, bluez, dev, air,
          devClock, faults>>

-----------------------------------------------------------------------------
(* A frame is the topic it carries and whether an earlier session queued   *)
(* it; its payload is then the time or the usage of that earlier session.  *)
Frame == [topic : {"clock", "usage"}, old : BOOLEAN]

LoopPc == {"check", "clock", "poll", "usage", "sleep"}
ConnectPc == {"connect", "link", "discover", "attach"}
Pc == LoopPc \cup ConnectPc \cup {"find", "scan", "teardown", "retry"}

(* The awaits of each worker, where abort can stop it.                      *)
WatcherAwaits == {"subscribing", "watching", "told"}
RxAwaits == {"subscribing", "reading"}
TxAwaits == {"waiting", "writing", "written"}
Over == {"exiting", "done"}

Workers == [watcher : WatcherAwaits \cup Over,
            rx      : RxAwaits \cup Over,
            tx      : TxAwaits \cup Over]
Roles == {"watcher", "rx", "tx"}

NoWorkers == [watcher |-> "done", rx |-> "done", tx |-> "done"]
Spawned == [watcher |-> "subscribing", rx |-> "subscribing", tx |-> "waiting"]

(* bbqueue lends the head of the queue to one reader at a time.             *)
TxAlive(g) == task[g].tx \in TxAwaits
HoldsFrame(g) == task[g].tx \in {"writing", "written"}

Room == Len(queue) < QCap
Fault == faults < MaxFaults /\ faults' = faults + 1

(* A failure that is bound to happen when "expected", and a fault otherwise. *)
FaultUnless(expected) == IF expected THEN UNCHANGED faults ELSE Fault

(* Topics broadcast through the controller's edge: an error unless the      *)
(* interface is Active and the sink has room for the frame.                 *)
Accepted == iface = "Active" /\ Room
Broadcast(topic) ==
  queue' = IF Accepted THEN Append(queue, [topic |-> topic, old |-> FALSE])
                       ELSE queue

(* A connection carries frames while both ends hold it; BlueZ and the       *)
(* device learn of its end apart, each by a timeout of its own.             *)
Carries == bluez = "up" /\ dev = "connected"

(* What an earlier session published is old.                                *)
AllOld(frames) == [i \in 1..Len(frames) |-> [frames[i] EXCEPT !.old = TRUE]]

(* BlueZ tells a subscribed watcher that the device is gone.                *)
Told(t) == [g \in Gens |->
              IF t[g].watcher = "watching" THEN [t[g] EXCEPT !.watcher = "told"]
                                           ELSE t[g]]
-----------------------------------------------------------------------------
Init ==
  /\ pc = "find"
  /\ iface = "Down"
  /\ task = [g \in Gens |-> NoWorkers]
  /\ workers = {}
  /\ queue = <<>>
  /\ clockSent = FALSE
  /\ \/ bluez = "none" /\ dev = "advertising"
     \/ bluez = "up" /\ dev \in {"connected", "advertising", "off"}
     \/ bluez = "stale" /\ dev \in {"advertising", "off"}
  /\ air = <<>>
  /\ devClock = "unset"
  /\ faults = 0

-----------------------------------------------------------------------------
(* find_device: a connection BlueZ still holds first, an advertisement      *)
(* second.                                                                  *)
FindAdopts ==
  /\ pc = "find"
  /\ bluez # "none"
  /\ pc' = "connect"
  /\ UNCHANGED <<iface, task, workers, queue, clockSent, devClock, radio>>

FindScans ==
  /\ pc = "find"
  /\ FaultUnless(bluez = "none")
  /\ pc' = "scan"
  /\ UNCHANGED <<iface, task, workers, queue, clockSent, bluez, dev, air,
                 devClock>>

FindFails ==       \* no adapter
  /\ pc = "find"
  /\ Fault
  /\ pc' = "retry"
  /\ UNCHANGED <<iface, task, workers, queue, clockSent, bluez, dev, air,
                 devClock>>

ScanFinds ==
  /\ pc = "scan"
  /\ dev = "advertising"
  /\ pc' = "connect"
  /\ UNCHANGED <<iface, task, workers, queue, clockSent, devClock, radio>>

(* SCAN_TIMEOUT is hundreds of advertising intervals: an advertising device *)
(* is missed only by a fault.                                               *)
ScanFails ==
  /\ pc = "scan"
  /\ FaultUnless(dev # "advertising")
  /\ pc' = "retry"
  /\ UNCHANGED <<iface, task, workers, queue, clockSent, bluez, dev, air,
                 devClock>>

-----------------------------------------------------------------------------
(* connect: abort the previous session's workers, then refuse to attach     *)
(* over an interface that is not Down.                                      *)
AbortWorker(w) ==
  [r \in Roles |-> IF w[r] \in Over THEN w[r] ELSE "done"]

AbortAllButTx ==
  [g \in Gens |-> IF g \in workers
                  THEN [AbortWorker(task[g]) EXCEPT !.tx = task[g].tx]
                  ELSE task[g]]
AbortAll == [g \in Gens |-> IF g \in workers THEN AbortWorker(task[g])
                                             ELSE task[g]]

ConnectStarts ==
  /\ pc = "connect"
  /\ task' = AbortAll
  /\ workers' = {}
  \* A write that BlueZ has carried out, and whose worker is dropped before
  \* it releases the frame, leaves the frame at the head of the queue.
  /\ \/ queue' = queue
     \/ /\ \E g \in workers : task[g].tx = "written"
        /\ queue' = Tail(queue)
  /\ pc' = IF iface = "Down" THEN "link" ELSE "teardown"
  /\ UNCHANGED <<iface, clockSent, devClock, radio>>

(* connect_device: nothing to do for a link BlueZ reports as up.            *)
LinkSucceeds ==
  /\ pc = "link"
  /\ \/ bluez # "none" /\ UNCHANGED <<bluez, dev, air>>
     \/ /\ bluez = "none" /\ dev = "advertising"
        /\ bluez' = "up" /\ dev' = "connected" /\ UNCHANGED air
  /\ pc' = "discover"
  /\ UNCHANGED <<iface, task, workers, queue, clockSent, devClock, faults>>

LinkFails ==
  /\ pc = "link"
  /\ FaultUnless(bluez = "none" /\ dev # "advertising")
  /\ pc' = "teardown"
  /\ UNCHANGED <<iface, task, workers, queue, clockSent, bluez, dev, air,
                 devClock>>

DiscoverSucceeds ==
  /\ pc = "discover"
  /\ bluez = "up"      \* BlueZ may know the services without asking
  /\ pc' = "attach"
  /\ UNCHANGED <<iface, task, workers, queue, clockSent, devClock, radio>>

DiscoverFails ==
  /\ pc = "discover"
  /\ FaultUnless(~Carries)
  /\ pc' = "teardown"
  /\ UNCHANGED <<iface, task, workers, queue, clockSent, bluez, dev, air,
                 devClock>>

(* The interface goes Active, the three workers are spawned, and the        *)
(* session starts with no clock sent.  What is still on its way is now old. *)
(* Slots are alike, so it does not matter which free one is taken.          *)
FreeSlot == CHOOSE g \in Gens : task[g] = NoWorkers

Attach ==
  /\ pc = "attach"
  /\ iface' = "Active"
  /\ \E g \in Gens :
       /\ task[g] = NoWorkers /\ g = FreeSlot
       /\ task' = [task EXCEPT ![g] = Spawned]
       /\ workers' = workers \cup {g}
  /\ queue' = AllOld(queue) /\ air' = AllOld(air)
  /\ clockSent' = FALSE
  /\ pc' = "check"
  /\ UNCHANGED <<devClock, bluez, dev, faults>>

(* session, on an error of connect: disconnect, best effort.                *)
TeardownLeavesLink ==
  /\ pc = "teardown"
  /\ pc' = "retry"
  /\ UNCHANGED <<iface, task, workers, queue, clockSent, devClock, radio>>

Teardown ==
  /\ pc = "teardown"
  /\ \/ bluez' = "none" /\ task' = Told(task) /\ air' = <<>> /\ UNCHANGED faults
     \/ UNCHANGED <<bluez, task, air>> /\ Fault
  /\ pc' = "retry"
  /\ UNCHANGED <<iface, workers, queue, clockSent, dev, devClock>>

Retry ==
  /\ pc = "retry"
  /\ pc' = "find"
  /\ UNCHANGED <<iface, task, workers, queue, clockSent, devClock, radio>>

-----------------------------------------------------------------------------
(* session's loop.                                                          *)
CheckLink ==
  /\ pc = "check"
  /\ pc' = IF iface = "Active" THEN "clock" ELSE "retry"
  /\ UNCHANGED <<iface, task, workers, queue, clockSent, devClock, radio>>

(* previous_clock_sync is set only when the broadcast was accepted.         *)
ClockAssumedSent == TRUE
ClockRecorded == Accepted

PublishClock ==
  /\ pc = "clock"
  /\ ~clockSent
  /\ Broadcast("clock")
  /\ clockSent' = ClockRecorded
  /\ pc' = "poll"
  /\ UNCHANGED <<iface, task, workers, devClock, radio>>

ClockNotDue ==
  /\ pc = "clock"
  /\ clockSent
  /\ pc' = "poll"
  /\ UNCHANGED <<iface, task, workers, queue, clockSent, devClock, radio>>

(* usage.poll() returns within its 20 s timeout; a failure is logged and    *)
(* the session goes on.                                                     *)
AfterPropagatedPoll == "retry"
AfterFailedPoll == "sleep"

Poll ==
  /\ pc = "poll"
  /\ pc' \in {"usage", AfterFailedPoll}
  /\ UNCHANGED <<iface, task, workers, queue, clockSent, devClock, radio>>

PublishUsage ==
  /\ pc = "usage"
  /\ Broadcast("usage")
  /\ pc' = "sleep"
  /\ UNCHANGED <<iface, task, workers, clockSent, devClock, radio>>

Sleep ==
  /\ pc = "sleep"
  /\ pc' = "check"
  /\ UNCHANGED <<iface, task, workers, queue, clockSent, devClock, radio>>

(* An hour passes, or the local UTC offset changes: a clock is due again.   *)
ClockDue ==
  /\ clockSent
  /\ clockSent' = FALSE
  /\ UNCHANGED <<pc, iface, task, workers, queue, devClock, radio>>

-----------------------------------------------------------------------------
(* link_watcher.                                                            *)
WatcherSubscribes(g) ==
  /\ task[g].watcher = "subscribing"
  /\ \/ task' = [task EXCEPT ![g].watcher = "watching"] /\ UNCHANGED faults
     \/ task' = [task EXCEPT ![g].watcher = "done"] /\ Fault
  /\ UNCHANGED <<session, iface, queue, bluez, dev, air, devClock>>

WatcherWakes(g) ==
  /\ task[g].watcher = "told"
  /\ task' = [task EXCEPT ![g].watcher = "exiting"]
  /\ UNCHANGED <<session, iface, queue, devClock, radio>>

(* The event stream ends without a Disconnected: no mark_down.              *)
WatcherStreamEnds(g) ==
  /\ task[g].watcher = "watching"
  /\ Fault
  /\ task' = [task EXCEPT ![g].watcher = "done"]
  /\ UNCHANGED <<session, iface, queue, bluez, dev, air, devClock>>

(* The rx task: a failed subscription is only logged.                       *)
RxSubscribes(g) ==
  /\ task[g].rx = "subscribing"
  /\ \/ /\ Carries
        /\ task' = [task EXCEPT ![g].rx = "reading"]
        /\ UNCHANGED faults
     \/ /\ FaultUnless(~Carries)
        /\ task' = [task EXCEPT ![g].rx = "done"]
  /\ UNCHANGED <<session, iface, queue, bluez, dev, air, devClock>>

(* rx_worker: the notification stream fails or ends.  On a dropped link     *)
(* BlueZ may do neither.                                                    *)
RxStreamEnds(g) ==
  /\ task[g].rx = "reading"
  /\ FaultUnless(bluez # "up")
  /\ task' = [task EXCEPT ![g].rx = "exiting"]
  /\ UNCHANGED <<session, iface, queue, bluez, dev, air, devClock>>

(* tx_worker.                                                               *)
TxTakes(g) ==
  /\ task[g].tx = "waiting"
  /\ queue # <<>>
  /\ \A h \in Gens : ~HoldsFrame(h)
  /\ task' = [task EXCEPT ![g].tx = "writing"]
  /\ UNCHANGED <<session, iface, queue, devClock, radio>>

(* write_without_response returns when BlueZ has taken the frame.  Nothing  *)
(* is said of its delivery: over a connection that has ended, and that      *)
(* BlueZ still reports, the frame is accepted and lost.                     *)
TxWrites(g) ==
  /\ task[g].tx = "writing"
  /\ bluez = "up"
  /\ \/ Carries /\ Len(air) < AirCap /\ air' = Append(air, Head(queue))
     \/ ~Carries /\ UNCHANGED air
  /\ task' = [task EXCEPT ![g].tx = "written"]
  /\ UNCHANGED <<session, iface, queue, devClock, bluez, dev, faults>>

TxReleases(g) ==
  /\ task[g].tx = "written"
  /\ task' = [task EXCEPT ![g].tx = "waiting"]
  /\ queue' = Tail(queue)
  /\ UNCHANGED <<session, iface, devClock, radio>>

(* The failed frame is released too, and the loop is left for mark_down.    *)
AfterSilentWrite == "done"
AfterFailedWrite == "exiting"

TxFails(g) ==
  /\ task[g].tx = "writing"
  /\ FaultUnless(bluez # "up")
  /\ task' = [task EXCEPT ![g].tx = AfterFailedWrite]
  /\ queue' = Tail(queue)
  /\ UNCHANGED <<session, iface, bluez, dev, air, devClock>>

MarkDown(g, r) ==
  /\ task[g][r] = "exiting"
  /\ iface' = "Down"
  /\ task' = [task EXCEPT ![g][r] = "done"]
  /\ UNCHANGED <<session, queue, devClock, radio>>

-----------------------------------------------------------------------------
(* The environment.                                                         *)

(* The device receives a frame; a clock frame sets its clock.               *)
Delivers ==
  /\ Carries
  /\ air # <<>>
  /\ air' = Tail(air)
  /\ devClock' = IF Head(air).topic = "usage" THEN devClock
                 ELSE IF Head(air).old THEN "wrong" ELSE "right"
  /\ UNCHANGED <<session, iface, task, queue, bluez, dev, faults>>

(* The connection ends with all that was in flight.  BlueZ is the first to  *)
(* notice, and reports it.                                                  *)
LinkDrops ==
  /\ Carries
  /\ Fault
  /\ bluez' = "none" /\ air' = <<>>
  /\ task' = Told(task)
  /\ UNCHANGED <<session, iface, queue, dev, devClock>>

(* Or the device is, by noticing it or by rebooting, and BlueZ reports a    *)
(* connection as yet.                                                       *)
DeviceLeaves ==
  /\ Carries
  /\ Fault
  /\ dev' \in {"advertising", "off"} /\ air' = <<>>
  /\ UNCHANGED <<session, iface, task, queue, bluez, devClock>>

(* BlueZ's supervision timeout: it reports the end of the connection, or    *)
(* keeps reporting a connection that it fails every write to.               *)
LinkTimesOut ==
  /\ bluez = "up" /\ dev # "connected"
  /\ \/ bluez' = "none" /\ task' = Told(task)
     \/ bluez' = "stale" /\ UNCHANGED task
  /\ UNCHANGED <<session, iface, queue, dev, air, devClock, faults>>

BlueZNotices ==
  /\ bluez = "stale"
  /\ bluez' = "none"
  /\ task' = Told(task)
  /\ UNCHANGED <<session, iface, queue, dev, air, devClock, faults>>

(* The device's supervision timeout ends a connection the host has left.    *)
DeviceAdvertises ==
  /\ dev = "off" \/ (dev = "connected" /\ bluez # "up")
  /\ dev' = "advertising"
  /\ UNCHANGED <<session, iface, task, queue, bluez, air, devClock, faults>>

(* The daemon is restarted: the process's state is lost, BlueZ keeps the    *)
(* connection.                                                              *)
DaemonRestarts ==
  /\ Fault
  /\ pc' = "find"
  /\ iface' = "Down"
  /\ task' = [g \in Gens |-> NoWorkers]
  /\ workers' = {}
  /\ queue' = <<>>
  /\ clockSent' = FALSE
  /\ UNCHANGED <<bluez, dev, air, devClock>>

-----------------------------------------------------------------------------
SessionStep ==
  \/ FindAdopts \/ FindScans \/ FindFails \/ ScanFinds \/ ScanFails
  \/ ConnectStarts \/ LinkSucceeds \/ LinkFails
  \/ DiscoverSucceeds \/ DiscoverFails \/ Attach \/ Teardown \/ Retry
  \/ CheckLink \/ PublishClock \/ ClockNotDue \/ Poll \/ PublishUsage \/ Sleep

WatcherStep(g) == WatcherSubscribes(g) \/ WatcherWakes(g) \/ WatcherStreamEnds(g)
RxStep(g) == RxSubscribes(g) \/ RxStreamEnds(g)
TxStep(g) == TxTakes(g) \/ TxWrites(g) \/ TxReleases(g) \/ TxFails(g)

WorkerStep(g) ==
  \/ WatcherStep(g) \/ RxStep(g) \/ TxStep(g)
  \/ \E r \in Roles : MarkDown(g, r)

Environment ==
  \/ Delivers \/ LinkDrops \/ DeviceLeaves \/ LinkTimesOut
  \/ BlueZNotices \/ DeviceAdvertises \/ DaemonRestarts

Next == SessionStep \/ ClockDue \/ (\E g \in Gens : WorkerStep(g)) \/ Environment

(* The runtime polls every task that can run; an hour passes; the device    *)
(* boots; a connection delivers what it accepted, and the supervision       *)
(* timeout of either end fires.  Nothing is promised of the notification    *)
(* stream on a dead link, nor of BlueZ noticing a stale one.                *)
Fairness ==
  /\ WF_vars(SessionStep)
  /\ WF_vars(ClockDue)
  /\ \A g \in Gens : /\ WF_vars(WatcherSubscribes(g) \/ WatcherWakes(g))
                     /\ WF_vars(RxSubscribes(g))
                     /\ WF_vars(TxStep(g))
                     /\ \A r \in Roles : WF_vars(MarkDown(g, r))
  /\ WF_vars(DeviceAdvertises) /\ WF_vars(LinkTimesOut) /\ WF_vars(Delivers)

(* On a working link a frame is written in milliseconds and published once  *)
(* a minute, so the queue is not full every time that a clock is due.       *)
ClockStage == pc = "clock" /\ ~clockSent
Pumped == Carries /\ \E g \in Gens : TxAlive(g)
QueueDrains == <>[]Pumped /\ []<>ClockStage => []<>(ClockStage /\ Room)

Spec == Init /\ [][Next]_vars
FairSpec == Spec /\ Fairness /\ QueueDrains

-----------------------------------------------------------------------------
(* What UsageFeed sees of all this.                                         *)
PumpOf(t) == IF \E g \in Gens : t[g].tx = "written" THEN "written"
             ELSE IF \E g \in Gens : t[g].tx \in TxAwaits THEN "ready" ELSE "none"

Promise == INSTANCE HostPromise WITH
             hostUp <- iface = "Active",
             pump   <- PumpOf(task),
             link   <- dev = "connected",
             carries <- Carries,
             Fresh  <- [topic : {"clock", "usage"}, old : {FALSE}]

(* The session loop, its workers and their failures keep the promise that   *)
(* the feed is built on: one pump drains the queue, whatever workers linger *)
(* on, a new connection meets no pump of an old one, no frame leaves the    *)
(* queue but one that was written or whose write fails, or all with the     *)
(* daemon, and none is delivered over a connection that does not carry.     *)
Implements == Promise!Spec

TypeOK ==
  /\ pc \in Pc
  /\ iface \in {"Down", "Active"}
  /\ task \in [Gens -> Workers]
  /\ workers \subseteq Gens
  /\ queue \in Seq(Frame) /\ Len(queue) <= QCap
  /\ clockSent \in BOOLEAN
  /\ bluez \in {"none", "up", "stale"}
  /\ dev \in {"off", "advertising", "connected"}
  /\ air \in Seq(Frame) /\ Len(air) <= AirCap
  /\ devClock \in {"unset", "wrong", "right"}
  /\ faults \in 0..MaxFaults

MarkDownPending == \E g \in Gens, r \in Roles : task[g][r] = "exiting"

(* At most one session's worker drains the queue: a worker of an earlier    *)
(* session is aborted before the next one is spawned, so two of them never  *)
(* share the queue that both hold a handle to.                              *)
OnePump == \A g, h \in Gens : TxAlive(g) /\ TxAlive(h) => g = h

(* An Active interface always has a pump, or a worker about to take it      *)
(* down: the daemon never publishes into a queue nobody drains, which is    *)
(* what mark_down's comment says would go on once a minute forever.         *)
ActiveIsServed ==
  iface = "Active" => (\E g \in Gens : TxAlive(g)) \/ MarkDownPending

(* connect never meets its "BLE interface is not Down" error: every way out *)
(* of a session leaves the interface Down, whatever the late workers do.    *)
ConnectFindsDown == pc = "connect" => iface = "Down"

FreshClock == [topic |-> "clock", old |-> FALSE]
ClockIn(frames) == \E i \in 1..Len(frames) : frames[i] = FreshClock

(* previous_clock_sync is set when a broadcast is accepted, which is not    *)
(* delivery: the frame may be accepted by a dead connection and lost.  What *)
(* holds is that as long as the connection carries frames, a clock recorded *)
(* as sent has reached the device and no older one has replaced it, or it   *)
(* is in the queue or in flight, or the session is about to end.  It is     *)
(* lost only with the connection, and DeadLinkNoticed ends that session.    *)
ClockSentMeansSent ==
  clockSent /\ pc \in LoopPc /\ iface = "Active" /\ Carries =>
    devClock = "right" \/ ClockIn(queue) \/ ClockIn(air) \/ MarkDownPending

(* A connection that is gone, noticed by BlueZ or not, takes the interface  *)
(* Down even when the watcher missed it, the notification stream stays open *)
(* and BlueZ goes on to accept writes for a while.                          *)
DeadLinkNoticed == iface = "Active" /\ ~Carries ~> iface = "Down"

(* Once the faults end, the daemon finds the device, connects and stays     *)
(* connected, and the device is left with the right clock.                  *)
Settles == <>[](iface = "Active" /\ Carries /\ devClock = "right")
=============================================================================
