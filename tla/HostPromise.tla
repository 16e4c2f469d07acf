---------------------------- MODULE HostPromise ----------------------------
(***************************************************************************)
(* What the host promises of the frames that it publishes: a bounded queue *)
(* that outlives every session, and at most one pump that drains it, from  *)
(* its head and only over the connection that its session was attached     *)
(* with.  HostLink implements it, and UsageFeed is built on it.            *)
(*                                                                         *)
(* A frame is written when the connection accepts it and delivered, in     *)
(* order, as long as the connection carries frames; one that has ended     *)
(* unnoticed accepts frames and loses them.  A pump writes a frame before  *)
(* it releases it.  When it is aborted in between, the next session's pump *)
(* writes the frame again.                                                 *)
(***************************************************************************)
EXTENDS Naturals, Sequences

CONSTANTS QCap,   \* frames the queue holds
          AirCap, \* frames accepted before any of them is delivered
          Fresh   \* frames as they are published, their "old" FALSE

VARIABLES
  queue,   \* frames not released yet, "old" when an earlier session queued them
  hostUp,  \* the interface is Active
  pump,    \* the worker that drains the queue, and whether its frame is written
  link,    \* the device has its BLE connection
  carries, \* both ends have it, and it delivers what it accepts
  air      \* frames accepted and not delivered yet

connection == <<link, carries, air>>
vars == <<queue, hostUp, pump, connection>>

Init ==
  /\ queue = <<>>
  /\ hostUp = FALSE
  /\ pump = "none"
  /\ link \in BOOLEAN
  /\ carries \in BOOLEAN /\ (carries => link)
  /\ air = <<>>

-----------------------------------------------------------------------------
(* What is broadcast is accepted when the interface is Active and the queue *)
(* has room.                                                                *)
Publishes(frame) ==
  /\ hostUp
  /\ Len(queue) < QCap
  /\ queue' = Append(queue, frame)
  /\ UNCHANGED <<hostUp, pump, connection>>

Writes ==
  /\ pump = "ready"
  /\ queue # <<>>
  /\ \/ carries /\ Len(air) < AirCap /\ air' = Append(air, Head(queue))
     \/ ~carries /\ UNCHANGED air
  /\ pump' = "written"
  /\ UNCHANGED <<queue, hostUp, link, carries>>

(* The device receives what was accepted first.                             *)
Delivers ==
  /\ carries
  /\ air # <<>>
  /\ air' = Tail(air)
  /\ UNCHANGED <<queue, hostUp, pump, link, carries>>

Releases ==
  /\ pump = "written"
  /\ pump' = "ready"
  /\ queue' = Tail(queue)
  /\ UNCHANGED <<hostUp, connection>>

(* A failed write releases its frame and ends the pump, which then takes    *)
(* the interface down.  The mutant writes the frame again, last.            *)
AfterRequeue(q) == Append(Tail(q), Head(q))
AfterFailedWrite(q) == Tail(q)

WriteFails ==
  /\ pump = "ready"
  /\ queue # <<>>
  /\ pump' = "none"
  /\ queue' = AfterFailedWrite(queue)
  /\ UNCHANGED <<hostUp, connection>>

GoesDown ==
  /\ hostUp
  /\ hostUp' = FALSE
  /\ UNCHANGED <<queue, pump, connection>>

(* The next session aborts the pump of the last one.                        *)
PumpAborted ==
  /\ ~hostUp
  /\ pump # "none"
  /\ pump' = "none"
  /\ \/ queue' = queue
     \/ pump = "written" /\ queue' = Tail(queue)
  /\ UNCHANGED <<hostUp, connection>>

(* A connection is made before the session over it is attached; BlueZ may   *)
(* hold one already.                                                        *)
Links ==
  /\ ~hostUp /\ pump = "none"
  /\ ~link
  /\ link' = TRUE /\ carries' = TRUE
  /\ UNCHANGED <<queue, hostUp, pump, air>>

AllOld(frames) == [i \in 1..Len(frames) |-> [frames[i] EXCEPT !.old = TRUE]]

Attaches ==
  /\ ~hostUp /\ pump = "none"
  /\ hostUp' = TRUE
  /\ pump' = "ready"
  /\ queue' = AllOld(queue) /\ air' = AllOld(air)
  /\ UNCHANGED <<link, carries>>

(* The connection ends for the device, with all that was in flight; or the  *)
(* host is the first to know, and the device will.                          *)
Disconnects ==
  /\ link
  /\ link' = FALSE /\ carries' = FALSE /\ air' = <<>>
  /\ UNCHANGED <<queue, hostUp, pump>>

Breaks ==
  /\ carries
  /\ carries' = FALSE /\ air' = <<>>
  /\ UNCHANGED <<link, queue, hostUp, pump>>

(* The daemon restarts; BlueZ keeps the connection.                         *)
Restarts ==
  /\ queue' = <<>>
  /\ hostUp' = FALSE
  /\ pump' = "none"
  /\ UNCHANGED connection

-----------------------------------------------------------------------------
Next ==
  \/ \E frame \in Fresh : Publishes(frame)
  \/ Writes \/ Delivers \/ Releases \/ WriteFails
  \/ GoesDown \/ PumpAborted \/ Links \/ Attaches \/ Disconnects \/ Breaks \/ Restarts

Spec == Init /\ [][Next]_vars
=============================================================================
