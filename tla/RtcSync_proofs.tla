--------------------------- MODULE RtcSync_proofs ---------------------------
(***************************************************************************)
(* That an interrupted synchronization fails closed, for any set of        *)
(* requests and offsets and any number of faults, as long as no identity   *)
(* probe was interrupted.                                                  *)
(***************************************************************************)
EXTENDS RtcSync, TLAPS

(* What the chip will be believed to hold is what one request wrote.        *)
HonestChip == LET b == Settled
              IN  b.marked /\ ~osf /\ b.units \in Offsets =>
                    cal \in Syncs /\ b.units = OffsetOf[cal]

(* The steps of synchronize: the marker stays cleared while the calendar is *)
(* written, and is set only over this request's calendar.                   *)
Staged == /\ pc \in {"invalidate", "calendar", "offset", "verify"} => Encodable(req)
          /\ pc \in {"calendar", "offset"} => ~ram.marked
          /\ pc = "offset" => cal = req /\ ~osf
          /\ pc = "toggle" => saved = ram

HonestEvents == \A e \in event : \A s \in e.snapshot : Honest(s)

IInv == TypeOK /\ Staged /\ (~probeTorn => HonestChip /\ HonestEvents /\ FailsClosed)

-----------------------------------------------------------------------------
LEMMA ByteFacts ==
  /\ ZeroByte \in Byte /\ ~ZeroByte.marked
  /\ \A b \in Byte : Toggle(b) \in Byte
  /\ \A s \in Syncs : /\ Encode(s) \in Byte /\ Encode(s).marked
                      /\ Encode(s).units = OffsetOf[s]
BY RtcSyncAssumption DEF ZeroByte, Byte, Toggle, Encode

(* A snapshot read from an honest chip outside a probe is honest.           *)
LEMMA NowFacts ==
  ASSUME TypeOK
  PROVE  /\ Now \in Snapshot
         /\ HonestChip /\ pc \notin Probing => Honest(Now)
<1>1. Decode(ram) \in Option(Offsets)
  <2>1. ram.units \in Units
    BY DEF TypeOK, Byte
  <2>2. CASE ram.marked /\ ram.units \in Offsets
    <3>1. Decode(ram) = {ram.units}
      BY <2>2 DEF Decode
    <3> QED
      BY <2>2, <3>1 DEF Option
  <2>3. CASE ~(ram.marked /\ ram.units \in Offsets)
    <3>1. Decode(ram) = {}
      BY <2>3 DEF Decode
    <3> QED
      BY <3>1 DEF Option
  <2> QED
    BY <2>2, <2>3
<1>2. Now \in Snapshot
  BY <1>1 DEF TypeOK, Now, Snapshot
<1>3. ASSUME HonestChip, pc \notin Probing, Synchronized(Now)
      PROVE  Now.cal \in Syncs /\ Now.offset = {OffsetOf[Now.cal]}
  <2>1. ~osf /\ Decode(ram) # {} /\ Now.cal = cal /\ Now.offset = Decode(ram)
    BY <1>3 DEF Synchronized, Now
  <2>2. ram.marked /\ ram.units \in Offsets /\ Decode(ram) = {ram.units}
    BY <2>1 DEF Decode
  <2>3. cal \in Syncs /\ ram.units = OffsetOf[cal]
    BY <1>3, <2>1, <2>2 DEF HonestChip, Settled
  <2> QED
    BY <2>1, <2>2, <2>3
<1> QED
  BY <1>2, <1>3 DEF Honest

THEOREM InitIInv == Init => IInv
<1> SUFFICES ASSUME Init PROVE IInv
  OBVIOUS
<1> USE RtcSyncAssumption DEF Init
<1>1. ram \in Byte /\ ~ram.marked /\ saved \in Byte
  BY ByteFacts DEF Byte
<1>2. TypeOK
  <2>1. /\ cal \in Calendars /\ pc \in Pc /\ sync \in Option(Syncs)
        /\ event \in Option([snapshot : Option(Snapshot)])
        /\ latest \in Option(Snapshot)
    BY DEF Calendars, Pc, Option
  <2>2. faults \in 0..MaxFaults
    OBVIOUS
  <2> QED
    BY <1>1, <2>1, <2>2 DEF TypeOK
<1>3. Staged /\ HonestChip /\ HonestEvents /\ FailsClosed
  BY <1>1 DEF Staged, HonestChip, HonestEvents, FailsClosed, Settled, Probing
<1> QED
  BY <1>2, <1>3 DEF IInv

-----------------------------------------------------------------------------
(* The types.                                                               *)
LEMMA OptionFacts ==
  ASSUME NEW S
  PROVE  {} \in Option(S) /\ \A x \in S : {x} \in Option(S)
BY DEF Option

LEMMA EventFacts ==
  LET Events == Option([snapshot : Option(Snapshot)])
  IN  /\ {} \in Events /\ {Nothing} \in Events
      /\ \A s \in Snapshot : {Online(s)} \in Events
BY OptionFacts DEF Nothing, Online

LEMMA FaultType ==
  ASSUME TypeOK, Fault PROVE faults' \in 0..MaxFaults
BY RtcSyncAssumption DEF TypeOK, Fault

LEMMA TaskType ==
  ASSUME TypeOK, TaskStep PROVE TypeOK'
<1> USE RtcSyncAssumption DEF chip, Pc, Probing
<1>1. CASE Saves \/ Toggles \/ Observes \/ Restores
  BY <1>1, ByteFacts DEF TypeOK, Saves, Toggles, Observes, Restores, Restored
<1>2. CASE ReadsFlag \/ SetsControl
  BY <1>2 DEF TypeOK, ReadsFlag, SetsControl
<1>3. CASE Reads
  BY <1>3, NowFacts, EventFacts DEF TypeOK, Reads
<1>4. CASE Takes
  <2>1. PICK s \in sync : IF Encodable(s)
                          THEN req' = s /\ pc' = "invalidate" /\ UNCHANGED event
                          ELSE event' = {Nothing} /\ UNCHANGED <<req, pc>>
    BY <1>4 DEF Takes
  <2>2. s \in Syncs
    BY DEF TypeOK, Option
  <2>3. sync' = {} /\ UNCHANGED <<chip, saved, latest, probeTorn, faults>>
    BY <1>4 DEF Takes
  <2> QED
    BY <2>1, <2>2, <2>3, EventFacts, OptionFacts DEF TypeOK
<1>5. CASE Invalidates \/ SetsCalendar \/ SetsOffset
  BY <1>5, ByteFacts DEF TypeOK, Invalidates, SetsCalendar, SetsOffset, Calendars
<1>6. CASE Verifies
  BY <1>6, NowFacts, EventFacts DEF TypeOK, Verifies
<1> QED
  BY <1>1, <1>2, <1>3, <1>4, <1>5, <1>6 DEF TaskStep

LEMMA OtherType ==
  ASSUME TypeOK,
         \/ MinuteTicks \/ TakesEvent \/ (\E s \in Syncs : Requests(s))
         \/ TransactionFails \/ Resets \/ ResetsInBurst \/ BatteryDies
         \/ UNCHANGED vars
  PROVE  TypeOK'
<1> USE RtcSyncAssumption DEF chip, Pc
<1>1. CASE MinuteTicks \/ UNCHANGED vars
  BY <1>1 DEF TypeOK, MinuteTicks, vars
<1>2. CASE TakesEvent
  <2>1. latest' \in Option(Snapshot)
    BY <1>2 DEF TakesEvent, TypeOK, Option
  <2> QED
    BY <1>2, <2>1, EventFacts DEF TakesEvent, TypeOK
<1>3. CASE \E s \in Syncs : Requests(s)
  BY <1>3, OptionFacts DEF TypeOK, Requests
<1>4. CASE TransactionFails
  <2>1. /\ osf' \in BOOLEAN /\ cal' \in Calendars /\ ram' \in Byte
    BY <1>4, ByteFacts DEF TransactionFails, WriteFails, TypeOK, Calendars
  <2>2. probeTorn' \in BOOLEAN
    BY <1>4 DEF TransactionFails, Torn, TypeOK
  <2>3. pc' \in Pc
    BY <1>4 DEF TransactionFails
  <2>4. event' \in Option([snapshot : Option(Snapshot)])
    BY <1>4, EventFacts DEF TransactionFails
  <2>5. /\ faults' \in 0..MaxFaults /\ UNCHANGED <<saved, req, sync, latest>>
    BY <1>4, FaultType DEF TransactionFails
  <2> QED
    BY <2>1, <2>2, <2>3, <2>4, <2>5 DEF TypeOK
<1>5. CASE Resets \/ ResetsInBurst \/ BatteryDies
  <2>1. /\ osf' \in BOOLEAN /\ cal' \in Calendars /\ ram' \in Byte
    BY <1>5 DEF Resets, ResetsInBurst, BatteryDies, TypeOK, Calendars
  <2>2. probeTorn' \in BOOLEAN
    BY <1>5 DEF Resets, ResetsInBurst, BatteryDies, Torn, TypeOK
  <2>3. /\ faults' \in 0..MaxFaults
    BY <1>5, FaultType DEF Resets, ResetsInBurst, BatteryDies
  <2>4. /\ pc' \in Pc /\ UNCHANGED <<saved, req>>
        /\ sync' = {} /\ event' = {} /\ latest' = {}
    BY <1>5 DEF Resets, ResetsInBurst, BatteryDies
  <2> QED
    BY <2>1, <2>2, <2>3, <2>4, EventFacts, OptionFacts DEF TypeOK
<1> QED
  BY <1>1, <1>2, <1>3, <1>4, <1>5

-----------------------------------------------------------------------------
(* The stages of synchronize.                                               *)
LEMMA NextStaged ==
  ASSUME TypeOK, Staged, [Next]_vars PROVE Staged'
<1> USE DEF Staged, chip, Probing
<1>1. CASE Saves \/ Toggles \/ Observes \/ Restores \/ ReadsFlag \/ SetsControl
  BY <1>1 DEF Saves, Toggles, Observes, Restores, ReadsFlag, SetsControl
<1>2. CASE Reads \/ Verifies \/ MinuteTicks
  BY <1>2 DEF Reads, Verifies, MinuteTicks
<1>3. CASE Takes
  BY <1>3 DEF Takes, Encodable
<1>4. CASE Invalidates \/ SetsCalendar \/ SetsOffset
  BY <1>4, ByteFacts DEF Invalidates, SetsCalendar, SetsOffset, Encodable
<1>5. CASE TakesEvent \/ (\E s \in Syncs : Requests(s)) \/ UNCHANGED vars
  BY <1>5 DEF TakesEvent, Requests, vars, Encodable
<1>6. CASE TransactionFails \/ Resets \/ ResetsInBurst \/ BatteryDies
  BY <1>6 DEF TransactionFails, Resets, ResetsInBurst, BatteryDies, Booting
<1> QED
  BY <1>1, <1>2, <1>3, <1>4, <1>5, <1>6 DEF Next, TaskStep

(* Steps that leave the chip alone, as the rest of the firmware sees it.    *)
LEMMA SameChip ==
  ASSUME HonestChip, osf' = osf, cal' = cal, Settled' = Settled
  PROVE  HonestChip'
BY DEF HonestChip

LEMMA NextHonest ==
  ASSUME IInv, [Next]_vars, ~probeTorn'
  PROVE  HonestChip' /\ HonestEvents' /\ FailsClosed'
<1> USE RtcSyncAssumption DEF chip
<1>0. TypeOK /\ Staged /\ ~probeTorn /\ HonestChip /\ HonestEvents /\ FailsClosed
  <2>1. ~probeTorn
    BY DEF IInv, TypeOK, Next, TaskStep, Saves, Toggles, Observes, Restores,
       ReadsFlag, SetsControl, Reads, Takes, Invalidates, SetsCalendar,
       SetsOffset, Verifies, MinuteTicks, TakesEvent, Requests,
       TransactionFails, Resets, ResetsInBurst, BatteryDies, Torn, vars
  <2> QED
    BY <2>1 DEF IInv
<1>1. HonestEvents' /\ FailsClosed'
  <2> USE <1>0 DEF HonestEvents, FailsClosed
  <2>1. CASE UNCHANGED <<event, latest>>
    BY <2>1
  <2>2. CASE Reads
    BY <2>2, NowFacts DEF Reads, Probing, Online
  <2>3. CASE Verifies
    BY <2>3, NowFacts DEF Verifies, Probing, Online, Nothing
  <2>4. CASE Takes
    BY <2>4 DEF Takes, Nothing
  <2>5. CASE TakesEvent
    BY <2>5 DEF TakesEvent
  <2>6. CASE TransactionFails \/ Resets \/ ResetsInBurst \/ BatteryDies
    BY <2>6 DEF TransactionFails, Resets, ResetsInBurst, BatteryDies, Nothing
  <2>7. CASE \/ Saves \/ Toggles \/ Observes \/ Restores \/ ReadsFlag
             \/ SetsControl \/ Invalidates \/ SetsCalendar \/ SetsOffset
             \/ MinuteTicks \/ (\E s \in Syncs : Requests(s)) \/ UNCHANGED vars
    BY <2>1, <2>7
    DEF Saves, Toggles, Observes, Restores, ReadsFlag, SetsControl,
        Invalidates, SetsCalendar, SetsOffset, MinuteTicks, Requests, vars
  <2> QED
    BY <2>2, <2>3, <2>4, <2>5, <2>6, <2>7 DEF Next, TaskStep
<1>2. HonestChip'
  <2> USE <1>0
  <2>1. CASE \/ Saves \/ ReadsFlag \/ SetsControl \/ Reads \/ Takes \/ Verifies
             \/ MinuteTicks \/ TakesEvent \/ (\E s \in Syncs : Requests(s))
             \/ UNCHANGED vars
    BY <2>1, SameChip
    DEF Saves, ReadsFlag, SetsControl, Reads, Takes, Verifies, MinuteTicks,
        TakesEvent, Requests, vars, Settled, Probing
  <2>2. CASE Toggles \/ Observes \/ Restores
    BY <2>2, SameChip
    DEF Toggles, Observes, Restores, Restored, Settled, Probing, Staged
  <2>3. CASE Invalidates
    BY <2>3, ByteFacts DEF Invalidates, HonestChip, Settled, Probing
  <2>4. CASE SetsCalendar
    BY <2>4 DEF SetsCalendar, HonestChip, Settled, Probing, Staged
  <2>5. CASE SetsOffset
    BY <2>5, ByteFacts DEF SetsOffset, HonestChip, Settled, Probing, Staged, TypeOK
  <2>6. CASE TransactionFails
    <3>1. CASE pc \in {"toggle"} \cup Probing
      <4>1. ram' = saved /\ UNCHANGED <<osf, cal, saved>>
        BY <2>6, <3>1 DEF TransactionFails, Torn, WriteFails, Probing
      <4>2. Settled' = saved /\ Settled = saved
        BY <2>6, <3>1, <4>1 DEF TransactionFails, Settled, Probing, Booting, Staged
      <4> QED
        BY <4>1, <4>2, SameChip
    <3>2. CASE pc \notin {"toggle"} \cup Probing
      <4>1. pc' \notin Probing
        BY <2>6 DEF TransactionFails, Probing
      <4>2. CASE UNCHANGED chip
        BY <3>2, <4>1, <4>2, SameChip DEF Settled
      <4>3. CASE pc = "invalidate" /\ ram' = ZeroByte
        BY <4>1, <4>3, ByteFacts DEF HonestChip, Settled
      <4>4. CASE pc = "calendar" /\ ram' = ram
        BY <4>1, <4>4 DEF HonestChip, Settled, Staged
      <4>5. CASE pc = "offset" /\ ram' = Encode(req) /\ UNCHANGED <<osf, cal>>
        BY <4>1, <4>5, ByteFacts DEF HonestChip, Settled, Staged, TypeOK
      <4> QED
        BY <2>6, <3>2, <4>2, <4>3, <4>4, <4>5
        DEF TransactionFails, WriteFails, Probing
    <3> QED
      BY <3>1, <3>2
  <2>7. CASE Resets
    <3>1. Settled' = Settled
      BY <2>7 DEF Resets, Torn, Settled, Probing
    <3> QED
      BY <2>7, <3>1, SameChip DEF Resets
  <2>8. CASE ResetsInBurst
    BY <2>8 DEF ResetsInBurst, HonestChip, Settled, Probing, Staged
  <2>9. CASE BatteryDies
    BY <2>9 DEF BatteryDies, HonestChip
  <2> QED
    BY <2>1, <2>2, <2>3, <2>4, <2>5, <2>6, <2>7, <2>8, <2>9 DEF Next, TaskStep
<1> QED
  BY <1>1, <1>2

THEOREM NextIInv == IInv /\ [Next]_vars => IInv'
<1> SUFFICES ASSUME IInv, [Next]_vars PROVE IInv'
  OBVIOUS
<1>1. TypeOK'
  BY TaskType, OtherType DEF Next, IInv
<1>2. Staged'
  BY NextStaged DEF IInv
<1>3. ~probeTorn' => HonestChip' /\ HonestEvents' /\ FailsClosed'
  BY NextHonest
<1> QED
  BY <1>1, <1>2, <1>3 DEF IInv

(* The variables keep their types.                                          *)
THEOREM SpecTypeOK == Spec => []TypeOK
<1>1. IInv => TypeOK
  BY DEF IInv
<1> QED
  BY <1>1, InitIInv, NextIInv, PTL DEF Spec

(* However a synchronization is interrupted, the UI believes a clock only   *)
(* with the calendar and the offset of one and the same request, as long as *)
(* the identity probe of init was never interrupted.                        *)
THEOREM SpecFailsClosed == Spec => []FailsClosedUnlessTorn
<1>1. IInv => FailsClosedUnlessTorn
  BY DEF IInv, FailsClosedUnlessTorn
<1> QED
  BY <1>1, InitIInv, NextIInv, PTL DEF Spec

LEMMA KeepsStep ==
  ASSUME IInv, Next, Trusted, ~probeTorn', ~osf'
  PROVE  Trusted' \/ pc = "invalidate"
<1> SUFFICES ASSUME pc # "invalidate" PROVE Trusted'
  OBVIOUS
<1> USE DEF chip, Trusted
<1>0. TypeOK /\ Staged
  BY DEF IInv
<1>1. pc \notin {"calendar", "offset"}
  BY <1>0, ByteFacts DEF Staged, Settled, Probing
<1>2. ~Invalidates /\ ~SetsCalendar /\ ~SetsOffset /\ ~ResetsInBurst /\ ~BatteryDies
  BY <1>1 DEF Invalidates, SetsCalendar, SetsOffset, ResetsInBurst, BatteryDies
<1>3. CASE \/ Saves \/ ReadsFlag \/ SetsControl \/ Reads \/ Takes \/ Verifies
           \/ MinuteTicks \/ TakesEvent \/ (\E s \in Syncs : Requests(s))
  BY <1>3
  DEF Saves, ReadsFlag, SetsControl, Reads, Takes, Verifies, MinuteTicks,
      TakesEvent, Requests, Settled, Probing
<1>4. CASE Toggles \/ Observes \/ Restores
  BY <1>0, <1>4 DEF Toggles, Observes, Restores, Restored, Settled, Probing, Staged
<1>5. CASE TransactionFails
  <2>1. CASE pc \in {"toggle"} \cup Probing
    <3>1. ram' = saved /\ UNCHANGED <<osf, cal, saved>>
      BY <1>5, <2>1 DEF TransactionFails, Torn, WriteFails, Probing
    <3> QED
      BY <1>0, <1>5, <2>1, <3>1 DEF TransactionFails, Settled, Probing, Booting, Staged
  <2>2. CASE pc \notin {"toggle"} \cup Probing
    BY <1>1, <1>5, <2>2 DEF TransactionFails, WriteFails, Settled, Probing
  <2> QED
    BY <2>1, <2>2
<1>6. CASE Resets
  BY <1>6 DEF Resets, Torn, Settled, Probing
<1> QED
  BY <1>2, <1>3, <1>4, <1>5, <1>6 DEF Next, TaskStep

(* A synchronized clock is lost only to the next synchronization, to an     *)
(* interrupted probe or to the battery.                                     *)
THEOREM SpecKeepsSync == Spec => KeepsSync
<1>1. IInv /\ [Next]_vars =>
        [Trusted /\ ~Trusted' => pc = "invalidate" \/ osf' \/ probeTorn']_vars
  BY KeepsStep
<1> QED
  BY <1>1, InitIInv, NextIInv, PTL DEF Spec, KeepsSync

-----------------------------------------------------------------------------
(* The safety half of GetsClock: a request that synchronize has taken and   *)
(* written without a failure is read back as synchronized, with its own     *)
(* calendar and offset.  Neither the order of the writes nor a request that *)
(* arrives between them makes the read-back disagree.                       *)
ReadBackAgrees == pc = "verify" => Verified

(* What has been written at each stage.                                     *)
Progress ==
  /\ pc \in {"offset", "verify"} => ~osf /\ cal = req
  /\ pc = "verify" => ram = Encode(req)

LEMMA ProgressNext ==
  ASSUME Progress, [Next]_vars
  PROVE  Progress'
<1> USE DEF Progress
<1>1. CASE UNCHANGED vars
  BY <1>1 DEF vars, chip, Encode
<1>2. CASE TransactionFails
  BY <1>2 DEF TransactionFails, Booting, Probing
<1>3. CASE Resets \/ ResetsInBurst \/ BatteryDies
  BY <1>3 DEF Resets, ResetsInBurst, BatteryDies
<1>4. CASE Saves \/ Toggles \/ Observes \/ Restores \/ ReadsFlag \/ SetsControl \/ Reads \/ MinuteTicks
  BY <1>4 DEF Saves, Toggles, Observes, Restores, ReadsFlag, SetsControl, Reads, MinuteTicks
<1>5. CASE Takes
  BY <1>5 DEF Takes
<1>6. CASE Invalidates \/ SetsCalendar \/ SetsOffset \/ Verifies
  BY <1>6 DEF Invalidates, SetsCalendar, SetsOffset, Verifies, Encode
<1>7. CASE TakesEvent \/ \E s \in Syncs : Requests(s)
  BY <1>7 DEF TakesEvent, Requests, chip, Encode
<1> QED BY <1>1, <1>2, <1>3, <1>4, <1>5, <1>6, <1>7 DEF Next, TaskStep

THEOREM SpecReadBackAgrees == Spec => []ReadBackAgrees
<1>1. Init => Progress
  BY DEF Init, Progress
<1>2. IInv /\ Progress => ReadBackAgrees
  <2> SUFFICES ASSUME IInv, Progress, pc = "verify" PROVE Verified
    BY DEF ReadBackAgrees
  <2>1. OffsetOf[req] \in Offsets
    BY DEF IInv, Staged, Encodable
  <2>2. ram.marked /\ ram.units = OffsetOf[req] /\ ~osf /\ cal = req
    BY DEF Progress, Encode
  <2>3. Decode(ram) = {OffsetOf[req]}
    BY <2>1, <2>2 DEF Decode
  <2> QED BY <2>2, <2>3 DEF Verified, Now, Synchronized
<1> QED BY <1>1, <1>2, ProgressNext, InitIInv, NextIInv, PTL DEF Spec
=============================================================================
