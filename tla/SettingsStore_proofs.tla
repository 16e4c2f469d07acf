------------------------ MODULE SettingsStore_proofs ------------------------
(***************************************************************************)
(* The safety of SettingsStore, for every range of percentages and every   *)
(* list of timeouts, whatever other firmware left in the flash.            *)
(***************************************************************************)
EXTENDS SettingsStore, TLAPS

(* Facts about the settings: their controls.                                *)
LEMMA SettingsConstants ==
  /\ MinPercent \in Nat /\ MaxPercent \in Nat /\ StepPercent \in Nat
  /\ MinPercent <= MaxPercent
  /\ Timeouts \in Seq(Nat) /\ Len(Timeouts) \in Nat \ {0}
  /\ Default \in DisplaySettings /\ Valid(Default)
<1>1. Timeouts \in Seq(Nat) /\ Timeouts # <<>>
  BY DisplaySettingsAssumption
<1>2. Len(Timeouts) \in Nat \ {0}
  BY <1>1
<1> QED BY <1>2, DisplaySettingsAssumption

(* A stepped percentage is within its range.                                *)
LEMMA SteppedPercentInRange ==
  ASSUME NEW p \in Percents, NEW d \in Directions
  PROVE  SteppedPercent(p, d) \in Percents
BY SettingsConstants DEF Percents, Directions, SteppedPercent, Lesser, Greater

LEMMA TimeoutStepInOptions ==
  ASSUME NEW s \in DisplaySettings, NEW d \in Directions
  PROVE  /\ IdleTimeoutStep(s, d) \in DisplaySettings
         /\ Valid(s) => Valid(IdleTimeoutStep(s, d))
<1> DEFINE index == CHOOSE i \in 1..Len(Timeouts) : Timeouts[i] = s.idleTimeout
           next == IF d < 0 THEN Greater(index - 1, 1) ELSE Lesser(index + 1, Len(Timeouts))
<1>1. \E i \in 1..Len(Timeouts) : Timeouts[i] = s.idleTimeout
  BY DEF DisplaySettings, TimeoutOptions
<1>2. index \in 1..Len(Timeouts)
  BY <1>1
<1>3. next \in 1..Len(Timeouts)
  <2> HIDE DEF index
  <2> QED BY <1>2, SettingsConstants DEF Directions, Greater, Lesser
<1> HIDE DEF next
<1>4. Timeouts[next] \in TimeoutOptions
  BY <1>3 DEF TimeoutOptions
<1>5. IdleTimeoutStep(s, d) = [s EXCEPT !.idleTimeout = Timeouts[next]]
  BY DEF IdleTimeoutStep, next
<1> QED BY <1>4, <1>5 DEF DisplaySettings, Valid

(* No control leads out of the valid settings: encode_settings's assertion. *)
LEMMA EditsKeepValid ==
  ASSUME NEW s \in DisplaySettings, Valid(s), NEW t \in Edited(s)
  PROVE  t \in DisplaySettings /\ Valid(t)
<1>0. /\ s.brightness \in Percents /\ s.dimBrightness \in Percents
      /\ s.brightness \in Nat /\ s.dimBrightness \in Nat
      /\ s.dimBrightness <= s.brightness
  BY SettingsConstants DEF DisplaySettings, Valid, Percents
<1>1. CASE t = ToggleAutoDim(s)
  BY <1>1, <1>0 DEF ToggleAutoDim, DisplaySettings, Valid
<1>2. CASE t = ToggleDimOnUsb(s)
  BY <1>2, <1>0 DEF ToggleDimOnUsb, DisplaySettings, Valid
<1>3. ASSUME NEW d \in Directions, t = BrightnessStep(s, d)
      PROVE  t \in DisplaySettings /\ Valid(t)
  <2> DEFINE b == SteppedPercent(s.brightness, d)
             dim == Greater(Lesser(s.dimBrightness, b), MinPercent)
  <2>1. b \in Percents
    BY <1>0, SteppedPercentInRange
  <2> HIDE DEF b
  <2>2. dim \in Percents /\ dim <= b
    BY <2>1, <1>0, SettingsConstants DEF Percents, Lesser, Greater
  <2>3. t = [s EXCEPT !.brightness = b, !.dimBrightness = dim]
    BY <1>3 DEF BrightnessStep, b
  <2> HIDE DEF dim
  <2>4. t \in DisplaySettings /\ t.brightness = b /\ t.dimBrightness = dim
    BY <2>1, <2>2, <2>3 DEF DisplaySettings
  <2> QED BY <2>2, <2>4 DEF Valid
<1>4. ASSUME NEW d \in Directions, t = DimBrightnessStep(s, d)
      PROVE  t \in DisplaySettings /\ Valid(t)
  <2> DEFINE b == SteppedPercent(s.dimBrightness, d)
             dim == Lesser(b, s.brightness)
  <2>1. b \in Percents
    BY <1>0, SteppedPercentInRange
  <2> HIDE DEF b
  <2>2. dim \in Percents /\ dim <= s.brightness
    BY <2>1, <1>0, SettingsConstants DEF Percents, Lesser
  <2>3. t = [s EXCEPT !.dimBrightness = dim]
    BY <1>4 DEF DimBrightnessStep, b
  <2> HIDE DEF dim
  <2>4. t \in DisplaySettings /\ t.brightness = s.brightness /\ t.dimBrightness = dim
    BY <2>2, <2>3 DEF DisplaySettings
  <2> QED BY <2>2, <2>4 DEF Valid
<1>5. ASSUME NEW d \in Directions, t = IdleTimeoutStep(s, d)
      PROVE  t \in DisplaySettings /\ Valid(t)
  BY <1>5, TimeoutStepInOptions
<1> QED BY <1>1, <1>2, <1>3, <1>4, <1>5 DEF Edited

-----------------------------------------------------------------------------
(* Their stored form.                                                       *)
(* What is stored is what is loaded.                                        *)
LEMMA RoundTrip ==
  ASSUME NEW s \in DisplaySettings, Valid(s)
  PROVE  Decode(Encode(s)) = {s}
<1> DEFINE b == Encode(s)
<1>1. s.autoDim \in BOOLEAN /\ s.dimOnUsb \in BOOLEAN
  BY DEF DisplaySettings
<1>2. /\ b.version = FormatVersion /\ b.flags = Flags(s)
      /\ b.brightness = s.brightness /\ b.dimBrightness = s.dimBrightness
      /\ b.idleTimeout = s.idleTimeout
  BY DEF Encode
<1> DEFINE dims == IF s.autoDim THEN 1 ELSE 0
           usb == IF s.dimOnUsb THEN 2 ELSE 0
           sum == dims + usb
<1>3a. Flags(s) = sum
  BY DEF Flags
<1>3b. dims \in {0, 1} /\ usb \in {0, 2}
  OBVIOUS
<1>3c. dims = 1 <=> s.autoDim
  BY <1>1
<1>3d. usb = 2 <=> s.dimOnUsb
  BY <1>1
<1> HIDE DEF dims, usb
<1>3e. /\ sum \in 0..3
       /\ sum % 2 = 1 <=> dims = 1
       /\ (sum \div 2) % 2 = 1 <=> usb = 2
  <2>1. CASE dims = 0 /\ usb = 0
    BY <2>1
  <2>2. CASE dims = 0 /\ usb = 2
    BY <2>2
  <2>3. CASE dims = 1 /\ usb = 0
    BY <2>3
  <2>4. CASE dims = 1 /\ usb = 2
    BY <2>4
  <2> QED BY <1>3b, <2>1, <2>2, <2>3, <2>4
<1> HIDE DEF sum
<1>3. Flags(s) \in 0..3
  BY <1>3a, <1>3e
<1>4. (Flags(s) % 2 = 1) = s.autoDim
  <2>1. Flags(s) % 2 = 1 <=> s.autoDim
    BY <1>3a, <1>3c, <1>3e
  <2> QED BY <1>1, <2>1, Zenon
<1>5. ((Flags(s) \div 2) % 2 = 1) = s.dimOnUsb
  <2>1. (Flags(s) \div 2) % 2 = 1 <=> s.dimOnUsb
    BY <1>3a, <1>3d, <1>3e
  <2> QED BY <1>1, <2>1, Zenon
<1>6. Carried(b) = [brightness |-> s.brightness, autoDim |-> s.autoDim,
                    dimOnUsb |-> s.dimOnUsb, idleTimeout |-> s.idleTimeout,
                    dimBrightness |-> s.dimBrightness]
  <2> HIDE DEF b
  <2> QED BY <1>2, <1>4, <1>5 DEF Carried
<1>7. s = [brightness |-> s.brightness, autoDim |-> s.autoDim,
           dimOnUsb |-> s.dimOnUsb, idleTimeout |-> s.idleTimeout,
           dimBrightness |-> s.dimBrightness]
  BY DEF DisplaySettings
<1>8. Carried(b) = s
  BY <1>6, <1>7
<1>9. b.flags < 4
  BY <1>2, <1>3
<1> HIDE DEF b
<1>10. Decode(b) = {s}
  BY <1>2, <1>8, <1>9 DEF Decode
<1> QED BY <1>10 DEF b

(* A load returns valid settings or none.                                   *)
LEMMA DecodeSound ==
  ASSUME NEW b
  PROVE  Decode(b) = {} \/ \E s \in DisplaySettings : Valid(s) /\ Decode(b) = {s}
BY DEF Decode

-----------------------------------------------------------------------------
LEMMA LoadedSound ==
  ASSUME flash \in Flash
  PROVE  Loaded = {} \/ \E s \in DisplaySettings : Valid(s) /\ Loaded = {s}
<1>1. CASE flash.value = {}
  BY <1>1 DEF Loaded
<1>2. ASSUME NEW b, flash.value = {b}
      PROVE  Loaded = {} \/ \E s \in DisplaySettings : Valid(s) /\ Loaded = {s}
  <2>1. Loaded = Decode(b)
    BY <1>2 DEF Loaded
  <2> QED BY <2>1, DecodeSound
<1>3. flash.value = {} \/ \E b : flash.value = {b}
  BY DEF Flash, NoMap, Empty, Holding
<1> QED BY <1>1, <1>2, <1>3

LEMMA WrittenInFlash ==
  ASSUME settings \in DisplaySettings
  PROVE  Written \in Flash
BY DEF Written, Flash, Bytes

-----------------------------------------------------------------------------
(* The invariant: "saved" is only said of the last verified value, and that *)
(* is what the flash would load, unless an unverified value was written.    *)
SavedIsLast == status = "saved" => ready /\ lastSaved = {settings}
LastIsLoaded == ready /\ ~unverified => Loaded = lastSaved
SavesInStore == pc \in {"store", "verify"} => ready
BootsUnsaved == pc = "boot" => status = "unsaved" /\ ~ready

IInv == TypeOK /\ SavedIsLast /\ LastIsLoaded /\ SavesInStore /\ BootsUnsaved

THEOREM InitIInv == Init => IInv
<1> SUFFICES ASSUME Init PROVE IInv
  OBVIOUS
<1>1. TypeOK
  <2>1. faults \in 0..MaxFaults
    BY SettingsStoreAssumption DEF Init
  <2>2. flash \in Flash /\ settings \in DisplaySettings /\ Valid(settings)
    BY SettingsConstants DEF Init
  <2> QED BY <2>1, <2>2 DEF Init, TypeOK, Option, Statuses, Pc
<1>2. SavedIsLast /\ LastIsLoaded /\ SavesInStore /\ BootsUnsaved
  BY DEF Init, SavedIsLast, LastIsLoaded, SavesInStore, BootsUnsaved
<1> QED BY <1>1, <1>2 DEF IInv

(* One lemma per group of actions.                                          *)
LEMMA DefaultsKeeps ==
  ASSUME IInv, NEW erased \in Flash, Defaults(erased), pc = "boot",
         UNION {Decode(b) : b \in erased.value} = {},
         faults' \in 0..MaxFaults
  PROVE  IInv'
<1>1. TypeOK'
  BY SettingsConstants DEF IInv, TypeOK, Defaults, Option, Pc
<1>2. Loaded' = {}
  BY DEF Defaults, Loaded
<1>3. (SavedIsLast /\ LastIsLoaded /\ SavesInStore /\ BootsUnsaved)'
  BY <1>2 DEF IInv, Defaults, SavedIsLast, LastIsLoaded, SavesInStore, BootsUnsaved
<1> QED BY <1>1, <1>3 DEF IInv

LEMMA FaultCounts ==
  ASSUME faults \in 0..MaxFaults, Fault
  PROVE  faults' \in 0..MaxFaults
BY SettingsStoreAssumption DEF Fault

LEMMA PersistsKeeps ==
  ASSUME IInv, NEW next \in {"loop", "reset"}, Persists(next)
  PROVE  IInv'
<1>1. TypeOK'
  BY DEF IInv, TypeOK, Persists, Statuses, Pc
<1>2. Loaded' = Loaded
  BY DEF Persists, Loaded
<1>3. (SavedIsLast /\ LastIsLoaded /\ SavesInStore /\ BootsUnsaved)'
  BY <1>2 DEF IInv, Persists, SavedIsLast, LastIsLoaded, SavesInStore, BootsUnsaved
<1> QED BY <1>1, <1>3 DEF IInv

LEMMA ForgetsKeeps ==
  ASSUME IInv, Forgets, flash' \in Flash, faults' \in 0..MaxFaults
  PROVE  IInv'
<1>1. TypeOK'
  BY SettingsConstants DEF IInv, TypeOK, Forgets, Option, Statuses, Pc
<1>2. (SavedIsLast /\ LastIsLoaded /\ SavesInStore /\ BootsUnsaved)'
  BY DEF Forgets, SavedIsLast, LastIsLoaded, SavesInStore, BootsUnsaved
<1> QED BY <1>1, <1>2 DEF IInv

THEOREM NextIInv == IInv /\ [Next]_vars => IInv'
<1> SUFFICES ASSUME IInv, [Next]_vars PROVE IInv'
  OBVIOUS
<1> USE DEF IInv
<1>1. CASE UNCHANGED vars
  BY <1>1 DEF vars, TypeOK, SavedIsLast, LastIsLoaded, SavesInStore, BootsUnsaved, Loaded
<1>2. CASE BootLoads
  <2>1. PICK s \in Loaded : settings' = s
    BY <1>2 DEF BootLoads
  <2>2. Loaded = {s} /\ s \in DisplaySettings /\ Valid(s)
    BY <2>1, LoadedSound DEF TypeOK
  <2>3. TypeOK'
    BY <1>2, <2>1, <2>2 DEF BootLoads, TypeOK, Option, Statuses, Pc
  <2>4. Loaded' = Loaded
    BY <1>2 DEF BootLoads, Loaded
  <2>5. (SavedIsLast /\ LastIsLoaded /\ SavesInStore /\ BootsUnsaved)'
    BY <1>2, <2>1, <2>2, <2>4
    DEF BootLoads, SavedIsLast, LastIsLoaded, SavesInStore, BootsUnsaved
  <2> QED BY <2>3, <2>5
<1>3. CASE BootStartsFresh
  <2>1. UNION {Decode(b) : b \in flash.value} = {}
    BY <1>3 DEF BootStartsFresh, Loaded
  <2>2. faults' \in 0..MaxFaults
    BY <1>3 DEF BootStartsFresh, TypeOK
  <2>3. flash \in Flash
    BY DEF TypeOK
  <2> QED BY <1>3, <2>1, <2>2, <2>3, DefaultsKeeps DEF BootStartsFresh
<1>4. CASE BootErases
  <2>1. Empty \in Flash /\ UNION {Decode(b) : b \in Empty.value} = {}
    BY DEF Flash, Empty
  <2>2. faults' \in 0..MaxFaults
    BY <1>4, FaultCounts DEF BootErases, TypeOK
  <2> QED BY <1>4, <2>1, <2>2, DefaultsKeeps DEF BootErases
<1>5. CASE BootFails
  <2>1. faults' \in 0..MaxFaults
    BY <1>5, FaultCounts DEF BootFails, TypeOK
  <2>2. TypeOK'
    BY <1>5, <2>1 DEF BootFails, TypeOK, Flash, Statuses, Pc
  <2>3. (SavedIsLast /\ LastIsLoaded /\ SavesInStore /\ BootsUnsaved)'
    BY <1>5 DEF BootFails, SavedIsLast, LastIsLoaded, SavesInStore, BootsUnsaved, Loaded
  <2> QED BY <2>2, <2>3
<1>6. CASE Edits
  <2>1. settings' \in DisplaySettings /\ Valid(settings')
    BY <1>6, EditsKeepValid DEF Edits, TypeOK
  <2>2. TypeOK'
    BY <1>6, <2>1 DEF Edits, DeadlineAfterEdit, TypeOK, Statuses
  <2>3. (SavedIsLast /\ LastIsLoaded /\ SavesInStore /\ BootsUnsaved)'
    BY <1>6 DEF Edits, SavedIsLast, LastIsLoaded, SavesInStore, BootsUnsaved, Loaded
  <2> QED BY <2>2, <2>3
<1>7. CASE Closes
  BY <1>7, PersistsKeeps DEF Closes
<1>8. CASE DebounceEnds
  BY <1>8, PersistsKeeps DEF DebounceEnds
<1>9. CASE Reboots
  BY <1>9, PersistsKeeps DEF Reboots
<1>10. CASE Stores
  <2>1. TypeOK'
    BY <1>10, WrittenInFlash DEF Stores, TypeOK, Pc
  <2>2. (SavedIsLast /\ LastIsLoaded /\ SavesInStore /\ BootsUnsaved)'
    BY <1>10 DEF Stores, SavedIsLast, LastIsLoaded, SavesInStore, BootsUnsaved
  <2> QED BY <2>1, <2>2
<1>11. CASE Verifies
  <2>1. TypeOK'
    BY <1>11 DEF Verifies, TypeOK, Option, Statuses, Pc
  <2>2. Loaded' = {settings}
    BY <1>11 DEF Verifies, Loaded
  <2>3. (SavedIsLast /\ LastIsLoaded /\ SavesInStore /\ BootsUnsaved)'
    BY <1>11, <2>2 DEF Verifies, SavedIsLast, LastIsLoaded, SavesInStore, BootsUnsaved, TypeOK
  <2> QED BY <2>1, <2>3
<1>12. CASE SaveFails
  <2>1. faults' \in 0..MaxFaults
    BY <1>12, FaultCounts DEF SaveFails, TypeOK
  <2>2. TypeOK'
    BY <1>12, <2>1, WrittenInFlash DEF SaveFails, SavedAfterFailure, TypeOK, Statuses, Pc
  <2>3. SavedIsLast' /\ SavesInStore' /\ BootsUnsaved'
    BY <1>12 DEF SaveFails, SavedIsLast, SavesInStore, BootsUnsaved, TypeOK
  <2>4. LastIsLoaded'
    <3>1. CASE unverified' = TRUE
      BY <3>1 DEF LastIsLoaded
    <3>2. CASE UNCHANGED <<flash, unverified>>
      BY <1>12, <3>2 DEF SaveFails, SavedAfterFailure, LastIsLoaded, Loaded
    <3> QED BY <1>12, <3>1, <3>2 DEF SaveFails
  <2> QED BY <2>2, <2>3, <2>4
<1>13. CASE Resets
  BY <1>13, ForgetsKeeps DEF Resets, TypeOK
<1>14. CASE PowerFails
  <2>1. faults' \in 0..MaxFaults
    BY <1>14, FaultCounts DEF PowerFails, TypeOK
  <2>2. flash' \in Flash
    BY <1>14, WrittenInFlash DEF PowerFails, TypeOK, Flash
  <2> QED BY <1>14, <2>1, <2>2, ForgetsKeeps DEF PowerFails
<1> QED BY <1>1, <1>2, <1>3, <1>4, <1>5, <1>6, <1>7, <1>8, <1>9, <1>10, <1>11,
           <1>12, <1>13, <1>14 DEF Next, LoopStep

THEOREM SpecIInv == Spec => []IInv
BY InitIInv, NextIInv, PTL DEF Spec

(* TypeOK: whatever the edits, the settings are valid, so that              *)
(* encode_settings's debug assertion holds and their dim level never        *)
(* exceeds their brightness.                                                *)
THEOREM SpecTypeOK == Spec => []TypeOK
<1>1. IInv => TypeOK
  BY DEF IInv
<1> QED BY <1>1, SpecIInv, PTL

(* SavedMeansStoredUnlessUnverified: the page says "saved" of settings that *)
(* a reboot brings back, unless a failed save had written its value.        *)
THEOREM SpecSavedMeansStored == Spec => []SavedMeansStoredUnlessUnverified
<1>1. IInv => SavedMeansStoredUnlessUnverified
  BY DEF IInv, SavedIsLast, LastIsLoaded, SavedMeansStoredUnlessUnverified, SavedMeansStored
<1> QED BY <1>1, SpecIInv, PTL

(* The safety half of EditsSettle: an edit that the page calls unsaved has  *)
(* a deadline, or is being stored, in every order of edits, closing the     *)
(* page, reboots and faults.                                                *)
UnsavedIsDue == status = "unsaved" => pending \/ pc \in {"boot", "store", "verify"}

(* Without a store the page says so, and there is nothing to schedule.      *)
DueInv ==
  /\ UnsavedIsDue
  /\ ~ready /\ pc # "boot" => status = "storage unavailable"

LEMMA DueNext ==
  ASSUME DueInv, SavesInStore, [Next]_vars
  PROVE  DueInv'
<1> USE DEF DueInv, UnsavedIsDue, SavesInStore
<1>1. CASE UNCHANGED vars
  BY <1>1 DEF vars
<1>2. CASE BootLoads \/ BootStartsFresh \/ BootErases \/ BootFails
  BY <1>2 DEF BootLoads, BootStartsFresh, BootErases, BootFails, Defaults
<1>3. CASE Edits
  BY <1>3 DEF Edits, DeadlineAfterEdit
<1>4. ASSUME NEW next \in {"loop", "reset"}, Persists(next)
      PROVE  DueInv'
  BY <1>4 DEF Persists
<1>5. CASE Stores \/ Verifies \/ SaveFails
  BY <1>5 DEF Stores, Verifies, SaveFails
<1>6. CASE Resets \/ PowerFails
  BY <1>6 DEF Resets, PowerFails, Forgets
<1> QED BY <1>1, <1>2, <1>3, <1>4, <1>5, <1>6
        DEF Next, LoopStep, DebounceEnds, Closes, Reboots

THEOREM SpecUnsavedIsDue == Spec => []UnsavedIsDue
<1>1. Init => DueInv
  BY DEF Init, DueInv, UnsavedIsDue
<1>2. DueInv => UnsavedIsDue
  BY DEF DueInv
<1>3. IInv => SavesInStore
  BY DEF IInv
<1> QED BY <1>1, <1>2, <1>3, DueNext, SpecIInv, PTL DEF Spec

-----------------------------------------------------------------------------
(* Crash consistency: what a load would return changes only to the settings *)
(* that the loop has, whole; it is lost only while booting, to a failure of *)
(* the load or the power.  So a boot on a working flash finds what the last *)
(* completed store has left.                                                *)
OldOrNew == \/ Loaded' = Loaded
            \/ Loaded' = {settings}
            \/ Loaded' = {} /\ pc = "boot" /\ faults' # faults

LEMMA WrittenLoads ==
  ASSUME TypeOK, flash' = Written
  PROVE  Loaded' = {settings}
<1>1. flash'.value = {Encode(settings)}
  BY DEF Written, Holding
<1>2. Loaded' = Decode(Encode(settings))
  BY <1>1 DEF Loaded
<1> QED BY <1>2, RoundTrip DEF TypeOK

LEMMA NoMapLoadsNothing ==
  ASSUME TypeOK, ~flash.map
  PROVE  Loaded = {}
BY DEF TypeOK, Flash, NoMap, Empty, Holding, Loaded

THEOREM SpecOldOrNew == Spec => [][OldOrNew]_vars
<1>1. TypeOK /\ [Next]_vars => [OldOrNew]_vars
  <2> SUFFICES ASSUME TypeOK, Next PROVE OldOrNew
    OBVIOUS
  <2>1. CASE UNCHANGED flash
    BY <2>1 DEF Loaded, OldOrNew
  <2>2. CASE flash' = Written
    BY <2>2, WrittenLoads DEF OldOrNew
  <2>3. CASE flash' \in {Empty, NoMap} /\ pc = "boot" /\ (faults' # faults \/ ~flash.map)
    <3>1. Loaded' = {}
      BY <2>3 DEF Loaded, Empty, NoMap
    <3> QED BY <2>3, <3>1, NoMapLoadsNothing DEF OldOrNew
  <2>4. Fault => faults' # faults
    BY DEF TypeOK, Fault
  <2> QED BY <2>1, <2>2, <2>3, <2>4
          DEF Next, LoopStep, BootLoads, BootStartsFresh, BootErases, BootFails, Defaults, Edits,
              DebounceEnds, Closes, Reboots, Persists, Stores, Verifies, SaveFails, Resets,
              PowerFails
<1> QED BY <1>1, SpecTypeOK, PTL DEF Spec
=============================================================================
