--------------------------- MODULE SettingsStore ---------------------------
(***************************************************************************)
(* The persistence of the display settings: SettingsStore over the flash   *)
(* map (firmware/src/settings_store.rs), and the UI loop's edits, its      *)
(* debounced save, and what it shows of them (firmware/src/bin/main.rs).   *)
(*                                                                         *)
(* save writes the value and reads it back: the power may fail, and each   *)
(* access of the flash may fail, in between.  The map itself survives a    *)
(* power failure with its old or its new value.                            *)
(***************************************************************************)
EXTENDS DisplaySettings

CONSTANTS ForeignValues, \* values that other firmware may have left
          MaxFaults      \* bound on failed accesses and power failures

ASSUME SettingsStoreAssumption == MaxFaults \in Nat

(* The flash: a map with or without a value, or bytes that are no map.      *)
Bytes == {Encode(s) : s \in DisplaySettings} \cup ForeignValues
NoMap == [map |-> FALSE, value |-> {}]
Empty == [map |-> TRUE, value |-> {}]
Holding(bytes) == [map |-> TRUE, value |-> {bytes}]
Flash == {NoMap, Empty} \cup {Holding(b) : b \in Bytes}

VARIABLES
  flash,
  ready,      \* the loop's settings_store is Some
  lastSaved,  \* last_saved
  settings,   \* display_settings
  status,     \* settings_storage_status
  pending,    \* settings_save_deadline is Some
  pc,         \* what the loop is doing
  after,      \* and what it does when the save in progress is over
  unverified, \* a value was written that save did not vouch for
  faults

vars == <<flash, ready, lastSaved, settings, status, pending, pc, after, unverified, faults>>

Option(S) == {{}} \cup {{x} : x \in S}
Statuses == {"saved", "unsaved", "save failed", "storage unavailable"}
Pc == {"boot", "loop", "store", "verify", "reset"}

Fault == faults < MaxFaults /\ faults' = faults + 1

(* load: the valid settings under the key.                                  *)
Loaded == UNION {Decode(b) : b \in flash.value}

Init ==
  /\ flash \in Flash
  /\ ready = FALSE
  /\ lastSaved = {}
  /\ settings = Default
  /\ status = "unsaved"
  /\ pending = FALSE
  /\ pc = "boot"
  /\ after = "loop"
  /\ unverified = FALSE
  /\ faults = 0

-----------------------------------------------------------------------------
(* SettingsStore::new and what main does with it.  A map without valid      *)
(* settings gets the defaults; one that cannot be loaded is erased first.   *)
Defaults(erased) ==
  /\ flash' = erased
  /\ ready' = TRUE
  /\ lastSaved' = {}
  /\ settings' = Default
  /\ pc' = "store"
  /\ UNCHANGED <<status, pending, after, unverified>>

BootLoads ==
  /\ pc = "boot" /\ flash.map
  /\ \E s \in Loaded : settings' = s
  /\ lastSaved' = Loaded
  /\ ready' = TRUE
  /\ status' = "saved"
  /\ pc' = "loop"
  /\ UNCHANGED <<flash, pending, after, unverified, faults>>

BootStartsFresh ==
  /\ pc = "boot" /\ flash.map
  /\ Loaded = {}
  /\ Defaults(flash)
  /\ UNCHANGED faults

BootErases ==
  /\ pc = "boot"
  /\ \/ ~flash.map /\ UNCHANGED faults
     \/ flash.map /\ Fault
  /\ Defaults(Empty)

(* The partition is missing, or cannot be erased but in part: there is no   *)
(* store.                                                                   *)
BootFails ==
  /\ pc = "boot"
  /\ Fault
  /\ flash' \in {flash, NoMap}
  /\ status' = "storage unavailable"
  /\ pc' = "loop"
  /\ UNCHANGED <<ready, lastSaved, settings, pending, after, unverified>>

-----------------------------------------------------------------------------
(* The mutant changes the value and schedules nothing.                      *)
DeadlineForgotten == pending

(* The settings page: every edit restarts the debounce, if there is a store. *)
DeadlineAfterEdit == pending \/ ready

Edits ==
  /\ pc = "loop"
  /\ settings' \in Edited(settings)
  /\ status' = IF ready THEN "unsaved" ELSE status
  /\ pending' = DeadlineAfterEdit
  /\ UNCHANGED <<flash, ready, lastSaved, pc, after, unverified, faults>>

(* persist_settings and the first test of save: a value that is the last    *)
(* verified one is not written again.                                       *)
Persists(next) ==
  /\ pc = "loop"
  /\ pending' = FALSE
  /\ after' = next
  /\ \/ ~ready /\ status' = "storage unavailable" /\ pc' = next
     \/ ready /\ lastSaved = {settings} /\ status' = "saved" /\ pc' = next
     \/ ready /\ lastSaved # {settings} /\ pc' = "store" /\ UNCHANGED status
  /\ UNCHANGED <<flash, ready, lastSaved, settings, unverified, faults>>

(* The page is closed, or the power-off button is pressed: the power then   *)
(* fails, some time later.                                                  *)
Closes == Persists("loop")

DebounceEnds == pending /\ Persists("loop")

Reboots == Persists("reset")

-----------------------------------------------------------------------------
(* save: store_item, then a load that must return what was stored.          *)
Written == Holding(Encode(settings))

Stores ==
  /\ pc = "store"
  /\ flash' = Written
  /\ unverified' = TRUE
  /\ pc' = "verify"
  /\ UNCHANGED <<ready, lastSaved, settings, status, pending, after, faults>>

Verifies ==
  /\ pc = "verify"
  /\ Loaded = {settings}
  /\ lastSaved' = {settings}
  /\ status' = "saved"
  /\ unverified' = FALSE
  /\ pc' = after
  /\ UNCHANGED <<flash, ready, settings, pending, after, faults>>

(* The mutant counts the value as saved whatever came of it.                *)
CountedAsSaved == {settings}
SavedAfterFailure == lastSaved

(* A store that fails may have written its value, or not; the load that     *)
(* verifies it may fail, or not return it.                                  *)
SaveFails ==
  /\ Fault
  /\ \/ pc = "store" /\ UNCHANGED <<flash, unverified>>
     \/ pc = "store" /\ flash' = Written /\ unverified' = TRUE
     \/ pc = "verify" /\ UNCHANGED <<flash, unverified>>
  /\ lastSaved' = SavedAfterFailure
  /\ status' = "save failed"
  /\ pc' = after
  /\ UNCHANGED <<ready, settings, pending, after>>

-----------------------------------------------------------------------------
(* A reset leaves the flash only.                                           *)
Forgets ==
  /\ ready' = FALSE
  /\ lastSaved' = {}
  /\ settings' = Default
  /\ status' = "unsaved"
  /\ pending' = FALSE
  /\ pc' = "boot"
  /\ after' = "loop"
  /\ unverified' = FALSE

Resets ==
  /\ pc = "reset"
  /\ Forgets
  /\ UNCHANGED <<flash, faults>>

PowerFails ==
  /\ Fault
  /\ Forgets
  /\ \/ UNCHANGED flash
     \/ pc = "boot" /\ flash' = NoMap
     \/ pc = "store" /\ flash' = Written

LoopStep ==
  \/ BootLoads \/ BootStartsFresh \/ BootErases \/ BootFails
  \/ DebounceEnds \/ Stores \/ Verifies \/ SaveFails \/ Resets

Next == LoopStep \/ Edits \/ Closes \/ Reboots \/ PowerFails

(* The loop is scheduled, and its deadline arrives.                         *)
Spec == Init /\ [][Next]_vars
FairSpec == Spec /\ WF_vars(LoopStep)

-----------------------------------------------------------------------------
(* Every settings value that is stored passes encode_settings's assertion.  *)
TypeOK ==
  /\ flash \in Flash
  /\ ready \in BOOLEAN
  /\ lastSaved \in Option(DisplaySettings)
  /\ settings \in DisplaySettings /\ Valid(settings)
  /\ status \in Statuses
  /\ pending \in BOOLEAN
  /\ pc \in Pc
  /\ after \in {"loop", "reset"}
  /\ unverified \in BOOLEAN
  /\ faults \in 0..MaxFaults

(* The page says "Settings are saved" of the settings that a reboot would   *)
(* bring back.                                                              *)
SavedMeansStored == status = "saved" => Loaded = {settings}

(* It does, unless a save failed after it had written its value.            *)
SavedMeansStoredUnlessUnverified == ~unverified => SavedMeansStored

(* Once the user leaves the settings alone, they are saved or known not to  *)
(* be: no edit stays unsaved, whatever the order of edits, closing the      *)
(* page, reboots and faults.                                                *)
EditsSettle ==
  <>[][~Edits]_vars => []<>(pc = "loop" /\ status # "unsaved")
=============================================================================
