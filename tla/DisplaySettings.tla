-------------------------- MODULE DisplaySettings --------------------------
(***************************************************************************)
(* The display policy of claudial-icd/src/settings.rs: what the controls   *)
(* of the settings page do to a value, when the panel dims, and the        *)
(* versioned value that is stored in flash.                                *)
(***************************************************************************)
EXTENDS Naturals, Integers, Sequences

CONSTANTS MinPercent,  \* MINIMUM_BRIGHTNESS_PERCENT
          MaxPercent,  \* MAXIMUM_BRIGHTNESS_PERCENT
          StepPercent, \* BRIGHTNESS_STEP_PERCENT
          Timeouts,    \* IDLE_TIMEOUT_OPTIONS_SECONDS, in ascending order
          Default      \* DisplaySettings::default

Percents == MinPercent..MaxPercent
TimeoutOptions == {Timeouts[i] : i \in 1..Len(Timeouts)}

DisplaySettings == [brightness : Percents, autoDim : BOOLEAN, dimOnUsb : BOOLEAN,
                    idleTimeout : TimeoutOptions, dimBrightness : Percents]

Valid(s) == s.dimBrightness <= s.brightness

ASSUME DisplaySettingsAssumption ==
  /\ MinPercent \in Nat /\ MaxPercent \in Nat /\ StepPercent \in Nat
  /\ MinPercent <= MaxPercent
  /\ Timeouts \in Seq(Nat) /\ Timeouts # <<>>
  /\ Default \in DisplaySettings /\ Valid(Default)

-----------------------------------------------------------------------------
Directions == {-1, 1}

Lesser(a, b) == IF a <= b THEN a ELSE b
Greater(a, b) == IF a >= b THEN a ELSE b

(* stepped_percent; its operands are far from the ends of a u8.             *)
SteppedPercent(percent, direction) ==
  IF direction < 0 THEN Greater(percent - StepPercent, MinPercent)
                   ELSE Lesser(percent + StepPercent, MaxPercent)

BrightnessStep(s, direction) ==
  LET brightness == SteppedPercent(s.brightness, direction)
  IN [s EXCEPT !.brightness = brightness,
               !.dimBrightness = Greater(Lesser(@, brightness), MinPercent)]

DimBrightnessStep(s, direction) ==
  [s EXCEPT !.dimBrightness = Lesser(SteppedPercent(@, direction), s.brightness)]

(* Every stored or edited timeout is one of the options.                    *)
IdleTimeoutStep(s, direction) ==
  LET index == CHOOSE i \in 1..Len(Timeouts) : Timeouts[i] = s.idleTimeout
      next == IF direction < 0 THEN Greater(index - 1, 1)
                               ELSE Lesser(index + 1, Len(Timeouts))
  IN [s EXCEPT !.idleTimeout = Timeouts[next]]

ToggleAutoDim(s) == [s EXCEPT !.autoDim = ~@]
ToggleDimOnUsb(s) == [s EXCEPT !.dimOnUsb = ~@]

ShouldDim(s, usb) == s.autoDim /\ (usb => s.dimOnUsb)

Edited(s) ==
  {ToggleAutoDim(s), ToggleDimOnUsb(s)}
    \cup {BrightnessStep(s, d) : d \in Directions}
    \cup {DimBrightnessStep(s, d) : d \in Directions}
    \cup {IdleTimeoutStep(s, d) : d \in Directions}

-----------------------------------------------------------------------------
(* brightness_register: the byte that the panel is told for a percentage.   *)
BrightnessRegister(percent) ==
  (Lesser(Greater(percent, MinPercent), 100) * 255 + 50) \div 100

-----------------------------------------------------------------------------
(* The stored value: a version, two flag bits in a byte, and the numbers as *)
(* they are.                                                                *)
FormatVersion == 1

Flags(s) == (IF s.autoDim THEN 1 ELSE 0) + (IF s.dimOnUsb THEN 2 ELSE 0)

Encode(s) == [version |-> FormatVersion, flags |-> Flags(s),
              brightness |-> s.brightness, dimBrightness |-> s.dimBrightness,
              idleTimeout |-> s.idleTimeout]

Carried(bytes) == [brightness |-> bytes.brightness,
                   autoDim |-> bytes.flags % 2 = 1,
                   dimOnUsb |-> (bytes.flags \div 2) % 2 = 1,
                   idleTimeout |-> bytes.idleTimeout,
                   dimBrightness |-> bytes.dimBrightness]

(* decode_settings: the settings that a stored value stands for, if any.    *)
(* The mutant believes the numbers of a value it can parse.                 *)
DecodeUnchecked(bytes) ==
  IF bytes.version = FormatVersion /\ bytes.flags < 4 THEN {Carried(bytes)} ELSE {}

Decode(bytes) ==
  IF /\ bytes.version = FormatVersion
     /\ bytes.flags < 4
     /\ Carried(bytes) \in DisplaySettings
     /\ Valid(Carried(bytes))
  THEN {Carried(bytes)} ELSE {}
=============================================================================
