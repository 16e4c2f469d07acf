-------------------------- MODULE MCSettingsStore --------------------------
(* SettingsStore with two brightness levels, a default dim level between   *)
(* them that is no multiple of the step, and one timeout.  The flash may   *)
(* hold a value of another version, one with a flag that this version does *)
(* not know, or one with a dim level above the brightness.                 *)
EXTENDS SettingsStore

MCOneTimeout == <<60>>
MCDefault == [brightness |-> 10, autoDim |-> TRUE, dimOnUsb |-> FALSE,
              idleTimeout |-> 60, dimBrightness |-> 7]
MCForeign == {[Encode(MCDefault) EXCEPT !.version = 2],
              [Encode(MCDefault) EXCEPT !.flags = 4],
              [Encode(MCDefault) EXCEPT !.dimBrightness = 12]}
=============================================================================
