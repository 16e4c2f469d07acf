-------------------------- MODULE MCDisplayPower ---------------------------
(* DisplayPower with two brightness levels, a default dim level between    *)
(* them that is no multiple of the step, and timeouts of one and two units. *)
EXTENDS DisplayPower

MCTimeouts == <<1, 2>>
MCDefault == [brightness |-> 10, autoDim |-> TRUE, dimOnUsb |-> FALSE,
              idleTimeout |-> 2, dimBrightness |-> 7]
=============================================================================
