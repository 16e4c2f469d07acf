------------------------------- MODULE MCDial -------------------------------
(* Dial with a unit of half a minute, a limit of two steps, of which one or *)
(* three are reported, windows that end in two units, and two intervals of  *)
(* pace.                                                                    *)
EXTENDS Dial

MCReported == {1, 3}
MCResets == {2}
=============================================================================
