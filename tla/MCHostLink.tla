---------------------------- MODULE MCHostLink ----------------------------
(* HostLink with the workers of two sessions and one fault.  The liveness  *)
(* properties are checked without symmetry.                                *)
EXTENDS HostLink

CONSTANTS g1, g2
MCGens == {g1, g2}
=============================================================================
