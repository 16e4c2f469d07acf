----------------------------- MODULE MCPaceRing -----------------------------
(* PaceRing with three segments: a window that two of them may fill, the   *)
(* third cut by its edge, and a gap that is one second too long.           *)
EXTENDS PaceRing

MCPercents == {0, 1, 3}
=============================================================================
