----------------------------- MODULE MCRtcSync -----------------------------
(* RtcSync with two requests: the host moves to another UTC offset, one    *)
(* unit of the RAM byte beyond the offsets, and one request out of range.  *)
EXTENDS RtcSync

CONSTANTS west, east, odd, foreign
MCSyncs == {west, east, odd}
MCUnits == 0..3
MCOffsets == 0..2
MCOffsetOf == [s \in MCSyncs |-> CASE s = west -> 1 [] s = east -> 2 [] s = odd -> 3]
=============================================================================
