---------------------------- MODULE MCUsageFeed ----------------------------
(* UsageFeed with a unit of 30 seconds, at each of which the maintenance   *)
(* ticker fires; data is fresh for 2 of them, where the code has 5.        *)
EXTENDS UsageFeed
=============================================================================
