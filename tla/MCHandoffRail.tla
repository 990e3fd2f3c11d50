--------------------------- MODULE MCHandoffRail ---------------------------
(* Instances of HandoffRail for TLC.                                       *)
EXTENDS HandoffRail

CONSTANTS c1, c2, a1, a2, h1, h2, d1, d2, t1, t2
=============================================================================
