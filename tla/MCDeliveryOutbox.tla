-------------------------- MODULE MCDeliveryOutbox --------------------------
(* Instances of DeliveryOutbox for TLC.  Of four events the oldest has no  *)
(* session and one is of session C, which nobody has open; the other two   *)
(* are of A, drained by two overlapping loops.  The last three are of the  *)
(* same second.                                                            *)
EXTENDS DeliveryOutbox, TLC

CONSTANTS e1, e2, e3, e4, A, C, p1, p2, p3, p4, d1, d2

MCOrigin    == (e1 :> None) @@ (e2 :> A) @@ (e3 :> A) @@ (e4 :> C)
MCCreatedAt == (e1 :> 0) @@ (e2 :> 1) @@ (e3 :> 1) @@ (e4 :> 1)
MCEventOf   == (p1 :> e1) @@ (p2 :> e2) @@ (p3 :> e3) @@ (p4 :> e4)
MCSessionOf == (d1 :> A) @@ (d2 :> A)
=============================================================================
