------------------------------ MODULE MCRQueue ------------------------------
(* Four packets for two destinations. *)
EXTENDS RQueue, TLC

CONSTANTS p1, p2, p3, p4, x, y

Destinations == (p1 :> x) @@ (p2 :> y) @@ (p3 :> x) @@ (p4 :> y)
=============================================================================
