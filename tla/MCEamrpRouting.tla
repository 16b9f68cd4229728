--------------------------- MODULE MCEamrpRouting ---------------------------
(* Small networks for TLC. *)
EXTENDS EamrpRouting

CONSTANTS nS, nA, nB, nC, nD, nE

Both(E) == E \cup {<<l[2], l[1]>> : l \in E}

(* nS - nA - nD: one relay. *)
LineLinks == Both({<<nS, nA>>, <<nA, nD>>})

(* Two relays: a path and an alternate one. *)
DiamondLinks == Both({<<nS, nA>>, <<nA, nD>>, <<nS, nB>>, <<nB, nD>>})

(* A request of nS runs both ways around; nD is beside the far side. *)
RingLinks ==
    Both({<<nS, nA>>, <<nA, nB>>, <<nB, nC>>, <<nC, nE>>, <<nE, nS>>, <<nB, nD>>})

(* The ring with nD out of reach and a short cut from nA to nC.  Away from *)
(* the source broadcasts are heard, towards it they collide; nB and nC     *)
(* hear each other.                                                        *)
OutwardLinks ==
    {<<nS, nA>>, <<nS, nE>>, <<nA, nB>>, <<nA, nC>>, <<nE, nC>>, <<nB, nC>>, <<nC, nB>>}

OneFlow == {<<nS, nD>>}
TwoFlows == {<<nS, nD>>, <<nD, nS>>}
FarFlows == {<<nS, nD>>, <<nC, nS>>}
=============================================================================
