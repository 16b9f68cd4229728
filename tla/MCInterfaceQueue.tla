-------------------------- MODULE MCInterfaceQueue --------------------------
(* A few packets, two neighbors and two destinations. *)
EXTENDS InterfaceQueue

CONSTANTS p1, p2, p3, p4, n0, n1, d0, d1

(* Packets and destinations are alike; the neighbors are not. *)
Symmetry == Permutations(Packet) \cup Permutations(Dest)
=============================================================================
