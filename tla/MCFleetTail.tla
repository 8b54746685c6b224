----------------------------- MODULE MCFleetTail -----------------------------
(***************************************************************************)
(* Instances of FleetTail for TLC.                                         *)
(***************************************************************************)
EXTENDS FleetTail, TLC

CONSTANTS p1, p2

TwoPushes == {p1, p2}
=============================================================================
