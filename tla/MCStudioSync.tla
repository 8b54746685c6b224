---------------------------- MODULE MCStudioSync ----------------------------
(***************************************************************************)
(* Instances of StudioSync for TLC.                                        *)
(***************************************************************************)
EXTENDS StudioSync

CONSTANTS d1, d2

TwoDesigns == {d1, d2}
=============================================================================
