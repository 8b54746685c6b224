--------------------------- MODULE MCDesignServer ---------------------------
(***************************************************************************)
(* Instances of DesignServer for TLC.                                      *)
(***************************************************************************)
EXTENDS DesignServer

CONSTANTS w1, w2, e1, d1, d2

OneDesign  == {d1}
TwoDesigns == {d1, d2}
OneEdit    == {e1}
NoEdits    == {}

\* A browser that has the design as it was and one that has an edit of it.
EditedDocs == {{}, {e1}}
PlainDocs  == {{}}
=============================================================================
