--------------------------- MODULE MCAutomaticSync ---------------------------
(* Two sources and one slot, which they share with the runs of dropped jobs. *)
EXTENDS AutomaticSync

CONSTANTS s1, s2
=============================================================================
