--------------------------- MODULE MCKeePassSync ----------------------------
(* One item that is in the file and one that is created here.                *)
EXTENDS KeePassSync

CONSTANTS i1, c1, o1
=============================================================================
