--------------------------- MODULE MCBitwardenSync ---------------------------
(* One item that exists in the account and one that is created here.         *)
EXTENDS BitwardenSync

CONSTANTS i1, c1, c2
=============================================================================
