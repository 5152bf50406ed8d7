--------------------------- MODULE MCBitwardenReads ---------------------------
(* Two Ciphers, so that a reading of one must leave the other alone.         *)
EXTENDS BitwardenReads

CONSTANTS c1, c2
=============================================================================
