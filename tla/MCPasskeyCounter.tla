--------------------------- MODULE MCPasskeyCounter ---------------------------
(* Two installations; the first is asked twice.                              *)
EXTENDS PasskeyCounter, TLC

CONSTANTS dA, dB, a1, a2, b1

MCAt == (a1 :> dA) @@ (a2 :> dA) @@ (b1 :> dB)
=============================================================================
