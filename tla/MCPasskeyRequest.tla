-------------------------- MODULE MCPasskeyRequest ---------------------------
(* One request of either kind, accepted and dismissed in any order.          *)
EXTENDS PasskeyRequest
=============================================================================
