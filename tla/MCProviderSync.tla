--------------------------- MODULE MCProviderSync ---------------------------
(* Two sources: the first is synchronized by the scheduler and by a manager, *)
(* refreshed for a Passkey login and takes part in a transfer between both.  *)
EXTENDS ProviderSync

CONSTANTS p1, p2, auto1, manual1, refresh1, assert1, removal1, transfer1

KindOf ==
  [o \in Ops |-> CASE o = auto1 -> "auto"
                   [] o = manual1 -> "manual"
                   [] o = refresh1 -> "refresh"
                   [] o = assert1 -> "assert"
                   [] o = removal1 -> "removal"
                   [] o = transfer1 -> "transfer"]

TargetsOf == [o \in Ops |-> IF o = transfer1 THEN {p1, p2} ELSE {p1}]
=============================================================================
