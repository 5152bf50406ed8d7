CONSTANTS
  dA = dA
  dB = dB
  a1 = a1
  a2 = a2
  b1 = b1
  Devices = {dA, dB}
  Requests = {a1, a2, b1}
  At <- MCAt
  Kinds = {"local", "bitwarden", "keepass"}
  MaxCount = 3
  MaxLogins = 2
  MaxOthers = 2
  MaxPolls = 1
  MaxFaults = 1
SPECIFICATION Spec
INVARIANTS TypeOK DeliveredGrows DeliveredIsStored FileSignsOnce
CHECK_DEADLOCK FALSE
