CONSTANTS
  i1 = i1
  c1 = c1
  c2 = c2
  LocalItems = {}
  Ciphers = {c1}
  NoCipher = NoCipher
  Held = {c1}
  MaxIds = 2
  MaxEdits = 2
  MaxRemote = 0
  MaxFaults = 1
  Partial = FALSE
SPECIFICATION Spec
PROPERTIES InterruptionKeepsEdits
CHECK_DEADLOCK FALSE
