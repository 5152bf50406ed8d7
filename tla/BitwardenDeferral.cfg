CONSTANTS
  i1 = i1
  c1 = c1
  c2 = c2
  LocalItems = {}
  Ciphers = {c1}
  NoCipher = NoCipher
  Held = {c1}
  MaxIds = 3
  MaxEdits = 2
  MaxRemote = 1
  MaxFaults = 2
  Partial = TRUE
SPECIFICATION Spec
PROPERTIES NoRepeatedWrite SyncKeepsEdits
CHECK_DEADLOCK FALSE
