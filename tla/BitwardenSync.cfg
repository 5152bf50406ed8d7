CONSTANTS
  i1 = i1
  c1 = c1
  c2 = c2
  LocalItems = {i1}
  Ciphers = {c1,c2}
  NoCipher = NoCipher
  Held = {}
  MaxIds = 3
  MaxEdits = 2
  MaxRemote = 2
  MaxFaults = 2
  Partial = FALSE
SPECIFICATION Spec
INVARIANTS TypeOK
PROPERTIES SyncMakesNoTwins NoRepeatedWrite SyncKeepsEdits
CHECK_DEADLOCK FALSE
