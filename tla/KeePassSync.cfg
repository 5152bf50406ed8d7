CONSTANTS
  i1 = i1
  c1 = c1
  o1 = o1
  Items = {i1, c1}
  Linked = {i1}
  Ops = {o1}
  Batch = 2
  MaxEntries = 4
  MaxEdits = 2
  MaxRemote = 1
  MaxFaults = 2
SPECIFICATION Spec
INVARIANTS TypeOK NoTwins
PROPERTIES NoUnknownOverwrite RecoveryKeepsEdits
