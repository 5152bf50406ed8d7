CONSTANTS
  Logins = {l1}
  MaxKeys = 2
  MaxWrites = 3
  MaxSessions = 2
  MaxFaults = 1
SPECIFICATION Spec
INVARIANTS TypeOK Openable WorksOnStored
PROPERTIES NotRevived LeavesGranted
