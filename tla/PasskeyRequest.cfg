CONSTANTS
  Operations = {"create", "get"}
  MaxAttempts = 2
  MaxAsks = 3
  MaxLocks = 1
  MaxFaults = 2
SPECIFICATION Spec
INVARIANTS TypeOK ResultIsSaved CancelledIsNotSaved
PROPERTY SavedOnce
CHECK_DEADLOCK FALSE
