CONSTANTS
  p1 = p1
  p2 = p2
  auto1 = auto1
  manual1 = manual1
  refresh1 = refresh1
  assert1 = assert1
  removal1 = removal1
  transfer1 = transfer1
  NoOp = NoOp
  Providers = {p1, p2}
  Ops = {auto1, manual1, refresh1, transfer1}
  Kind <- KindOf
  Targets <- TargetsOf
  MaxEdits = 1
  MaxPauses = 1
SPECIFICATION Spec
INVARIANTS TypeOK OwnershipExact QueueExclusion ManualReadsEdits PausedWorkAborted
PROPERTIES ImplementsLease
CHECK_DEADLOCK FALSE
