CONSTANTS
  s1 = s1
  s2 = s2
  Sources = {s1, s2}
  MaxRunning = 1
  Debounce = 1
  Interval = 2
  MaxBackoff = 2
SPECIFICATION FairSpec
INVARIANTS TypeOK SlotsCounted HintsHonoured
PROPERTIES ServerWaitKept RequestsRun
