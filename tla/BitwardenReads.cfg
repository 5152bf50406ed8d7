CONSTANTS
  c1 = c1
  c2 = c2
  Ciphers = {c1, c2}
  Dated = TRUE
  MaxChanges = 2
  MaxActs = 2
  MaxFaults = 1
SPECIFICATION FairSpec
INVARIANTS TypeOK NothingKept
PROPERTIES UnchangedIsTrue NoFalseRemoval EventuallyShown
