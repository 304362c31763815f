SPECIFICATION FairSpec
CONSTANTS
  NProducts = 2
  Batch = 2
  Editors = {e1, e2}
  Workers = {w1, w2}
  NoJob = NoJob
  MaxEdits = 2
  MaxFailures = 1
  MaxAttempts = 2
  AgeCap = 0
  Overdue = 0
  MaxBackoff = 0
INVARIANTS StaleIsCovered
PROPERTIES EventuallyFresh
CHECK_DEADLOCK FALSE
