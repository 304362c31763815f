SPECIFICATION Spec
CONSTANTS
  NProducts = 2
  Batch = 2
  Editors = {e1}
  Workers = {w1}
  NoJob = NoJob
  MaxEdits = 2
  MaxFailures = 2
  MaxAttempts = 2
  AgeCap = 0
  Overdue = 0
  MaxBackoff = 0
INVARIANTS DiscardedIsCovered
CHECK_DEADLOCK FALSE
