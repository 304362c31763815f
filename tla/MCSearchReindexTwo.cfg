SPECIFICATION Spec
CONSTANTS
  NProducts = 2
  Batch = 2
  Editors = {e1}
  Workers = {w1, w2}
  NoJob = NoJob
  MaxEdits = 3
  MaxFailures = 0
  MaxAttempts = 2
  AgeCap = 0
  Overdue = 0
  MaxBackoff = 0
INVARIANTS DiscardedIsCovered
CHECK_DEADLOCK FALSE
