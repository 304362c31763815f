SPECIFICATION Spec
CONSTANTS
  NProducts = 2
  Batch = 2
  Editors = {e1, e2}
  Workers = {w1}
  NoJob = NoJob
  MaxEdits = 2
  MaxFailures = 0
  MaxAttempts = 2
  AgeCap = 0
  Overdue = 0
  MaxBackoff = 0
INVARIANTS QuietIsFresh
CHECK_DEADLOCK FALSE
