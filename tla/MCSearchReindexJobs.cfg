SPECIFICATION Spec
CONSTANTS
  NProducts = 2
  Batch = 2
  Editors = {e1}
  Workers = {w1, w2}
  NoJob = NoJob
  MaxEdits = 3
  MaxFailures = 1
  MaxAttempts = 2
  AgeCap = 0
  Overdue = 0
  MaxBackoff = 0
PROPERTIES KeepsJobLife
CHECK_DEADLOCK FALSE
