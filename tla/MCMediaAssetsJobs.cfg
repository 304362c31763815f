SPECIFICATION MediaSpec
CONSTANTS
  NWidths = 2
  Uploads = {u1, u2}
  Workers = {w1, w2}
  NoJob = NoJob
  MaxAttempts = 2
  AgeCap = 0
  Overdue = 0
  MaxBackoff = 0
PROPERTIES MediaKeepsJobLife
CHECK_DEADLOCK FALSE
