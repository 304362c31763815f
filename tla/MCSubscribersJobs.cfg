SPECIFICATION Spec
CONSTANTS
  TTL = 3
  Cooldown = 1
  MaxSends = 2
  Workers = {w1, w2}
  NoJob = NoJob
  MaxAttempts = 2
  AgeCap = 0
  Overdue = 0
  MaxBackoff = 0
PROPERTIES KeepsJobLife
CHECK_DEADLOCK FALSE
