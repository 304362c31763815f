SPECIFICATION Spec
CONSTANTS
  TTL = 3
  Cooldown = 1
  MaxSends = 2
  Workers = {w1}
  NoJob = NoJob
  MaxAttempts = 2
  AgeCap = 0
  Overdue = 0
  MaxBackoff = 0
INVARIANTS ToldMeansGone
CHECK_DEADLOCK FALSE
