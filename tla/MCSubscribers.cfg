SPECIFICATION FairSpec
CONSTANTS
  TTL = 3
  Cooldown = 1
  MaxSends = 2
  Workers = {w1, w2}
  NoJob = NoJob
  MaxAttempts = 2
  AgeCap = 0
  Overdue = 0
  MaxBackoff = 0
INVARIANTS ConfirmedCanLeave LinksExpire
PROPERTIES KeepsOptIn OldLinksAreDead OneEmailPerCooldown EventuallyMailed
CHECK_DEADLOCK FALSE
