SPECIFICATION Spec
CONSTANTS
  NRows = 2
  Faulty = {1}
  Mergeable = {1}
  Admins = {a1, a2}
  Nobody = Nobody
INVARIANTS PendingBlocksCommit
CHECK_DEADLOCK FALSE
