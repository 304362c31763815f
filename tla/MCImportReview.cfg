SPECIFICATION FairSpec
CONSTANTS
  NRows = 2
  Faulty = {1}
  Mergeable = {1}
  Admins = {a1, a2}
  Nobody = Nobody
INVARIANTS CommitFollowsReview
PROPERTIES ClosedOnce RequestsEnd
CHECK_DEADLOCK FALSE
