SPECIFICATION FairSpec
CONSTANTS
  Drivers = {d1, d2, d3}
  Idle = 1
  Batch = 2
  MaxReports = 2
  MaxTotal = 3
  MaxLag = 1
  MaxFailures = 1
INVARIANTS
  AnswerIsCoherent
PROPERTIES
  StoredInOrder
  CleanupIsComplete
  IdleDriverIsRemoved
CHECK_DEADLOCK FALSE
