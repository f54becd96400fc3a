SPECIFICATION Spec
CONSTANTS
  Reporters = {r1}
  Flushers = {worker}
  Overlap <- FlushOverlaps
  MaxPosition = 3
  MaxRider = 2
  MaxFailures = 0
  MaxGeo = 0
  Estimate = 5
INVARIANTS
  NoTrackLost
CHECK_DEADLOCK FALSE
