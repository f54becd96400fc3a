SPECIFICATION FairSpec
CONSTANTS
  Reporters = {r1, r2}
  Flushers = {worker}
  Overlap <- DriverInOrder
  MaxPosition = 2
  MaxRider = 2
  MaxFailures = 1
  MaxGeo = 1
  Estimate = 5
INVARIANTS
  NeverOvercharged
  NoDuplicateTracks
  SummaryIsLatest
  FareDistanceIsExact
PROPERTIES
  CompletedRideIsCleanedUp
CHECK_DEADLOCK FALSE
