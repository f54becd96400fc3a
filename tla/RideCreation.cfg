SPECIFICATION FairSpec
CONSTANTS
  Riders = {r1}
  Drivers = {d1}
  Nearby = {{}, {d1}}
  Requests = {q1, q2}
  Nothing = Nothing
  Handlers = {h1, h2}
  Distances = {28571, 28600}
  Discounts = {0, 1, 2000}
  Concurrency = 1
  MaxClock = 1
  MaxCalls = 2
  MaxFaults = 1
  Scale = 2
  FareRatePerKm = 7
  AppFeePercent = 5
  AppFeeMinimumAmount = 300
  AppFeeMinimumThreshold = 1000
INVARIANTS
  OneRideUnlessOverlapping
  EstimateIsOwn
  RefusalLeavesNothing
  FareIsExact
PROPERTIES
  EveryRequestIsAnswered
CHECK_DEADLOCK FALSE
