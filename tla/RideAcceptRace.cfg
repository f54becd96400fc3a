SPECIFICATION FairSpec
CONSTANTS
  Drivers = {d1, d2}
  NoDriver = NoDriver
  Requests = {r1, r2}
  Overlapping = {"accept"}
  MaxFailures = 1
  MaxHistory = 9
INVARIANTS
  TypeOK
  HolderHasRide
  HandshakeAgrees
  HistoryIsConnected
  FareMatchesOutcome
PROPERTIES
  NoHandover
  ImplementsOwnership
  ClaimLeadsToAccepted
CHECK_DEADLOCK FALSE
