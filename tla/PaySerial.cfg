SPECIFICATION FairSpec
CONSTANTS
  Payers = {p1}
  MaxOutbox = 2
  MaxOrders = 2
  MaxAttempts = 2
  MaxCrashes = 1
INVARIANTS
  OneOrderPerRide
  OpenOrderIsKnown
  LinkIsPayable
PROPERTIES
  PaymentIsRecorded
CHECK_DEADLOCK FALSE
