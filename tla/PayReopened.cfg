SPECIFICATION Spec
CONSTANTS
  Payers = {p1}
  MaxOutbox = 3
  MaxOrders = 2
  MaxAttempts = 2
  MaxCrashes = 0
PROPERTIES
  PaidIsFinal
CHECK_DEADLOCK FALSE
