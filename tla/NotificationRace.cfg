SPECIFICATION Spec
CONSTANTS
  Clients = {c1, c2, c3}
  MaxEmits = 3
  MaxFailures = 1
SYMMETRY Symmetry
INVARIANTS
  NoNotificationMissed
  SubscriptionMatchesClients
  NotificationsInOrder
CHECK_DEADLOCK FALSE
