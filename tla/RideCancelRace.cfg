SPECIFICATION Spec
CONSTANTS
  Drivers = {d1, d2}
  NoDriver = NoDriver
  Requests = {r1, r2}
  Overlapping = {"accept", "cancel"}
  MaxFailures = 0
  MaxHistory = 20
SYMMETRY Symmetry
PROPERTIES
  CanceledRideStaysCanceled
CHECK_DEADLOCK FALSE
