SPECIFICATION Spec
CONSTANTS
  Drivers = {d1, d2}
  NoDriver = NoDriver
  Requests = {r1}
  Overlapping = {}
  MaxFailures = 0
  MaxHistory = 20
SYMMETRY Symmetry
PROPERTIES
  DriverKeptDuringTrip
CHECK_DEADLOCK FALSE
