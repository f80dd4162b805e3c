SPECIFICATION Spec
CONSTANTS
  Interfaces = 2
  MaxArrivals = 2
INVARIANTS
  EachOnceInOrder
PROPERTIES
  DataBeforeReports
  AllHandled
CHECK_DEADLOCK FALSE
