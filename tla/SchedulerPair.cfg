SPECIFICATION Spec
CONSTANTS
  N = 2
  Interval = 40
  Tolerance = 60
  Certified <- CertifiedMax
  Overhead = 4
  Grain = 4
CHECK_DEADLOCK FALSE
INVARIANTS
  SchedulerTypeOK
PROPERTIES
  PeersStayInTime
  EveryChildServed
