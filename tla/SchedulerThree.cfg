SPECIFICATION Spec
CONSTANTS
  N = 3
  Interval = 40
  Tolerance = 60
  Certified <- CertifiedMax
  Overhead = 4
  Grain = 40
CHECK_DEADLOCK FALSE
INVARIANTS
  PollsInTime
