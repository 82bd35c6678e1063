SPECIFICATION Spec
CONSTANTS
  Setups <- QuietSetups
CHECK_DEADLOCK FALSE
INVARIANTS
  IsolatedFailureReported
