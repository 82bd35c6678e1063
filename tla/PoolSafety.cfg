SPECIFICATION Spec
CONSTANTS
  Setups <- SafetySetups
CHECK_DEADLOCK FALSE
INVARIANTS
  PoolTypeOK
  AcceptanceEarned
  AuthorizationEarned
  DiskQuiescent
  NoStrandedChild
  LeaseDiscipline
PROPERTIES
  NoSubmissionAfterFault
