SPECIFICATION FairSpec
CONSTANTS
  Setups <- SettlingSetups
CHECK_DEADLOCK FALSE
PROPERTIES
  FaultSettles
