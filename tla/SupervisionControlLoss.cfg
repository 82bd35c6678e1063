SPECIFICATION Spec
CONSTANTS
  a = a
  b = b
  NoTurn = NoTurn
  Controller <- Controllers
  MaxMishaps = 0
CHECK_DEADLOCK FALSE
INVARIANTS
  ControlLossQuarantined
