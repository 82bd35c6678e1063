SPECIFICATION Spec
CONSTANTS
  a = a
  b = b
  NoTurn = NoTurn
  Controller <- Controllers
  MaxMishaps = 1
SYMMETRY AnyController
CHECK_DEADLOCK FALSE
INVARIANTS
  SupervisionTypeOK
  TrailFirst
  CompletionEarned
  RetryEarned
PROPERTIES
  FinalKept
