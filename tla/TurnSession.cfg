SPECIFICATION Spec
CONSTANTS
  MaxInterrupts = 2
CHECK_DEADLOCK FALSE
INVARIANTS
  TurnTypeOK
  StoppedWhenDone
  InterruptWins
  SubmittedOnce
PROPERTIES
  NoLateSubmission
  InterruptSettles
