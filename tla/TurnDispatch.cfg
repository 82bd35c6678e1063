SPECIFICATION Spec
CONSTANTS
  Dispatcher = d
  Recoverer = {r}
  Nobody = Nobody
  MaxFaults = 1
  MaxCalls = 1
CHECK_DEADLOCK FALSE
INVARIANTS
  WriteAhead
  ResolutionTruthful
  ContainedMeansStopped
  ContainedIsAudited
