SPECIFICATION Spec
CONSTANTS
  l1 = l1
  l2 = l2
  t1 = t1
  t2 = t2
  Launcher = {l1, l2}
  Nobody = Nobody
  Transaction = {t1, t2}
  Plans <- LaunchPlans
  MaxCrashes = 1
  LateAppends = TRUE
CHECK_DEADLOCK FALSE
INVARIANTS
  IntentBeforeSession
  PoolRunsOnce
  StopContains
  JournalKept
PROPERTIES
  OpportunitySpentOnce
