SPECIFICATION Spec
CONSTANTS
  Setups <- MutationSetups
CHECK_DEADLOCK FALSE
INVARIANTS
  LeasesHeldUntilCleanComparison
