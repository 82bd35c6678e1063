SPECIFICATION Spec
CONSTANTS
  a = a
  b = b
  c = c
  a1 = a1
  a2 = a2
  b1 = b1
  c1 = c1
  Pool <- MCPool
  Lease <- MCLease
  PoolOf <- MCPoolOf
  PoolId <- MCPoolId
  Worktree <- MCWorktree
  Root <- MCRoot
  Targets <- MCTargets
  MaxCrashes = 1
CHECK_DEADLOCK FALSE
INVARIANTS
  TypeOK
  WorkersDisjoint
  ActiveLeasesDisjoint
  EvidenceBound
PROPERTIES
  LeaseNeverRegresses
