SPECIFICATION FairSpec
CONSTANTS
  k1 = k1
  k2 = k2
  v1 = v1
  v2 = v2
  Keys <- MCKeys
  Vals <- MCVals
  TableKinds <- Sound
  MaxChanges = 2
  MaxFaults = 2
CHECK_DEADLOCK FALSE
INVARIANTS
  NotBehind
  Converged
PROPERTY
  EventuallyConverged
