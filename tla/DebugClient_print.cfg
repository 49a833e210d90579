SPECIFICATION FairSpec
CONSTANTS
  Txns = {t1, t2}
  MaxRows = 2
  MaxFaults = 2
CHECK_DEADLOCK FALSE
INVARIANTS
  SkippedIsPrinted
PROPERTIES
  EventuallyPrinted
