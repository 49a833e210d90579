SPECIFICATION Spec
CONSTANTS
  MAX_IN_FLIGHT_TRANSACTIONS = 2
  QueueMax = 1
  MaxRows = 1
  MaxTxns = 3
  MaxFaults = 1
  Faults = {"delivery"}
INVARIANT NoDataLost
