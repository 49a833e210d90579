SPECIFICATION FairSpec
CONSTANTS
  MAX_IN_FLIGHT_TRANSACTIONS = 2
  QueueMax = 2
  MaxRows = 2
  MaxTxns = 3
  MaxFaults = 1
  Faults = {"crash", "signal", "error", "delivery", "drop"}
INVARIANTS
  TypeOK
  ConfirmedDelivered
  CheckpointDelivered
  SnapshotFlag
  SlotNotReused
  PendingExact
  NoProtocolError
  FullWaitsForKafka
PROPERTY
  ConfirmedMonotone
  KeepsPromise
  BackpressureEnds
  EventuallyConfirmed
