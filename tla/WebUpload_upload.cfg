SPECIFICATION FairWebSpec
CONSTANTS
  Requests = {r1, r2}
  MaxFiles = 2
  MaxConns = 1
  WebFaults = {"headers", "refused", "copy", "lost", "abort", "parse", "again"}
CHECK_DEADLOCK FALSE
INVARIANTS
  OneAnswerPerFile
  EndedOnce
PROPERTIES
  ProcessedIsStored
  AnsweredUnlessFailed
  ConnectionEnds
