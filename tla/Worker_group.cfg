SPECIFICATION FairSpec
CONSTANTS
  Workers = {w1, w2}
  PortsAmount = 2
  Values = {"row", "no_email", "deleted"}
  Faults = {"db", "proxy", "stop", "kill"}
  MaxMsgs = 2
  MaxLosses = 1
CHECK_DEADLOCK FALSE
INVARIANTS
  PortsBalanced
  CommittedIsHandled
  AgainOnlyAfterLoss
PROPERTIES
  EveryMessageTaken
