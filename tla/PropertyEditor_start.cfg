SPECIFICATION EditorSpec
CONSTANTS
  Containers <- MCContainers
  Values = {"v1", "v2"}
  Base <- ImageFile
  MaxCrashes = 2
CHECK_DEADLOCK FALSE
INVARIANTS
  ServesEnvironment
  KeepsTheRest
