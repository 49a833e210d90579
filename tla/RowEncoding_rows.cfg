SPECIFICATION EncodingSpec
CONSTANTS
  Tables <- MCTables
  Lengths = {0, 16379, 16380, 65531, 65532, 262139, 262140, 1048571, 1048572, 4194304}
CHECK_DEADLOCK FALSE
INVARIANTS
  SchemaValid
  RowReadsBack
  KeyIsKey
  Terminated
  RefusedTooLarge
