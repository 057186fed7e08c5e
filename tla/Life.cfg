SPECIFICATION Spec
CONSTANTS
  NUM_ROWS = 4
  NUM_COLS = 3
  MAX_GENERATIONS = 3
  Files <- MCFiles
INVARIANTS
  TypeOK
  FileIsBoard
PROPERTIES
  ConwaySteps
CHECK_DEADLOCK FALSE
