SPECIFICATION Spec
CONSTANTS
  V = 4
  MaxEdges = 4
INVARIANTS
  TypeOK
  ShortestPaths
  PathsHonest
  Parenthesis
CHECK_DEADLOCK FALSE
