SPECIFICATION Spec
CONSTANTS
  Sessions = {s1, s2}
  Threads = 3
  MaxLines = 1
INVARIANT
  TypeOK
PROPERTIES
  CrowdStays
  Served
  QuitWorks
