SPECIFICATION FairSpec
CONSTANTS
  Users = {u1, u2}
  MaxEvents = 3
  Batch = 2
INVARIANTS
  TypeOK
  OnlyTheLastLost
PROPERTIES
  LogSpec
  EventsArrive
  QueuedArrives
CHECK_DEADLOCK FALSE
