SPECIFICATION FairSpec
CONSTANTS
  Clients = {c1, c2}
  MaxFd = 2
  MaxReads = 2
INVARIANTS
  TypeOK
  OrphansAreLate
  MudOutlivesUsers
  SocketsClosed
PROPERTIES
  NobodyAfterKill
  ShutdownCompletes
CHECK_DEADLOCK FALSE
