SPECIFICATION Spec
CONSTANTS
  Clients = {c1, c2}
  MaxFd = 2
  MaxReads = 3
INVARIANT OwnSocket
CHECK_DEADLOCK FALSE
