SPECIFICATION Spec
CONSTANTS
  alice = alice
  secret = secret
  Empty = Empty
  Blank = Blank
  Typed <- WordOrSpaces
  MaxReads = 4
INVARIANT ActiveControllerAlive
CHECK_DEADLOCK FALSE
