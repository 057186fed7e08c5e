SPECIFICATION Spec
CONSTANTS
  Text <- Letters
  Special <- Specials
  QuitWord <- Quit
  MaxRead = 3
  MaxSent = 5
INVARIANTS
  TypeOK
  LinesIntact
  NothingLost
  TwoBreaks
CHECK_DEADLOCK FALSE
