SPECIFICATION FairSpec
CONSTANTS
  alice = alice
  secret = secret
  Empty = Empty
  Blank = Blank
  Typed <- WordOrSpaces
  MaxReads = 4
INVARIANTS
  TypeOK
  NeverDeaf
  ControllerServes
  OnePromptPerLine
  PollPerPrompt
  PasswordsHidden
PROPERTIES
  ContractSpec
  SessionSettles
CHECK_DEADLOCK FALSE
