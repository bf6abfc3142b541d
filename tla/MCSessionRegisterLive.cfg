SPECIFICATION FairSpec
CONSTANTS
  Accounts = {a}
  None = None
  Rejected = Rejected
  Logins = {}
  Registers = {g, h}
  Frame = Frame
  MaxDepth = 3
  MaxWaiting = 0
  SystemBack = TRUE
CHECK_DEADLOCK FALSE
PROPERTIES EveryRegisterEnds
