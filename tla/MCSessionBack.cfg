SPECIFICATION FairSpec
CONSTANTS
  Accounts = {a, b}
  None = None
  Rejected = Rejected
  Logins = {l1, l2}
  Registers = {}
  Frame = Frame
  MaxDepth = 2
  MaxWaiting = 0
  SystemBack = TRUE
CHECK_DEADLOCK FALSE
INVARIANTS TypeOK NoThinAir
PROPERTIES AuthSpec EveryLoginEnds
