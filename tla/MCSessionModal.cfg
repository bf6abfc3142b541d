SPECIFICATION FairCalmSpec
CONSTANTS
  Accounts = {a, b}
  None = None
  Rejected = Rejected
  Logins = {l1, l2, l3}
  Registers = {g1, g2}
  Frame = Frame
  MaxDepth = 5
  MaxWaiting = 3
  SystemBack = TRUE
CHECK_DEADLOCK FALSE
INVARIANTS DialogIsModal SessionAgrees OwnAccount
PROPERTIES ThrowsOnlyUnready SplashEnds
