\* Up to two notifications, a list opened twice or refreshed, and two taps.
SPECIFICATION Spec
CONSTANTS
  Total = 2
  MaxOpens = 2
  Loads = {l1, l2}
  Badgers = {}
  Taps = {t1, t2}
  None = None
  Configured = youth
  NoBase = NoBase
  Pending = Pending
  Thrown = Thrown
  NoAnswer = NoAnswer
  ErrorModel = ErrorModel
SYMMETRY Symmetry
INVARIANTS
  BadgeCountsUnread
  ListedOnce
  OnlyFirstLooksRead
\* every call is made once: when all have returned the instance stops
CHECK_DEADLOCK FALSE
