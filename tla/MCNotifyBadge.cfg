\* One notification, a list opened twice or refreshed, and a tap beside a badge that asks.
SPECIFICATION Spec
CONSTANTS
  Total = 1
  MaxOpens = 2
  Loads = {l1, l2}
  Badgers = {b}
  Taps = {t1}
  None = None
  Configured = youth
  NoBase = NoBase
  Pending = Pending
  Thrown = Thrown
  NoAnswer = NoAnswer
  ErrorModel = ErrorModel
SYMMETRY Symmetry
INVARIANTS
  BadgeCountsUnread
  TypeOK
\* every call is made once: when all have returned the instance stops
CHECK_DEADLOCK FALSE
