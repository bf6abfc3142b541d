\* Four items in pages of three: round(4 / 3) is one short of the last page.
SPECIFICATION FairSpec
CONSTANTS
  ListCalls = {l1, l2, l3}
  ForeignLists = {f}
  ForeignPlain = {p}
  Total = 4
  PerPage = 3
  ForeignTotal = 1
  ForeignPerPage = 2
  Configured = youth
  NoBase = NoBase
  Pending = Pending
  Thrown = Thrown
  NoAnswer = NoAnswer
  ErrorModel = ErrorModel
INVARIANTS
  TypeOK
  CleanListIsPrefix
  ForeignItemsNeedFailure
  SpinnerStuckOnlyAfterFailure
PROPERTY RefreshEnds
\* every call is made once: when all have returned the instance stops
CHECK_DEADLOCK FALSE
