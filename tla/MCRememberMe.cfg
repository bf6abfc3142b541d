SPECIFICATION Spec
CONSTANTS
  Accounts = {a, b}
  Null = Null
  Empty = Empty
  MaxPages = 3
  MaxLeft = 2
SYMMETRY Symmetry
CHECK_DEADLOCK FALSE
INVARIANTS RememberedAsAsked TypedTextStays OffersRemembered
