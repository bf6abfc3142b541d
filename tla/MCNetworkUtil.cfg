\* Three calls: one whose answer goes astray, one that fails, one more post.
SPECIFICATION FairSpec
CONSTANTS
  Calls = {c1, c2, c3}
  Bases = {push}
  Configured = youth
  NoBase = NoBase
  Pending = Pending
  Thrown = Thrown
  NoAnswer = NoAnswer
  ErrorModel = ErrorModel
INVARIANTS
  TypeOK
  PostsSeeOnlyPosts
  NoStrayCall
PROPERTIES
  ContractSpec
  EveryCallEnds
\* every call is made once: when all have returned the instance stops
CHECK_DEADLOCK FALSE
