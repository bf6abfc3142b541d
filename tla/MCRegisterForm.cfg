\* Three choices of three aimags, one without soums, one submit, one get of another screen.
SPECIFICATION Spec
CONSTANTS
  Aimags = {a1, a2, e}
  Barren = {e}
  AimagCall = AimagCall
  SoumCalls = {s1, s2, s3}
  Submits = {p}
  ForeignCalls = {f}
  None = None
  Configured = youth
  NoBase = NoBase
  Pending = Pending
  Thrown = Thrown
  NoAnswer = NoAnswer
  ErrorModel = ErrorModel
SYMMETRY Symmetry
INVARIANTS
  FormAgrees
  SoumIsListed
  AimagsAsSoumsNeedFailure
\* every call is made once: when all have returned the instance stops
CHECK_DEADLOCK FALSE
