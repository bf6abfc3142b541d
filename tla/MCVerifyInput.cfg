\* Edits anywhere in a box.
SPECIFICATION Spec
CONSTANTS
  Digits = {1, 2}
  Blank = Blank
  Length = 6
CHECK_DEADLOCK FALSE
INVARIANTS TypeOK NothingBehind CompleteLength
PROPERTY EntrySpec
