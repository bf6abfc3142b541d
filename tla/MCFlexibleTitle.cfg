\* kToolbarHeight and expandedHeight, below a status bar of 24 pixels.
SPECIFICATION Spec
CONSTANTS
  MinExtent = 80
  MaxExtent = 174
INVARIANTS
  TypeOK
  RestsAtEnds
PROPERTY MovesSmoothly
