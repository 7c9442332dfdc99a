CONSTANTS
  Points <- MCPoints
  MaxEvents = 4
SPECIFICATION Spec
CHECK_DEADLOCK FALSE
INVARIANTS
  TypeOK
  HeaderTellsSize
  ViewerCatchesUp
  ShownIsKept
  StrokesConnect
