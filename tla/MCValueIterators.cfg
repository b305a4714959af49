SPECIFICATION Spec
CONSTANTS
  Vals = {u, v}
  Elems <- MCElems
  Labels <- MCLabels
  Texts <- MCTexts
  asString <- MCasString
  Label <- MCLabel
  MaxSize = 3
  End = End
  Lost = Lost
  None = None
INVARIANTS TypeOK NoUB
PROPERTIES VisitsEach FindsIt RoughIsFatal LoopEnds
CHECK_DEADLOCK FALSE
