SPECIFICATION Spec
CONSTANTS
  None = None
  p1 = p1
  p2 = p2
  b1 = b1
  b2 = b2
  Pages = {p1, p2}
  Browsers = {b1, b2}
  Attempts = 2
  Scenarios <- AllHistories
  Bound = 3
CHECK_DEADLOCK FALSE
INVARIANTS
  TypeOK
  WritingKept
  OneTextPerSeal
PROPERTIES
  TypingStands
  FinalIsRecorded
