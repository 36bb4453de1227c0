SPECIFICATION FormatSpec
CONSTANTS
  Refused = Refused
  NotAFrame = NotAFrame
CHECK_DEADLOCK FALSE
INVARIANTS
  ObeyedWritesReadBack
