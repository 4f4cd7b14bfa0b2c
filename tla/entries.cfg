SPECIFICATION Spec
CONSTANTS
  Handles <- MCHandles
  BootHandle <- MCBootHandle
  Lines <- AllLines
  InBounds <- MCInBounds
INVARIANTS TypeOK StringsInOrder AssignmentsTied RefusedForCause
CHECK_DEADLOCK FALSE
