SPECIFICATION Spec
CONSTANTS
  Handles <- MCHandles
  BootHandle <- MCBootHandle
  Lines <- ClaimLines
  InBounds <- MCInBounds
INVARIANTS GlobalsAnywhere
CHECK_DEADLOCK FALSE
