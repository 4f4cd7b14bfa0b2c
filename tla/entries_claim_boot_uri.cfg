SPECIFICATION Spec
CONSTANTS
  Handles <- MCHandles
  BootHandle <- MCBootHandle
  Lines <- ClaimLines
  InBounds <- MCInBounds
INVARIANTS BootUriOnConfigPartition
CHECK_DEADLOCK FALSE
