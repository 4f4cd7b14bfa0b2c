SPECIFICATION Spec
CONSTANTS
  DefaultDelay = 1
  MaxDelay = 2
  Second = 2
  TIMER_INTERVAL = 1
  Int32Modulus = 16
  UintnModulus = 32
  NoConfig = NoConfig
  Files <- ClaimFiles
  Machines <- ClaimMachines
  KeyBufferSize = 1
  LowestDefaultOS <- MCLowestDefaultOS
  MaxBoots = 1
INVARIANTS WaitForEventAssertHolds
CHECK_DEADLOCK FALSE
