SPECIFICATION Spec
CONSTANTS
  PageCount = 8
  FourGB = 6
  OneGB = 4
  CommandLineLimit = 2
  KernelStep = 2
  UnitsPerPage = 2
  FirmwarePages <- MCFirmwarePages
  Entries <- MCEntries
  Offsets <- MCOffsets
  MaxAttempts = 3
INVARIANTS FreePagesAssertHolds
CHECK_DEADLOCK FALSE
