SPECIFICATION Spec
CONSTANTS
  Kernels <- MCKernels
  Machines <- MCMachines
  Configs <- MCConfigs
  Dates <- MCDates
  MaxAttempts = 2
INVARIANTS FiveLevelSupport
CHECK_DEADLOCK FALSE
